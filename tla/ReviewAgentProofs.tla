--------------------------- MODULE ReviewAgentProofs ---------------------------
(***************************************************************************)
(* Proofs about ReviewAgent, for any resource, evidence, models, batches,  *)
(* failures and rounds: verdicts speak of the text and the evidence of     *)
(* their review, a resource passes by consensus, and a rejected statement  *)
(* is gone from the revision that answers the report.                      *)
(***************************************************************************)
EXTENDS ReviewAgent, SequenceTheorems, FiniteSetTheorems, WellFoundedInduction, TLAPS

-----------------------------------------------------------------------------
(* Induction and folds                                                     *)

LEMMA LeastNumber ==
  ASSUME NEW T \in SUBSET Nat, T # {}
  PROVE  \E x \in T : \A y \in T : x <= y
  <1> DEFINE R == {ss \in Nat \X Nat : ss[1] < ss[2]}
  <1>1. IsWellFoundedOn(R, Nat)
    BY ONLY NatLessThanWellFounded, Zenon DEF OpToRel
  <1>2. \A x, y \in Nat : y < x => <<y, x>> \in R
    OBVIOUS
  <1> HIDE DEF R
  <1>3. PICK x \in T : \A y \in T : ~(<<y, x>> \in R)
    BY <1>1, WFMin
  <1>4. \A y \in T : ~(y < x)
    BY <1>2, <1>3
  <1> QED BY <1>4

LEMMA SetInduction ==
  ASSUME NEW S \in SUBSET Nat, 0 \in S, \A n \in S : n + 1 \in S
  PROVE  S = Nat
  <1>1. SUFFICES ASSUME Nat \ S # {}
                 PROVE  FALSE
    OBVIOUS
  <1>2. PICK x \in Nat \ S : \A y \in Nat \ S : x <= y
    BY <1>1, LeastNumber
  <1>3. x - 1 \in S /\ x - 1 + 1 = x
    BY <1>2
  <1> QED BY <1>2, <1>3

\* What every step of a fold keeps, the fold keeps.
LEMMA FoldedStays ==
  ASSUME NEW T, NEW E, NEW step, NEW base \in T, NEW seq \in Seq(E),
         \A x \in T : \A e \in E : step[x][e] \in T
  PROVE  Folded(step, base, seq) \in T
  <1> DEFINE n == Len(seq)
             IsUpTo(g, m) == g = [i \in 0..m |-> IF i = 0 THEN base ELSE step[g[i - 1]][seq[i]]]
             Defined == {m \in Nat : \E g : IsUpTo(g, m)}
  <1>1. n \in Nat /\ \A i \in 1..n : seq[i] \in E
    BY ElementOfSeq, LenProperties
  <1>2. 0 \in Defined
    <2>1. IsUpTo([i \in 0..0 |-> base], 0)
      OBVIOUS
    <2> QED BY <2>1
  <1>3. ASSUME NEW m \in Defined
        PROVE  m + 1 \in Defined
    <2>1. PICK g : IsUpTo(g, m)
      OBVIOUS
    <2> DEFINE h == [i \in 0..(m + 1) |-> IF i = m + 1 THEN step[g[m]][seq[m + 1]] ELSE g[i]]
    <2>2. IsUpTo(h, m + 1)
      <3>1. \A i \in 0..(m + 1) : h[i] = IF i = 0 THEN base ELSE step[h[i - 1]][seq[i]]
        <4>1. TAKE i \in 0..(m + 1)
        <4>2. CASE i = m + 1
          <5>1. h[i] = step[g[m]][seq[m + 1]] /\ i # 0 /\ h[i - 1] = g[m] /\ seq[i] = seq[m + 1]
            BY <4>2
          <5> QED BY <5>1
        <4>3. CASE i # m + 1
          <5>1. i \in 0..m /\ h[i] = g[i] /\ (i # 0 => i - 1 \in 0..m /\ h[i - 1] = g[i - 1])
            BY <4>3
          <5>2. g[i] = IF i = 0 THEN base ELSE step[g[i - 1]][seq[i]]
            BY <2>1, <5>1
          <5> QED BY <5>1, <5>2
        <4> QED BY <4>2, <4>3
      <3> QED BY <3>1
    <2> HIDE DEF h
    <2>3. m + 1 \in Nat /\ \E g1 : IsUpTo(g1, m + 1)
      BY <2>2
    <2> QED BY <2>3
  <1>4. Defined = Nat
    <2> HIDE DEF Defined
    <2> QED BY <1>2, <1>3, SetInduction DEF Defined
  <1> DEFINE upTo == CHOOSE g : g = [i \in 0..n |-> IF i = 0 THEN base ELSE step[g[i - 1]][seq[i]]]
  <1>5. IsUpTo(upTo, n)
    <2>1. \E g : IsUpTo(g, n)
      BY <1>1, <1>4
    <2> QED BY <2>1
  <1>6. Folded(step, base, seq) = upTo[n]
    BY DEF Folded
  <1>a. \A m \in 0..n : upTo[m] = IF m = 0 THEN base ELSE step[upTo[m - 1]][seq[m]]
    <2> HIDE DEF upTo
    <2> QED BY <1>1, <1>5
  <1> HIDE DEF upTo
  <1> DEFINE Kept == {m \in Nat : m <= n => upTo[m] \in T}
  <1>7. 0 \in Kept
    BY <1>1, <1>a
  <1>8. ASSUME NEW m \in Kept
        PROVE  m + 1 \in Kept
    <2>1. SUFFICES ASSUME m + 1 <= n
                   PROVE  upTo[m + 1] \in T
      OBVIOUS
    <2>2. upTo[m] \in T /\ m + 1 \in 1..n
      BY <1>1, <2>1
    <2>3. upTo[m + 1] = step[upTo[m]][seq[m + 1]]
      <3>1. m + 1 \in 0..n /\ m + 1 # 0 /\ m + 1 - 1 = m
        BY <1>1, <2>1
      <3> QED BY <1>a, <3>1
    <2> QED BY <1>1, <2>2, <2>3
  <1>9. Kept = Nat
    <2> HIDE DEF Kept
    <2> QED BY <1>7, <1>8, SetInduction DEF Kept
  <1> QED BY <1>1, <1>6, <1>9

-----------------------------------------------------------------------------
(* The evidence                                                            *)

LEMMA RangeIn ==
  ASSUME NEW s \in Seq(Chunks)
  PROVE  /\ Range(s) \subseteq Chunks /\ Len(s) \in Nat /\ DOMAIN s = 1..Len(s)
         /\ Range(s) = {s[i] : i \in 1..Len(s)}
  BY LenProperties, ElementOfSeq DEF Range

LEMMA WithStays ==
  ASSUME NEW s \in Seq(Chunks), NEW c \in Chunks
  PROVE  /\ With(s, c) \in Seq(Chunks) /\ Len(With(s, c)) <= Len(s) + 1
         /\ Len(s) <= Len(With(s, c)) /\ \A i \in 1..Len(s) : With(s, c)[i] = s[i]
  BY AppendProperties, LenProperties DEF With

LEMMA BestIn ==
  ASSUME NEW ranked \in Seq(Chunks), NEW S \in SUBSET Range(ranked), S # {}
  PROVE  Best(ranked, S) \in S
  <1> DEFINE At == {i \in DOMAIN ranked : ranked[i] \in S}
  <1>1. At \in SUBSET Nat /\ At # {} /\ DOMAIN ranked = 1..Len(ranked) /\ Len(ranked) \in Nat
    BY RangeIn DEF Range
  <1>2. PICK i \in At : \A j \in At : i <= j
    BY <1>1, LeastNumber
  <1>3. \A j \in 1..(i - 1) : ranked[j] \notin S
    BY <1>1, <1>2
  <1>4. \E k \in DOMAIN ranked : ranked[k] \in S /\ \A j \in 1..(k - 1) : ranked[j] \notin S
    BY <1>2, <1>3
  <1> QED BY <1>4 DEF Best

LEMMA FirstOfStays ==
  ASSUME NEW s \in Seq(Chunks), NEW n \in Nat
  PROVE  /\ FirstOf(s, n) \in Seq(Chunks) /\ Len(FirstOf(s, n)) <= n
         /\ Len(FirstOf(s, n)) = SmallerOf(n, Len(s))
         /\ \A i \in 1..SmallerOf(n, Len(s)) : FirstOf(s, n)[i] = s[i]
  <1> DEFINE m == SmallerOf(n, Len(s))
  <1>1. m \in Nat /\ m <= n /\ m <= Len(s) /\ Len(s) \in Nat
    BY LenProperties DEF SmallerOf
  <1>2. \A i \in 1..m : s[i] \in Chunks
    BY <1>1, ElementOfSeq
  <1> HIDE DEF m
  <1>3. /\ SubSeq(s, 1, m) \in Seq(Chunks)
        /\ Len(SubSeq(s, 1, m)) = IF 1 <= m THEN m - 1 + 1 ELSE 0
        /\ \A i \in 1..(m - 1 + 1) : SubSeq(s, 1, m)[i] = s[1 + i - 1]
    BY <1>1, <1>2, SubSeqProperties
  <1>4. Len(SubSeq(s, 1, m)) = m /\ \A i \in 1..m : SubSeq(s, 1, m)[i] = s[i]
    BY <1>1, <1>3
  <1> QED BY <1>1, <1>3, <1>4 DEF FirstOf, m

LEMMA JoinedStays ==
  ASSUME NEW have \in Seq(Chunks), NEW more \in Seq(Chunks)
  PROVE  LET all == Folded(Joining, have, more)
         IN  /\ all \in Seq(Chunks) /\ Len(have) <= Len(all)
             /\ \A i \in 1..Len(have) : all[i] = have[i]
  <1> DEFINE T == {s \in Seq(Chunks) : Len(have) <= Len(s) /\ \A i \in 1..Len(have) : s[i] = have[i]}
  <1>1. have \in T
    BY LenProperties
  <1>2. \A s \in T : \A c \in Chunks : Joining[s][c] \in T
    <2>1. SUFFICES ASSUME NEW s \in T, NEW c \in Chunks
                   PROVE  Joining[s][c] \in T
      OBVIOUS
    <2>2. Joining[s][c] = With(s, c)
      BY DEF Joining
    <2>3. /\ With(s, c) \in Seq(Chunks) /\ Len(s) \in Nat /\ Len(have) \in Nat
          /\ Len(With(s, c)) \in Nat
          /\ Len(s) <= Len(With(s, c)) /\ \A i \in 1..Len(s) : With(s, c)[i] = s[i]
      BY WithStays, LenProperties
    <2> QED BY <2>2, <2>3
  <1> HIDE DEF T
  <1>3. Folded(Joining, have, more) \in T
    BY <1>1, <1>2, FoldedStays
  <1> QED BY <1>3 DEF T

LEMMA ExtendedStays ==
  ASSUME NEW have \in Seq(Chunks), Len(have) <= Capacity, NEW more \in Seq(Chunks), NEW of
  PROVE  Extended(have, more, of) \in Seq(Chunks) /\ Len(Extended(have, more, of)) <= Capacity
  <1> DEFINE T == {s \in Seq(Chunks) : Len(s) <= Capacity}
             step == [some \in Seq(Chunks) |-> [c \in Chunks |->
                        IF c \notin of \/ Len(some) >= Capacity THEN some ELSE With(some, c)]]
  <1>1. have \in T
    OBVIOUS
  <1>2. \A s \in T : \A c \in Chunks : step[s][c] \in T
    <2>1. SUFFICES ASSUME NEW s \in T, NEW c \in Chunks
                   PROVE  step[s][c] \in T
      OBVIOUS
    <2>2. step[s][c] = IF c \notin of \/ Len(s) >= Capacity THEN s ELSE With(s, c)
      OBVIOUS
    <2>3. With(s, c) \in Seq(Chunks) /\ Len(With(s, c)) <= Len(s) + 1 /\ Len(With(s, c)) \in Nat
          /\ Len(s) \in Nat
      BY WithStays, LenProperties
    <2> QED BY <2>2, <2>3, CapacityAssumption
  <1> HIDE DEF T, step
  <1>3. Folded(step, have, more) \in T
    BY <1>1, <1>2, FoldedStays
  <1> QED BY <1>3 DEF T, step, Extended

LEMMA MergedStays ==
  ASSUME NEW previous \in Seq(Chunks), NEW fresh \in Seq(Chunks), NEW active
  PROVE  /\ Merged(previous, fresh, <<>>, active) \in Seq(Chunks)
         /\ Len(Merged(previous, fresh, <<>>, active)) <= Capacity
  <1> DEFINE a == Extended(<<>>, <<>>, Chunks)
             b == Extended(a, fresh, Chunks)
             d == Extended(b, previous, active)
  <1>1. << >> \in Seq(Chunks) /\ Len(<< >>) <= Capacity
    BY EmptySeq, CapacityAssumption
  <1>2. a \in Seq(Chunks) /\ Len(a) <= Capacity
    BY <1>1, ExtendedStays
  <1> HIDE DEF a
  <1>3. b \in Seq(Chunks) /\ Len(b) <= Capacity
    BY <1>2, ExtendedStays
  <1> HIDE DEF b
  <1>4. d \in Seq(Chunks) /\ Len(d) <= Capacity
    BY <1>3, ExtendedStays
  <1> HIDE DEF d
  <1>5. Extended(d, previous, Chunks) \in Seq(Chunks) /\ Len(Extended(d, previous, Chunks)) <= Capacity
    BY <1>4, ExtendedStays
  <1> QED BY <1>5 DEF a, b, d, Merged

\* A recheck is shown all the evidence there is.
LEMMA RefreshedKeeps ==
  ASSUME NEW have \in Seq(Chunks), Len(have) <= Capacity, NEW more \in Seq(Chunks)
  PROVE  Range(have) \subseteq Range(WithRefreshed(have, more))
  <1> DEFINE all == Folded(Joining, have, more)
             cut == FirstOf(all, Capacity)
  <1>1. /\ all \in Seq(Chunks) /\ Len(have) <= Len(all) /\ \A i \in 1..Len(have) : all[i] = have[i]
    BY JoinedStays
  <1> HIDE DEF all
  <1>2. /\ cut \in Seq(Chunks) /\ Len(cut) = SmallerOf(Capacity, Len(all))
        /\ \A i \in 1..SmallerOf(Capacity, Len(all)) : cut[i] = all[i]
    BY <1>1, FirstOfStays, CapacityAssumption
  <1> HIDE DEF cut
  <1>3. Len(have) \in Nat /\ Len(all) \in Nat /\ Len(have) <= SmallerOf(Capacity, Len(all))
        /\ SmallerOf(Capacity, Len(all)) \in Nat
    BY <1>1, LenProperties, CapacityAssumption DEF SmallerOf
  <1>4. \A i \in 1..Len(have) : i \in 1..Len(cut) /\ cut[i] = have[i]
    BY <1>1, <1>2, <1>3
  <1>5. Range(have) = {have[i] : i \in 1..Len(have)} /\ Range(cut) = {cut[i] : i \in 1..Len(cut)}
    BY <1>2, RangeIn
  <1>6. Range(have) \subseteq Range(cut)
    BY <1>4, <1>5
  <1> QED BY <1>6 DEF WithRefreshed, cut, all

LEMMA PlannedStays ==
  ASSUME NEW ranked \in Seq(Chunks), NEW explicit, explicit \in Seq(Range(explicit)), NEW n
  PROVE  Planned(ranked, explicit, n) \in Seq(Chunks)
  <1> DEFINE Own(k) == ExplicitRecords(Range(ranked), k)
             step == [chosen \in Seq(Chunks) |-> [k \in Range(explicit) |->
                        IF Len(chosen) >= n \/ Own(k) = {} THEN chosen
                        ELSE With(chosen, Best(ranked, Own(k)))]]
  <1>1. \A s \in Seq(Chunks) : \A k \in Range(explicit) : step[s][k] \in Seq(Chunks)
    <2>1. SUFFICES ASSUME NEW s \in Seq(Chunks), NEW k \in Range(explicit)
                   PROVE  step[s][k] \in Seq(Chunks)
      OBVIOUS
    <2>2. step[s][k] = IF Len(s) >= n \/ Own(k) = {} THEN s ELSE With(s, Best(ranked, Own(k)))
      OBVIOUS
    <2>3. Own(k) \subseteq Range(ranked) /\ Range(ranked) \subseteq Chunks
      BY RangeIn DEF ExplicitRecords
    <2>4. Own(k) # {} => Best(ranked, Own(k)) \in Chunks
      <3> HIDE DEF Own
      <3> QED BY <2>3, BestIn
    <2> HIDE DEF Own, step
    <2> QED BY <2>2, <2>4, WithStays
  <1>2. << >> \in Seq(Chunks)
    OBVIOUS
  <1> HIDE DEF step
  <1>3. Folded(step, << >>, explicit) \in Seq(Chunks)
    BY <1>1, <1>2, FoldedStays
  <1> QED BY <1>3 DEF step, Planned

LEMMA CompletedStays ==
  ASSUME NEW ranked \in Seq(Chunks), NEW s \in Seq(Chunks), NEW k, NEW need, NEW n
  PROVE  Completed(ranked, s, k, need, n) \in Seq(Chunks)
  <1> DEFINE serves == {c \in ExplicitRecords(Range(ranked), k) \ Range(s) : need \in CapabilitiesOf[c]}
  <1>1. serves \in SUBSET Range(ranked) /\ Range(ranked) \subseteq Chunks
    BY RangeIn DEF ExplicitRecords
  <1> HIDE DEF serves
  <1>2. serves # {} => Append(s, Best(ranked, serves)) \in Seq(Chunks)
    <2>1. serves # {} => Best(ranked, serves) \in Chunks
      BY <1>1, BestIn
    <2> QED BY <2>1, AppendProperties
  <1>3. \/ Completed(ranked, s, k, need, n) = s
        \/ serves # {} /\ Completed(ranked, s, k, need, n) = Append(s, Best(ranked, serves))
    BY DEF Completed, serves
  <1> QED BY <1>2, <1>3

LEMMA SupplementedStays ==
  ASSUME NEW ranked \in Seq(Chunks), NEW have \in Seq(Chunks), NEW n,
         NEW explicit, explicit \in Seq(Range(explicit))
  PROVE  Supplemented(ranked, have, explicit, n) \in Seq(Chunks)
  <1> DEFINE step == [some \in Seq(Chunks) |-> [k \in Range(explicit) |->
                        Completed(ranked, Completed(ranked, some, k, PracticeNeeds[1], n),
                                  k, PracticeNeeds[2], n)]]
  <1>1. \A s \in Seq(Chunks) : \A k \in Range(explicit) : step[s][k] \in Seq(Chunks)
    BY CompletedStays
  <1> HIDE DEF step
  <1>2. Folded(step, have, explicit) \in Seq(Chunks)
    BY <1>1, FoldedStays
  <1> QED BY <1>2 DEF step, Supplemented

LEMMA FilledStays ==
  ASSUME NEW ranked \in Seq(Chunks), NEW have \in Seq(Chunks), NEW n
  PROVE  Filled(ranked, have, n) \in Seq(Chunks)
  <1> DEFINE Adding(again) ==
               [some \in Seq(Chunks) |-> [c \in Chunks |->
                  IF Len(some) >= n
                     \/ (~again /\ ExplicitRecords(Range(some), KnowledgeOf[c]) # {}) THEN some
                  ELSE With(some, c)]]
             once == Adding(FALSE)
             any  == Adding(TRUE)
  <1>1. /\ \A s \in Seq(Chunks) : \A c \in Chunks : once[s][c] \in Seq(Chunks)
        /\ \A s \in Seq(Chunks) : \A c \in Chunks : any[s][c] \in Seq(Chunks)
    BY WithStays
  <1>2. Filled(ranked, have, n) = Folded(any, Folded(once, have, ranked), ranked)
    BY DEF Filled
  <1> HIDE DEF Adding, once, any
  <1>3. Folded(once, have, ranked) \in Seq(Chunks)
    BY <1>1, FoldedStays
  <1>4. Folded(any, Folded(once, have, ranked), ranked) \in Seq(Chunks)
    BY <1>1, <1>3, FoldedStays
  <1> QED BY <1>2, <1>4

LEMMA FreshStays ==
  ASSUME NEW n \in Nat, NEW fresh \in Fresh(n)
  PROVE  fresh \in Seq(Chunks) /\ Len(fresh) <= n
  <1>1. PICK collection \in Collections :
          fresh \in Retrievals(collection, Explicit, Practice, << >>, n)
    BY DEF Fresh
  <1>0. PICK near \in SUBSET collection :
          fresh \in {Assembled(ranked, Explicit, Practice, << >>, n) :
                       ranked \in SetToSeqs(Gathered(collection, Explicit, near))}
    BY <1>1 DEF Retrievals, SemanticRecords, Rankings
  <1>2. PICK ranked \in SetToSeqs(Gathered(collection, Explicit, near)) :
          fresh = Assembled(ranked, Explicit, Practice, << >>, n)
    BY <1>0
  <1>3. ranked \in Seq(Chunks)
    <2> DEFINE G == Gathered(collection, Explicit, near)
    <2>1. G \in SUBSET Chunks
      <3>1. collection \subseteq Chunks /\ near \subseteq Chunks
        BY <1>0, <1>1, CollectionsAssumption
      <3>2. \A k : ExplicitRecords(collection, k) \subseteq Chunks
        BY <3>1 DEF ExplicitRecords
      <3> QED BY <3>1, <3>2, Zenon DEF Gathered
    <2> HIDE DEF G
    <2>2. Cardinality(G) \in Nat
      BY <2>1, FS_Subset, FS_CardinalityType, ChunksAssumption
    <2>3. ranked \in [1..Cardinality(G) -> G]
      BY <1>2 DEF SetToSeqs, G
    <2> QED BY <2>1, <2>2, <2>3, SeqDef
  <1> DEFINE planned == Planned(ranked, Explicit, n)
             usable  == IF Practice THEN Supplemented(ranked, planned, Explicit, n) ELSE planned
             filled  == Filled(ranked, usable, n)
             all     == Folded(Joining, << >>, filled)
  <1>4. planned \in Seq(Chunks)
    BY <1>3, ExplicitAssumption, PlannedStays
  <1> HIDE DEF planned
  <1>5. usable \in Seq(Chunks)
    BY <1>3, <1>4, ExplicitAssumption, SupplementedStays
  <1> HIDE DEF usable
  <1>6. filled \in Seq(Chunks)
    BY <1>3, <1>5, FilledStays
  <1> HIDE DEF filled
  <1>7. all \in Seq(Chunks)
    <2>1. << >> \in Seq(Chunks)
      OBVIOUS
    <2> QED BY <1>6, <2>1, JoinedStays
  <1> HIDE DEF all
  <1>8. FirstOf(all, n) \in Seq(Chunks) /\ Len(FirstOf(all, n)) <= n
    BY <1>7, FirstOfStays
  <1> QED BY <1>2, <1>8 DEF Assembled, QuizFirst, all, filled, usable, planned

-----------------------------------------------------------------------------
(* Batches                                                                 *)

Verdicts == {"supported", "contradicted", "insufficient"}

IsCheck(check) ==
  /\ check = [verdict |-> check.verdict, sources |-> check.sources,
              text |-> check.text, packet |-> check.packet]
  /\ check.verdict \in Verdicts

\* The check judges claim s of draft d as it is, on evidence e and the chunks shown.
Sound(check, s, d, e, shown) ==
  /\ IsCheck(check) /\ check.text = d.text[s]
  /\ check.packet.declared \cup check.packet.supplemental \subseteq Range(e) \cup Range(shown)
  /\ d.cites[s] \cap Range(e) \subseteq check.packet.declared

AllSound(checks, d, e, shown) ==
  \A s \in DOMAIN checks : Sound(checks[s], s, d, e, shown)

\* What one model has said, or not, of a segment
GoodSaid(said, segment, d, e, shown) ==
  said.is = "said" => segment \subseteq DOMAIN said.checks /\ AllSound(said.checks, d, e, shown)

GoodBatch(b, d, e, shown) ==
  /\ b = [todo |-> b.todo, said |-> b.said, done |-> b.done, at |-> b.at]
  /\ b.todo \in Seq(SUBSET Sites)
  /\ b.at = "running" => b.todo # << >>
  /\ b.at = "done" => b.todo = << >>
  /\ b.said = [r \in Roles |-> b.said[r]]
  /\ \A r \in Roles : GoodSaid(b.said[r], Head(b.todo), d, e, shown)
  /\ b.done = [r \in Roles |-> b.done[r]]
  /\ \A r \in Roles : AllSound(b.done[r], d, e, shown)

\* The batch has answers of all models for the claim, or will ask for them.
Holds(b, s) ==
  \/ \E i \in 1..Len(b.todo) : s \in b.todo[i]
  \/ \A r \in Roles : s \in DOMAIN b.done[r]

LEMMA Division ==
  ASSUME NEW b \in Nat, NEW n \in Nat, NEW m \in Nat \ {0}, b + 1 <= n
  PROVE  b \div m \in Nat /\ (b \div m) + 1 <= (n + m - 1) \div m
  <1> DEFINE q == b \div m
             p == (n + m - 1) \div m
  <1>1. q \in Nat /\ p \in Nat /\ q * m <= b /\ n + m - 1 < (p + 1) * m
    OBVIOUS
  <1> HIDE DEF q, p
  <1>2. (q + 1) * m = q * m + m
    BY <1>1
  <1>3. (q + 1) * m < (p + 1) * m
    BY <1>1, <1>2
  <1>4. q + 1 < p + 1
    BY <1>1, <1>3
  <1> QED BY <1>1, <1>4 DEF q, p

LEMMA BeforeIsLess ==
  ASSUME NEW claims \in SUBSET Sites, NEW s \in claims
  PROVE  Before(s, claims) \in Nat /\ Before(s, claims) + 1 <= Cardinality(claims)
         /\ Cardinality(claims) \in Nat
  <1> DEFINE B == {t \in claims : Place[t] < Place[s]}
  <1>1. IsFiniteSet(claims) /\ Cardinality(claims) \in Nat
    BY SitesAssumption, FS_Subset, FS_CardinalityType
  <1>2. s \notin B
    BY PlaceAssumption
  <1>3. B \in SUBSET claims /\ B \cup {s} \in SUBSET claims
    OBVIOUS
  <1> HIDE DEF B
  <1>4. IsFiniteSet(B) /\ Cardinality(B) \in Nat
    BY <1>1, <1>3, FS_Subset, FS_CardinalityType
  <1>5. Cardinality(B \cup {s}) = Cardinality(B) + 1
    BY <1>2, <1>4, FS_AddElement
  <1>6. Cardinality(B \cup {s}) <= Cardinality(claims)
    BY <1>1, <1>3, FS_Subset
  <1> QED BY <1>1, <1>4, <1>5, <1>6 DEF Before, B

\* Every claim is in a batch.
LEMMA BatchesCover ==
  ASSUME NEW claims \in SUBSET Sites, NEW m \in Nat \ {0}
  PROVE  /\ Batches(claims, m) = [i \in DOMAIN Batches(claims, m) |-> Batches(claims, m)[i]]
         /\ \A i \in DOMAIN Batches(claims, m) : Batches(claims, m)[i] \in SUBSET Sites
         /\ \A s \in claims : \E i \in DOMAIN Batches(claims, m) : s \in Batches(claims, m)[i]
  <1> DEFINE n == (Cardinality(claims) + m - 1) \div m
             cut == [i \in 1..n |-> {s \in claims : Before(s, claims) \div m = i - 1}]
  <1>1. ASSUME NEW s \in claims
        PROVE  \E i \in 1..n : s \in cut[i]
    <2> DEFINE q == Before(s, claims) \div m
    <2>1. q \in Nat /\ q + 1 <= n
      BY BeforeIsLess, Division
    <2>2. q + 1 \in 1..n
      <3>1. Cardinality(claims) \in Nat
        BY BeforeIsLess
      <3>2. n \in Int
        BY <3>1
      <3> HIDE DEF n, q
      <3> QED BY <2>1, <3>2
    <2>3. s \in cut[q + 1]
      <3> HIDE DEF n
      <3> QED BY <2>1, <2>2
    <2> QED BY <2>2, <2>3
  <1>2. Batches(claims, m) = cut
    BY DEF Batches
  <1>3. DOMAIN cut = 1..n /\ cut = [i \in DOMAIN cut |-> cut[i]] /\ \A i \in DOMAIN cut : cut[i] \in SUBSET Sites
    OBVIOUS
  <1> HIDE DEF cut
  <1> QED BY <1>1, <1>2, <1>3

LEMMA AskedIsGood ==
  ASSUME NEW batch \in SUBSET Sites, NEW d, NEW e, NEW shown
  PROVE  GoodBatch(Asked(batch), d, e, shown) /\ \A s \in batch : Holds(Asked(batch), s)
  <1> DEFINE b == Asked(batch)
  <1>1. /\ b.todo = <<batch>> /\ b.at = "running"
        /\ b.said = [r \in Roles |-> [is |-> "open"]] /\ b.done = [r \in Roles |-> << >>]
        /\ b = [todo |-> b.todo, said |-> b.said, done |-> b.done, at |-> b.at]
    BY DEF Asked
  <1> HIDE DEF b
  <1>2. b.todo \in Seq(SUBSET Sites) /\ b.todo # << >> /\ Len(b.todo) = 1 /\ b.todo[1] = batch
    BY <1>1
  <1>3. \A r \in Roles : AllSound(b.done[r], d, e, shown)
    BY <1>1 DEF AllSound
  <1>4. \A r \in Roles : GoodSaid(b.said[r], Head(b.todo), d, e, shown)
    BY <1>1 DEF GoodSaid
  <1> QED BY <1>1, <1>2, <1>3, <1>4 DEF GoodBatch, Holds, b

\* A segment halved, joined or given up is still accounted for.
LEMMA SettledIsGood ==
  ASSUME NEW b, NEW d, NEW e, NEW shown, GoodBatch(b, d, e, shown), b.at = "running",
         NEW said, said = [r \in Roles |-> said[r]],
         \A r \in Roles : GoodSaid(said[r], Head(b.todo), d, e, shown)
  PROVE  /\ GoodBatch(Settled(b, said), d, e, shown)
         /\ \A s : Holds(b, s) => Holds(Settled(b, said), s)
  <1> DEFINE x == Settled(b, said)
             rest == Tail(b.todo)
             first == Head(b.todo)
             none == [r \in Roles |-> [is |-> "open"]]
             joined == [r \in Roles |-> Overriding(b.done[r], said[r].checks)]
             halves == Halves(first)
  <1>1. /\ first \in SUBSET Sites /\ rest \in Seq(SUBSET Sites) /\ Len(rest) = Len(b.todo) - 1
        /\ \A i \in 1..Len(rest) : rest[i] = b.todo[i + 1]
        /\ first = b.todo[1] /\ Len(b.todo) \in Nat \ {0} /\ Len(rest) \in Nat
    <2>1. b.todo \in Seq(SUBSET Sites) /\ b.todo # << >>
      BY DEF GoodBatch
    <2> QED BY <2>1, HeadTailProperties, LenProperties, EmptySeq
  <1>2. \A r \in Roles : GoodSaid(none[r], Head(x.todo), d, e, shown)
    BY DEF GoodSaid
  <1>3. b = [todo |-> b.todo, said |-> b.said, done |-> b.done, at |-> b.at]
    BY DEF GoodBatch
  <1>4. \/ x = [b EXCEPT !.said = said]
        \/ /\ \A r \in Roles : said[r].is = "said"
           /\ x = [todo |-> rest, said |-> none, done |-> joined,
                   at |-> IF rest = << >> THEN "done" ELSE "running"]
        \/ x = [todo |-> halves \o rest, said |-> none, done |-> b.done, at |-> b.at]
        \/ x = [todo |-> b.todo, said |-> none, done |-> b.done, at |-> "error"]
    <2> DEFINE failed == {said[r].is : r \in Roles} \ {"said"}
               asked == [b EXCEPT !.said = none]
    <2>1. asked = [todo |-> b.todo, said |-> none, done |-> b.done, at |-> b.at]
      BY <1>3
    <2>2. failed = {} => \A r \in Roles : said[r].is = "said"
      OBVIOUS
    <2>3. x = IF "open" \in failed THEN [b EXCEPT !.said = said]
              ELSE IF failed = {}
              THEN [asked EXCEPT !.todo = rest, !.done = joined,
                                 !.at = IF rest = << >> THEN "done" ELSE "running"]
              ELSE IF failed = {"splittable"} /\ Cardinality(first) > 1
              THEN [asked EXCEPT !.todo = halves \o rest]
              ELSE [asked EXCEPT !.at = "error"]
      BY DEF Settled
    <2> HIDE DEF failed, asked, none, joined, rest, halves, x
    <2> QED BY <2>1, <2>2, <2>3
  <1>5. CASE x = [b EXCEPT !.said = said]
    <2>1. /\ x.todo = b.todo /\ x.said = said /\ x.done = b.done /\ x.at = b.at
          /\ x = [todo |-> x.todo, said |-> x.said, done |-> x.done, at |-> x.at]
      BY <1>3, <1>5
    <2> HIDE DEF x
    <2> QED BY <2>1 DEF GoodBatch, Holds, x
  <1>6. CASE /\ \A r \in Roles : said[r].is = "said"
             /\ x = [todo |-> rest, said |-> none, done |-> joined,
                     at |-> IF rest = << >> THEN "done" ELSE "running"]
    <2>1. /\ x.todo = rest /\ x.said = none /\ x.done = joined
          /\ x.at = IF rest = << >> THEN "done" ELSE "running"
          /\ x = [todo |-> x.todo, said |-> x.said, done |-> x.done, at |-> x.at]
      <3> HIDE DEF x, none, joined, rest
      <3> QED BY <1>6
    <2>2. ASSUME NEW r \in Roles
          PROVE  /\ AllSound(x.done[r], d, e, shown)
                 /\ DOMAIN x.done[r] = DOMAIN b.done[r] \cup DOMAIN said[r].checks
                 /\ first \subseteq DOMAIN said[r].checks
      <3>1. /\ AllSound(b.done[r], d, e, shown) /\ AllSound(said[r].checks, d, e, shown)
            /\ first \subseteq DOMAIN said[r].checks
        BY <1>6 DEF GoodBatch, GoodSaid
      <3>2. x.done[r] = Overriding(b.done[r], said[r].checks)
        BY <2>1
      <3> HIDE DEF x
      <3> QED BY <3>1, <3>2 DEF AllSound, Overriding
    <2>3. ASSUME NEW s, Holds(b, s)
          PROVE  Holds(x, s)
      <3>1. CASE \A r \in Roles : s \in DOMAIN b.done[r]
        <4> HIDE DEF x
        <4> QED BY <2>2, <3>1 DEF Holds
      <3>2. CASE \E i \in 1..Len(b.todo) : s \in b.todo[i]
        <4>1. PICK i \in 1..Len(b.todo) : s \in b.todo[i]
          BY <3>2
        <4>2. CASE i = 1
          <5>1. s \in first
            BY <1>1, <4>1, <4>2
          <5> HIDE DEF x, first
          <5> QED BY <2>2, <5>1 DEF Holds
        <4>3. CASE i # 1
          <5>1. i - 1 \in 1..Len(rest) /\ i = (i - 1) + 1
            BY <1>1, <4>3
          <5>2. s \in rest[i - 1]
            BY <1>1, <4>1, <5>1
          <5> HIDE DEF x, rest
          <5> QED BY <2>1, <5>1, <5>2 DEF Holds
        <4> QED BY <4>2, <4>3
      <3> QED BY <2>3, <3>1, <3>2 DEF Holds
    <2>4. x.at \in {"done", "running"} /\ (x.at = "running" => rest # << >>)
          /\ (x.at = "done" => rest = << >>)
      BY <2>1
    <2>5. GoodBatch(x, d, e, shown)
      <3>1. x.done = [r \in Roles |-> x.done[r]] /\ x.said = [r \in Roles |-> x.said[r]]
        BY <2>1
      <3>2. \A r \in Roles : GoodSaid(x.said[r], Head(x.todo), d, e, shown)
        BY <1>2, <2>1
      <3> HIDE DEF x, none, joined, rest
      <3> QED BY <1>1, <2>1, <2>2, <2>4, <3>1, <3>2 DEF GoodBatch
    <2> QED BY <2>3, <2>5
  <1>7. CASE x = [todo |-> halves \o rest, said |-> none, done |-> b.done, at |-> b.at]
    <2>1. /\ x.todo = halves \o rest /\ x.said = none /\ x.done = b.done /\ x.at = "running"
          /\ x = [todo |-> x.todo, said |-> x.said, done |-> x.done, at |-> x.at]
      <3> HIDE DEF x, none, halves, rest
      <3> QED BY <1>7
    <2>2. /\ halves \in Seq(SUBSET Sites) /\ Len(halves) = 2
          /\ first \subseteq halves[1] \cup halves[2]
      <3>1. PICK one \in SUBSET first : halves = <<one, first \ one>>
        BY DEF Halves
      <3> HIDE DEF halves, first
      <3> QED BY <1>1, <3>1
    <2>3. /\ halves \o rest \in Seq(SUBSET Sites) /\ Len(halves \o rest) = 2 + Len(rest)
          /\ (halves \o rest)[1] = halves[1] /\ (halves \o rest)[2] = halves[2]
          /\ \A i \in 1..Len(rest) : (halves \o rest)[2 + i] = rest[i]
          /\ halves \o rest # << >>
      <3> HIDE DEF halves, rest
      <3>1. /\ halves \o rest \in Seq(SUBSET Sites) /\ Len(halves \o rest) = Len(halves) + Len(rest)
            /\ \A i \in 1..Len(halves) + Len(rest) :
                 (halves \o rest)[i] = IF i <= Len(halves) THEN halves[i] ELSE rest[i - Len(halves)]
        <4>1. halves \in Seq(SUBSET Sites) /\ rest \in Seq(SUBSET Sites)
          BY <1>1, <2>2
        <4> QED BY ONLY <4>1, ConcatProperties
      <3> QED BY <1>1, <2>2, <3>1
    <2>4. ASSUME NEW s, Holds(b, s)
          PROVE  Holds(x, s)
      <3>1. CASE \A r \in Roles : s \in DOMAIN b.done[r]
        <4> HIDE DEF x
        <4> QED BY <2>1, <3>1 DEF Holds
      <3>2. CASE \E i \in 1..Len(b.todo) : s \in b.todo[i]
        <4>1. PICK i \in 1..Len(b.todo) : s \in b.todo[i]
          BY <3>2
        <4>2. CASE i = 1
          <5>1. s \in halves[1] \/ s \in halves[2]
            BY <1>1, <2>2, <4>1, <4>2
          <5> HIDE DEF x, first, halves, rest
          <5>2. 1 \in 1..Len(x.todo) /\ 2 \in 1..Len(x.todo)
            BY <1>1, <2>1, <2>3
          <5>3. s \in x.todo[1] \/ s \in x.todo[2]
            BY <2>1, <2>3, <5>1
          <5> QED BY <5>2, <5>3 DEF Holds
        <4>3. CASE i # 1
          <5>1. i - 1 \in 1..Len(rest) /\ i = (i - 1) + 1
            BY <1>1, <4>3
          <5>2. s \in rest[i - 1]
            BY <1>1, <4>1, <5>1
          <5> HIDE DEF x, rest, halves, first
          <5> DEFINE k == i - 1
          <5>3. k \in 1..Len(rest) /\ s \in rest[k]
            BY <5>1, <5>2
          <5> HIDE DEF k
          <5>4. 2 + k \in 1..(2 + Len(rest))
            BY <1>1, <5>3
          <5>5. 2 + k \in 1..Len(x.todo) /\ x.todo[2 + k] = rest[k]
            BY <2>1, <2>3, <5>3, <5>4
          <5> QED BY <5>3, <5>5 DEF Holds
        <4> QED BY <4>2, <4>3
      <3> QED BY <2>4, <3>1, <3>2 DEF Holds
    <2>5. GoodBatch(x, d, e, shown)
      <3>1. x.done = [r \in Roles |-> x.done[r]] /\ x.said = [r \in Roles |-> x.said[r]]
            /\ \A r \in Roles : AllSound(x.done[r], d, e, shown)
        BY <2>1 DEF GoodBatch
      <3>2. \A r \in Roles : GoodSaid(x.said[r], Head(x.todo), d, e, shown)
        BY <1>2, <2>1
      <3> HIDE DEF x, none, rest, halves
      <3> QED BY <2>1, <2>3, <3>1, <3>2 DEF GoodBatch
    <2> QED BY <2>4, <2>5
  <1>8. CASE x = [todo |-> b.todo, said |-> none, done |-> b.done, at |-> "error"]
    <2>1. /\ x.todo = b.todo /\ x.said = none /\ x.done = b.done /\ x.at = "error"
          /\ x = [todo |-> x.todo, said |-> x.said, done |-> x.done, at |-> x.at]
      BY <1>8
    <2>2. \A r \in Roles : GoodSaid(x.said[r], Head(x.todo), d, e, shown)
      BY <1>2, <2>1
    <2>3. x.said = [r \in Roles |-> x.said[r]]
      BY <2>1
    <2> HIDE DEF x, none
    <2> QED BY <2>1, <2>2, <2>3 DEF GoodBatch, Holds, x
  <1> QED BY <1>4, <1>5, <1>6, <1>7, <1>8

-----------------------------------------------------------------------------
(* Checks and the cache                                                    *)

GoodPair(pair, d, e, shown) ==
  \A r \in Roles : Claims(d) \subseteq DOMAIN pair[r] /\ AllSound(pair[r], d, e, shown)

\* A review under way: every claim is in a batch, or was answered in the first
\* pair, and whatever was answered is about the draft and the evidence.
GoodReview(v, d, e) ==
  /\ v = [phase |-> v.phase, shown |-> v.shown, pair |-> v.pair, late |-> v.late,
          collected |-> v.collected, batches |-> v.batches]
  /\ v.phase \in {"initial", "recheck"}
  /\ Range(e) \subseteq Range(v.shown)
  /\ v.batches = [j \in DOMAIN v.batches |-> v.batches[j]]
  /\ \A j \in DOMAIN v.batches : GoodBatch(v.batches[j], d, e, v.shown)
  /\ v.phase = "initial" =>
       v.shown = e /\ \A s \in Claims(d) : \E j \in DOMAIN v.batches : Holds(v.batches[j], s)
  /\ v.phase = "recheck" => GoodPair(v.pair, d, e, v.shown)

\* A stored answer has the wordings and the packet of its key.
GoodStore(store) ==
  \A k \in DOMAIN store :
    /\ {p[1] : p \in k.claims} \subseteq DOMAIN store[k]
    /\ \A s \in DOMAIN store[k] :
         /\ IsCheck(store[k][s])
         /\ <<s, store[k][s].text>> \in k.claims /\ store[k][s].packet = k.packet

LEMMA ValidationKeeps ==
  ASSUME NEW check, IsCheck(check), NEW d, NEW e, NEW s
  PROVE  LET valid == CrossValidated(check, d, e, s)
         IN IsCheck(valid) /\ valid.text = check.text /\ valid.packet = check.packet
  <1> DEFINE valid == CrossValidated(check, d, e, s)
  <1>1. PICK verdict, sources :
          verdict \in Verdicts
          /\ valid = [check EXCEPT !.verdict = verdict, !.sources = sources]
    <2>1. \/ \E x : valid = [check EXCEPT !.verdict = "supported", !.sources = x]
          \/ \E x : check.verdict \in Verdicts /\ valid = [check EXCEPT !.sources = x]
          \/ valid = [check EXCEPT !.verdict = "insufficient", !.sources = {}]
      <3>1. check.verdict \in Verdicts
        BY DEF IsCheck
      <3> QED BY <3>1 DEF CrossValidated
    <2>2. \A x : [check EXCEPT !.sources = x] = [check EXCEPT !.verdict = check.verdict, !.sources = x]
      BY DEF IsCheck
    <2> HIDE DEF valid
    <2>3. /\ "supported" \in Verdicts
          /\ "insufficient" \in Verdicts
      BY DEF Verdicts
    <2>4. \E w \in Verdicts : \E x : valid = [check EXCEPT !.verdict = w, !.sources = x]
      BY <2>1, <2>2, <2>3
    <2> QED BY <2>4
  <1>2. valid = [verdict |-> verdict, sources |-> sources, text |-> check.text, packet |-> check.packet]
    <2> HIDE DEF valid
    <2> QED BY <1>1 DEF IsCheck
  <1> HIDE DEF valid
  <1>3. IsCheck(valid) /\ valid.text = check.text /\ valid.packet = check.packet
    BY <1>1, <1>2 DEF IsCheck
  <1> QED BY <1>3 DEF valid

LEMMA PacketFits ==
  ASSUME NEW d, NEW e, NEW shown, Range(e) \subseteq Range(shown), NEW batch, NEW recheck
  PROVE  LET packet == Packet(d, shown, batch, recheck)
         IN /\ packet.declared \cup packet.supplemental \subseteq Range(shown)
            /\ \A s \in batch : d.cites[s] \cap Range(e) \subseteq packet.declared
  <1> DEFINE packet == Packet(d, shown, batch, recheck)
             cited == UNION {d.cites[s] : s \in batch}
  <1>1. packet.declared = Range(shown) \cap cited /\ packet.supplemental \subseteq Range(shown)
    BY DEF Packet
  <1>2. \A s \in batch : d.cites[s] \subseteq cited
    OBVIOUS
  <1> HIDE DEF packet, cited
  <1>3. /\ packet.declared \cup packet.supplemental \subseteq Range(shown)
        /\ \A s \in batch : d.cites[s] \cap Range(e) \subseteq packet.declared
    BY <1>1, <1>2
  <1> QED BY <1>3 DEF packet

\* Checks of the wordings and the packet of a segment are sound once validated.
LEMMA ValidIsSound ==
  ASSUME GoodReview(review, draft, evidence), NEW segment, NEW checks,
         segment \subseteq DOMAIN checks,
         \A s \in DOMAIN checks :
           /\ IsCheck(checks[s]) /\ s \in segment
           /\ checks[s].text = draft.text[s] /\ checks[s].packet = Shown(segment)
  PROVE  GoodSaid(Checked(checks), segment, draft, evidence, review.shown)
  <1>1. /\ Shown(segment).declared \cup Shown(segment).supplemental \subseteq Range(review.shown)
        /\ \A s \in segment : draft.cites[s] \cap Range(evidence) \subseteq Shown(segment).declared
    BY PacketFits DEF GoodReview, Shown
  <1>2. DOMAIN Valid(checks) = DOMAIN checks
    BY DEF Valid
  <1>3. ASSUME NEW s \in DOMAIN checks
        PROVE  Sound(Valid(checks)[s], s, draft, evidence, review.shown)
    <2> DEFINE valid == CrossValidated(checks[s], draft, review.shown, s)
    <2>1. Valid(checks)[s] = valid
      BY DEF Valid
    <2>2. IsCheck(valid) /\ valid.text = checks[s].text /\ valid.packet = checks[s].packet
      BY ValidationKeeps
    <2> HIDE DEF valid
    <2>3. valid.text = draft.text[s] /\ valid.packet = Shown(segment) /\ s \in segment
      BY <2>2
    <2> QED BY <1>1, <2>1, <2>2, <2>3 DEF Sound
  <1>4. AllSound(Valid(checks), draft, evidence, review.shown)
    BY <1>2, <1>3 DEF AllSound
  <1> QED BY <1>2, <1>4 DEF GoodSaid, Checked

LEMMA AnswersAreChecks ==
  ASSUME NEW segment, NEW answer \in Answers(segment)
  PROVE  /\ DOMAIN answer = segment
         /\ \A s \in segment : /\ IsCheck(answer[s]) /\ answer[s].text = draft.text[s]
                               /\ answer[s].packet = Shown(segment)
  <1> DEFINE replies == [s \in segment |-> {reply \in Replies(draft, review.shown, s) :
                                              reply.verdict \in Voices}]
  <1>1. PICK given \in [segment -> UNION Range(replies)] :
          /\ \A s \in segment : given[s] \in replies[s]
          /\ answer = [s \in segment |->
                         [verdict |-> given[s].verdict, sources |-> given[s].sources,
                          text |-> draft.text[s], packet |-> Shown(segment)]]
    BY DEF Answers
  <1>2. ASSUME NEW s \in segment
        PROVE  given[s].verdict \in Verdicts
    <2>1. given[s] \in Replies(draft, review.shown, s)
      BY <1>1
    <2> QED BY <2>1 DEF Replies, Verdicts
  <1> HIDE DEF replies
  <1> QED BY <1>1, <1>2 DEF IsCheck

LEMMA ReplayIsSound ==
  ASSUME GoodReview(review, draft, evidence), GoodStore(cache), NEW segment, NEW role,
         Key(segment, role) \in DOMAIN cache
  PROVE  GoodSaid(Checked(cache[Key(segment, role)]), segment, draft, evidence, review.shown)
  <1> DEFINE key == Key(segment, role)
             checks == cache[key]
  <1>1. key.claims = {<<s, draft.text[s]>> : s \in segment} /\ key.packet = Shown(segment)
    BY DEF Key
  <1>2. /\ {p[1] : p \in key.claims} \subseteq DOMAIN checks
        /\ \A s \in DOMAIN checks :
             /\ IsCheck(checks[s])
             /\ <<s, checks[s].text>> \in key.claims /\ checks[s].packet = key.packet
    BY DEF GoodStore
  <1> HIDE DEF key, checks
  <1>3. segment \subseteq DOMAIN checks
    <2>1. ASSUME NEW s \in segment
          PROVE  s \in DOMAIN checks
      <3>1. <<s, draft.text[s]>> \in key.claims
        BY <1>1
      <3>2. <<s, draft.text[s]>>[1] = s
        OBVIOUS
      <3> QED BY <1>2, <3>1, <3>2
    <2> QED BY <2>1
  <1>4. ASSUME NEW s \in DOMAIN checks
        PROVE  /\ IsCheck(checks[s]) /\ s \in segment
               /\ checks[s].text = draft.text[s] /\ checks[s].packet = Shown(segment)
    <2>1. PICK t \in segment : <<s, checks[s].text>> = <<t, draft.text[t]>>
      BY <1>1, <1>2
    <2> QED BY <1>1, <1>2, <2>1
  <1>5. GoodSaid(Checked(checks), segment, draft, evidence, review.shown)
    BY <1>3, <1>4, ValidIsSound
  <1> QED BY <1>5 DEF checks, key

LEMMA CallIsSound ==
  ASSUME GoodReview(review, draft, evidence), GoodStore(cache), NEW segment, NEW role,
         NEW answer \in Answers(segment)
  PROVE  /\ GoodSaid(Checked(answer), segment, draft, evidence, review.shown)
         /\ GoodStore(Overriding([k \in {Key(segment, role)} |-> Valid(answer)], cache))
  <1> DEFINE key == Key(segment, role)
             new == [k \in {key} |-> Valid(answer)]
             store == Overriding(new, cache)
  <1>1. /\ DOMAIN answer = segment
        /\ \A s \in segment : /\ IsCheck(answer[s]) /\ answer[s].text = draft.text[s]
                              /\ answer[s].packet = Shown(segment)
    BY AnswersAreChecks
  <1>2. GoodSaid(Checked(answer), segment, draft, evidence, review.shown)
    BY <1>1, ValidIsSound
  <1>3. key.claims = {<<s, draft.text[s]>> : s \in segment} /\ key.packet = Shown(segment)
    BY DEF Key
  <1>4. /\ {p[1] : p \in key.claims} \subseteq DOMAIN Valid(answer)
        /\ \A s \in DOMAIN Valid(answer) :
             /\ IsCheck(Valid(answer)[s])
             /\ <<s, Valid(answer)[s].text>> \in key.claims
             /\ Valid(answer)[s].packet = key.packet
    <2>1. DOMAIN Valid(answer) = segment
      BY <1>1 DEF Valid
    <2>2. ASSUME NEW s \in segment
          PROVE  /\ IsCheck(Valid(answer)[s]) /\ Valid(answer)[s].packet = Shown(segment)
                 /\ Valid(answer)[s].text = draft.text[s]
      <3> DEFINE valid == CrossValidated(answer[s], draft, review.shown, s)
      <3>1. Valid(answer)[s] = valid
        BY <1>1 DEF Valid
      <3>2. IsCheck(valid) /\ valid.text = answer[s].text /\ valid.packet = answer[s].packet
        BY <1>1, ValidationKeeps
      <3> HIDE DEF valid
      <3> QED BY <1>1, <3>1, <3>2
    <2>3. \A p \in key.claims : p[1] \in segment
      BY <1>3
    <2> HIDE DEF key
    <2> QED BY <1>3, <2>1, <2>2, <2>3
  <1>5. /\ DOMAIN store = {key} \cup DOMAIN cache
        /\ \A k \in DOMAIN store : store[k] = IF k = key THEN Valid(answer) ELSE cache[k]
    BY DEF Overriding
  <1> HIDE DEF key, store
  <1>6. GoodStore(store)
    BY <1>4, <1>5 DEF GoodStore
  <1> QED BY <1>2, <1>6 DEF store, key

-----------------------------------------------------------------------------
(* The invariant                                                           *)

IsDraft(d) == d = [kind |-> d.kind, text |-> d.text, cites |-> d.cites]

TypeInv == IsDraft(draft) /\ round \in Nat /\ most \in Nat \ {0}

EvidenceInv == evidence \in Seq(Chunks) /\ Len(evidence) <= Capacity

StoreInv == GoodStore(cache) /\ GoodStore(saved)

\* A draft under review cites nothing the task has lost.
CitesInv == node \in {"review", "finalize", "passed"} => Declared(draft) \subseteq Range(evidence)

ReviewInv == review.phase # "idle" => node = "review" /\ GoodReview(review, draft, evidence)

ConsensusInv == node = "passed" \/ (node = "finalize" /\ report.passed) => Consensus

\* No report comes before the first review, and a report keeps the kinds.
ReportInv ==
  /\ report # NoReport => report.draft.kind = draft.kind
  /\ node \in {"retrieve", "generate", "review"} /\ round = 0 => report = NoReport

IInv ==
  /\ TypeInv /\ EvidenceInv /\ StoreInv /\ CitesInv /\ ReviewInv
  /\ ReportInv /\ VerdictsCurrent /\ ConsensusInv /\ RejectedGone

LEMMA InitInv == Init => IInv
  <1> SUFFICES ASSUME Init
               PROVE  IInv
    OBVIOUS
  <1>1. TypeInv
    BY BatchSizesAssumption DEF Init, TypeInv, IsDraft
  <1>2. EvidenceInv
    BY CapacityAssumption DEF Init, EvidenceInv
  <1>3. StoreInv
    BY DEF Init, StoreInv, GoodStore
  <1> QED BY <1>1, <1>2, <1>3 DEF Init, IInv, CitesInv, ReviewInv, Idle, ReportInv,
             VerdictsCurrent, ConsensusInv, RejectedGone

\* A step of a review that leaves the resource and its report alone
LEMMA Frame ==
  ASSUME IInv, UNCHANGED <<draft, evidence, node, report, round, most>>
  PROVE  TypeInv' /\ EvidenceInv' /\ CitesInv' /\ ReportInv' /\ VerdictsCurrent'
         /\ ConsensusInv' /\ RejectedGone'
  <1>1. TypeInv' /\ EvidenceInv' /\ CitesInv' /\ ReportInv'
    BY DEF IInv, TypeInv, EvidenceInv, CitesInv, ReportInv
  <1>2. VerdictsCurrent'
    BY DEF IInv, VerdictsCurrent
  <1>3. ConsensusInv'
    BY DEF IInv, ConsensusInv, Consensus, Agreed
  <1>4. RejectedGone'
    BY DEF IInv, RejectedGone
  <1> QED BY <1>1, <1>2, <1>3, <1>4

LEMMA RetrieveInv ==
  ASSUME IInv, Retrieve
  PROVE  IInv'
  <1>1. PICK fresh \in Fresh(NResults) :
          evidence' = IF round = 0 THEN fresh ELSE Merged(evidence, fresh, << >>, Declared(draft))
    BY DEF Retrieve
  <1>2. fresh \in Seq(Chunks) /\ Len(fresh) <= Capacity
    <2>1. NResults \in Nat /\ NResults <= Capacity /\ Capacity \in Nat
      BY NResultsAssumption, CapacityAssumption
    <2>2. fresh \in Seq(Chunks) /\ Len(fresh) <= NResults
      BY <2>1, FreshStays
    <2> QED BY <2>1, <2>2, LenProperties
  <1>3. evidence \in Seq(Chunks)
    BY DEF IInv, EvidenceInv
  <1>4. EvidenceInv'
    BY <1>1, <1>2, <1>3, MergedStays DEF EvidenceInv
  <1>5. node = "retrieve" /\ node' = "generate" /\ UNCHANGED <<draft, review, cache, saved, report, round, most>>
    BY DEF Retrieve
  <1>6. TypeInv' /\ StoreInv' /\ CitesInv' /\ ReviewInv' /\ ReportInv'
    BY <1>5 DEF IInv, TypeInv, StoreInv, CitesInv, ReviewInv, ReportInv
  <1>7. VerdictsCurrent' /\ ConsensusInv' /\ RejectedGone'
    BY <1>5 DEF VerdictsCurrent, ConsensusInv, RejectedGone
  <1> QED BY <1>4, <1>6, <1>7 DEF IInv

\* A new draft, written or revised, goes to review.
LEMMA GeneratedInv ==
  ASSUME IInv, node = "generate", NEW new, Generated(new), IsDraft(new), new.kind = draft.kind,
         Declared(new) \subseteq Range(evidence),
         report # NoReport /\ round <= MaxRounds =>
           \A s \in Allowed(report) :
             report.draft.text[s] = "filler" \/ new.text[s] # report.draft.text[s]
  PROVE  IInv'
  <1>1. /\ draft' = new /\ node' = "review"
        /\ UNCHANGED <<evidence, review, cache, saved, report, round, most>>
    BY DEF Generated
  <1>2. TypeInv' /\ EvidenceInv' /\ StoreInv' /\ CitesInv' /\ ReportInv'
    BY <1>1 DEF IInv, TypeInv, EvidenceInv, StoreInv, CitesInv, ReportInv
  <1>3. ReviewInv'
    BY <1>1 DEF IInv, ReviewInv
  <1>4. VerdictsCurrent' /\ ConsensusInv'
    BY <1>1 DEF VerdictsCurrent, ConsensusInv
  <1>5. RejectedGone'
    BY <1>1 DEF RejectedGone
  <1> QED BY <1>2, <1>3, <1>4, <1>5 DEF IInv

LEMMA WrittenIsDraft ==
  ASSUME NEW kind, NEW texts, NEW new \in Written(kind, texts, Whitelist(evidence))
  PROVE  IsDraft(new) /\ new.kind = kind /\ Declared(new) \subseteq Range(evidence)
  <1>1. PICK c \in [Sites -> Whitelist(evidence)] :
          \E t : new = [kind |-> kind, text |-> t, cites |-> [s \in Sites |-> {c[s]}]]
    BY DEF Written
  <1>2. Whitelist(evidence) \subseteq Range(evidence)
    BY DEF Whitelist
  <1>3. \A s \in Sites : new.cites[s] = {c[s]} /\ c[s] \in Range(evidence)
    BY <1>1, <1>2
  <1>4. Declared(new) \subseteq Range(evidence)
    BY <1>3 DEF Declared
  <1> QED BY <1>1, <1>4 DEF IsDraft

LEMMA RemovalKeeps ==
  ASSUME NEW d, IsDraft(d), NEW audited
  PROVE  /\ IsDraft(Removed(d, audited)) /\ Removed(d, audited).kind = d.kind
         /\ Removed(d, audited).cites = d.cites
         /\ \A s \in Sites : Removed(d, audited).text[s] =
              IF s \in DOMAIN audited /\ Editable(d.kind[s]) /\ d.text[s] = audited[s]
              THEN Blank(d.kind[s]) ELSE d.text[s]
  <1> DEFINE x == Removed(d, audited)
             text == [s \in Sites |->
                        IF s \in DOMAIN audited /\ Editable(d.kind[s]) /\ d.text[s] = audited[s]
                        THEN Blank(d.kind[s]) ELSE d.text[s]]
  <1>1. x = [d EXCEPT !.text = text]
    BY DEF Removed
  <1>2. x = [kind |-> d.kind, text |-> text, cites |-> d.cites]
    <2> HIDE DEF x, text
    <2> QED BY <1>1 DEF IsDraft
  <1> HIDE DEF x
  <1>3. /\ IsDraft(x) /\ x.kind = d.kind /\ x.cites = d.cites /\ x.text = text
    <2> HIDE DEF text
    <2> QED BY <1>2 DEF IsDraft
  <1> QED BY <1>3 DEF x

LEMMA PatchingKeeps ==
  ASSUME NEW d, IsDraft(d), NEW patches
  PROVE  /\ IsDraft(Patched(d, patches)) /\ Patched(d, patches).kind = d.kind
         /\ Patched(d, patches).cites = d.cites
  <1>1. PICK text : Patched(d, patches) = [d EXCEPT !.text = text]
    BY DEF Patched
  <1>2. Patched(d, patches) = [kind |-> d.kind, text |-> text, cites |-> d.cites]
    BY <1>1 DEF IsDraft
  <1> QED BY <1>2 DEF IsDraft

\* What is removed is gone: the blank that replaces it is no rejected text.
LEMMA RejectedIsRemoved ==
  ASSUME NEW d, IsDraft(d), NEW rep, rep.draft.kind = d.kind, NEW s \in Allowed(rep)
  PROVE  rep.draft.text[s] = "filler" \/ Removed(d, Audited(rep)).text[s] # rep.draft.text[s]
  <1>1. /\ s \in DOMAIN Audited(rep) /\ Audited(rep)[s] = rep.draft.text[s]
        /\ Editable(rep.draft.kind[s])
    BY DEF Allowed, Audited
  <1>2. s \in Sites /\ rep.draft.text[s] # "none"
    BY <1>1 DEF Audited, WithStatus, Claims, IsClaim
  <1>3. Removed(d, Audited(rep)).text[s] =
          IF d.text[s] = rep.draft.text[s] THEN Blank(d.kind[s]) ELSE d.text[s]
    BY <1>1, <1>2, RemovalKeeps
  <1>4. Blank(d.kind[s]) \in {"none", "filler"}
    BY DEF Blank
  <1> QED BY <1>2, <1>3, <1>4

LEMMA GenerateInv ==
  ASSUME IInv, Generate
  PROVE  IInv'
  <1>1. PICK new \in Written(draft.kind, FirstTexts, Whitelist(evidence)) : Generated(new)
    BY DEF Generate
  <1>2. IsDraft(new) /\ new.kind = draft.kind /\ Declared(new) \subseteq Range(evidence)
    BY WrittenIsDraft
  <1>3. node = "generate" /\ report = NoReport
    BY DEF Generate, IInv, ReportInv
  <1> QED BY <1>1, <1>2, <1>3, GeneratedInv

LEMMA ReviseInv ==
  ASSUME IInv, Revise
  PROVE  IInv'
  <1>1. node = "generate" /\ IsDraft(draft) /\ Declared(draft) \subseteq Range(evidence)
    <2>1. Whitelist(evidence) \subseteq Range(evidence)
      BY DEF Whitelist
    <2> QED BY <2>1 DEF Revise, IInv, TypeInv
  <1>2. ASSUME NEW d, IsDraft(d), d.kind = draft.kind, report # NoReport, round <= MaxRounds,
               NEW s \in Allowed(report)
        PROVE  report.draft.text[s] = "filler" \/ Removed(d, ToRemove).text[s] # report.draft.text[s]
    <2>1. ToRemove = Audited(report)
      BY <1>2, MaxRoundsAssumption DEF ToRemove, IInv, TypeInv
    <2>2. report.draft.kind = d.kind
      BY <1>2 DEF IInv, ReportInv
    <2> QED BY <1>2, <2>1, <2>2, RejectedIsRemoved
  <1>3. PICK patches \in Patches :
          LET revised == Removed(Patched(draft, patches), ToRemove) IN
          \/ Generated(revised)
          \/ \E anew \in Written(draft.kind, Texts, Whitelist(evidence)) :
               Generated(Stripped(anew, ToRemove))
    BY DEF Revise
  <1> DEFINE patched == Patched(draft, patches)
             revised == Removed(patched, ToRemove)
  <1>4. CASE Generated(revised)
    <2>1. IsDraft(patched) /\ patched.kind = draft.kind /\ patched.cites = draft.cites
      BY <1>1, PatchingKeeps
    <2> HIDE DEF patched
    <2>2. IsDraft(revised) /\ revised.kind = draft.kind /\ revised.cites = draft.cites
      BY <2>1, RemovalKeeps
    <2>3. Declared(revised) \subseteq Range(evidence)
      BY <1>1, <2>2 DEF Declared
    <2>4. report # NoReport /\ round <= MaxRounds =>
            \A s \in Allowed(report) :
              report.draft.text[s] = "filler" \/ revised.text[s] # report.draft.text[s]
      BY <1>2, <2>1
    <2> HIDE DEF revised
    <2> QED BY <1>1, <1>4, <2>2, <2>3, <2>4, GeneratedInv
  <1>5. CASE \E anew \in Written(draft.kind, Texts, Whitelist(evidence)) :
               Generated(Stripped(anew, ToRemove))
    <2>1. PICK anew \in Written(draft.kind, Texts, Whitelist(evidence)) :
            Generated(Stripped(anew, ToRemove))
      BY <1>5
    <2> DEFINE new == Removed(anew, ToRemove)
    <2>2. IsDraft(anew) /\ anew.kind = draft.kind /\ Declared(anew) \subseteq Range(evidence)
      BY WrittenIsDraft
    <2>3. IsDraft(new) /\ new.kind = draft.kind /\ new.cites = anew.cites
      BY <2>2, RemovalKeeps
    <2>4. Declared(new) \subseteq Range(evidence)
      BY <2>2, <2>3 DEF Declared
    <2>5. report # NoReport /\ round <= MaxRounds =>
            \A s \in Allowed(report) :
              report.draft.text[s] = "filler" \/ new.text[s] # report.draft.text[s]
      BY <1>2, <2>2
    <2>6. Generated(new)
      BY <2>1 DEF Stripped
    <2> HIDE DEF new
    <2> QED BY <1>1, <2>3, <2>4, <2>5, <2>6, GeneratedInv
  <1> QED BY <1>3, <1>4, <1>5

-----------------------------------------------------------------------------
(* The steps of a review                                                   *)

LEMMA ReviewStarts ==
  ASSUME NEW claims \in SUBSET Sites, most \in Nat \ {0}, NEW d, NEW e, NEW shown, NEW pair,
         Range(e) \subseteq Range(shown),
         NEW phase \in {"initial", "recheck"},
         phase = "initial" => claims = Claims(d) /\ shown = e,
         phase = "recheck" => GoodPair(pair, d, e, shown)
  PROVE  GoodReview(Reviewing(phase, claims, shown, pair), d, e)
  <1> DEFINE v == Reviewing(phase, claims, shown, pair)
             cut == Batches(claims, most)
  <1>1. /\ \A i \in DOMAIN cut : cut[i] \in SUBSET Sites
        /\ \A s \in claims : \E i \in DOMAIN cut : s \in cut[i]
    BY BatchesCover
  <1>2. v = [phase |-> phase, shown |-> shown, pair |-> pair, late |-> FALSE, collected |-> 0,
             batches |-> [i \in DOMAIN cut |-> Asked(cut[i])]]
    BY DEF Reviewing
  <1>3. \A i \in DOMAIN cut : /\ GoodBatch(Asked(cut[i]), d, e, shown)
                              /\ \A s \in cut[i] : Holds(Asked(cut[i]), s)
    BY <1>1, AskedIsGood
  <1> HIDE DEF v, cut
  <1>4. /\ v = [phase |-> v.phase, shown |-> v.shown, pair |-> v.pair, late |-> v.late,
                collected |-> v.collected, batches |-> v.batches]
        /\ v.phase = phase /\ v.shown = shown /\ v.pair = pair
        /\ DOMAIN v.batches = DOMAIN cut
        /\ v.batches = [j \in DOMAIN v.batches |-> v.batches[j]]
        /\ \A i \in DOMAIN cut : v.batches[i] = Asked(cut[i])
    BY <1>2
  <1>5. \A s \in claims : \E j \in DOMAIN v.batches : Holds(v.batches[j], s)
    BY <1>1, <1>3, <1>4
  <1>6. \A j \in DOMAIN v.batches : GoodBatch(v.batches[j], d, e, v.shown)
    BY <1>3, <1>4
  <1>7. GoodReview(v, d, e)
    BY <1>4, <1>5, <1>6 DEF GoodReview
  <1> QED BY <1>7 DEF v

LEMMA StartReviewInv ==
  ASSUME IInv, StartReview
  PROVE  IInv'
  <1>1. /\ node = "review" /\ saved' = cache
        /\ review' = Reviewing("initial", Claims(draft), evidence, NoReport)
        /\ UNCHANGED <<draft, evidence, node, cache, report, round, most>>
    BY DEF StartReview
  <1>2. GoodReview(review', draft, evidence)
    <2>1. Claims(draft) \in SUBSET Sites
      BY DEF Claims
    <2>2. most \in Nat \ {0}
      BY DEF IInv, TypeInv
    <2>3. GoodReview(Reviewing("initial", Claims(draft), evidence, NoReport), draft, evidence)
      BY <2>1, <2>2, ReviewStarts
    <2> QED BY <1>1, <2>3
  <1>3. ReviewInv'
    BY <1>1, <1>2 DEF ReviewInv
  <1>4. StoreInv'
    BY <1>1 DEF IInv, StoreInv
  <1> QED BY <1>1, <1>3, <1>4, Frame DEF IInv

\* One call has ended, well or not.
LEMMA SaidInv ==
  ASSUME IInv, NEW j \in DOMAIN review.batches, NEW role \in Roles, Pending(j, role), NEW answer,
         GoodSaid(answer, Segment(j), draft, evidence, review.shown), Said(j, role, answer),
         UNCHANGED <<draft, evidence, node, report, round, most>>, StoreInv'
  PROVE  IInv'
  <1> DEFINE b == review.batches[j]
             said == [b.said EXCEPT ![role] = answer]
             x == Settled(b, said)
  <1>1. /\ review.phase # "idle" /\ node = "review" /\ GoodReview(review, draft, evidence)
        /\ b.at = "running"
    BY DEF Pending, IInv, ReviewInv
  <1>2. GoodBatch(b, draft, evidence, review.shown)
    BY <1>1 DEF GoodReview
  <1>3. /\ said = [r \in Roles |-> said[r]]
        /\ \A r \in Roles : GoodSaid(said[r], Head(b.todo), draft, evidence, review.shown)
    <2>1. /\ b.said = [r \in Roles |-> b.said[r]]
          /\ \A r \in Roles : GoodSaid(b.said[r], Head(b.todo), draft, evidence, review.shown)
      BY <1>2 DEF GoodBatch
    <2>2. GoodSaid(answer, Head(b.todo), draft, evidence, review.shown)
      BY DEF Segment
    <2> HIDE DEF b
    <2>3. \A r \in Roles : said[r] = IF r = role THEN answer ELSE b.said[r]
      BY <2>1
    <2>4. said = [r \in Roles |-> said[r]]
      BY <2>1
    <2> HIDE DEF said
    <2> QED BY <2>1, <2>2, <2>3, <2>4
  <1>4. /\ GoodBatch(x, draft, evidence, review.shown)
        /\ \A s : Holds(b, s) => Holds(x, s)
    <2> HIDE DEF b, said
    <2> QED BY <1>1, <1>2, <1>3, SettledIsGood
  <1>5. review' = [review EXCEPT !.batches[j] = x]
    BY DEF Said
  <1> DEFINE v == review'
  <1>6. /\ v.phase = review.phase /\ v.shown = review.shown /\ v.pair = review.pair
        /\ v = [phase |-> v.phase, shown |-> v.shown, pair |-> v.pair, late |-> v.late,
                collected |-> v.collected, batches |-> v.batches]
        /\ v.batches = [review.batches EXCEPT ![j] = x]
    <2>1. review = [phase |-> review.phase, shown |-> review.shown, pair |-> review.pair,
                    late |-> review.late, collected |-> review.collected, batches |-> review.batches]
      BY <1>1 DEF GoodReview
    <2> HIDE DEF x
    <2> QED BY <1>5, <2>1
  <1>7. /\ DOMAIN v.batches = DOMAIN review.batches
        /\ v.batches = [i \in DOMAIN v.batches |-> v.batches[i]]
        /\ \A i \in DOMAIN v.batches : v.batches[i] = IF i = j THEN x ELSE review.batches[i]
    <2>1. review.batches = [i \in DOMAIN review.batches |-> review.batches[i]]
      BY <1>1 DEF GoodReview
    <2> HIDE DEF x
    <2> QED BY <1>6, <2>1
  <1> HIDE DEF x
  <1>8. \A i \in DOMAIN v.batches : GoodBatch(v.batches[i], draft, evidence, v.shown)
    BY <1>1, <1>4, <1>6, <1>7 DEF GoodReview
  <1>9. v.phase = "initial" =>
          v.shown = evidence
          /\ \A s \in Claims(draft) : \E i \in DOMAIN v.batches : Holds(v.batches[i], s)
    <2>1. SUFFICES ASSUME v.phase = "initial", NEW s \in Claims(draft)
                   PROVE  v.shown = evidence /\ \E i \in DOMAIN v.batches : Holds(v.batches[i], s)
      BY <1>1, <1>6 DEF GoodReview
    <2>2. review.shown = evidence /\ \E i \in DOMAIN review.batches : Holds(review.batches[i], s)
      BY <1>1, <1>6, <2>1 DEF GoodReview
    <2>3. PICK i \in DOMAIN review.batches : Holds(review.batches[i], s)
      BY <2>2
    <2>4. Holds(v.batches[i], s)
      BY <1>4, <1>7, <2>3
    <2> QED BY <1>6, <1>7, <2>2, <2>4
  <1>10. GoodReview(v, draft, evidence)
    BY <1>1, <1>6, <1>7, <1>8, <1>9 DEF GoodReview
  <1>11. ReviewInv'
    BY <1>1, <1>10 DEF ReviewInv
  <1> QED BY <1>11, Frame DEF IInv

LEMMA ReplayInv ==
  ASSUME IInv, NEW j \in DOMAIN review.batches, NEW role \in Roles, Replay(j, role)
  PROVE  IInv'
  <1>1. /\ Pending(j, role) /\ Key(Segment(j), role) \in DOMAIN cache
        /\ Said(j, role, Checked(cache[Key(Segment(j), role)]))
        /\ UNCHANGED <<draft, evidence, node, cache, saved, report, round, most>>
    BY DEF Replay
  <1>2. GoodReview(review, draft, evidence) /\ GoodStore(cache)
    BY <1>1 DEF Pending, IInv, ReviewInv, StoreInv
  <1>3. GoodSaid(Checked(cache[Key(Segment(j), role)]), Segment(j), draft, evidence, review.shown)
    BY <1>1, <1>2, ReplayIsSound
  <1>4. StoreInv'
    BY <1>1 DEF IInv, StoreInv
  <1> QED BY <1>1, <1>3, <1>4, SaidInv

LEMMA CallInv ==
  ASSUME IInv, NEW j \in DOMAIN review.batches, NEW role \in Roles, Call(j, role)
  PROVE  IInv'
  <1>1. PICK answer \in Answers(Segment(j)) :
          /\ Said(j, role, Checked(answer))
          /\ cache' = Overriding([k \in {Key(Segment(j), role)} |-> Valid(answer)], cache)
    BY DEF Call
  <1>2. Pending(j, role) /\ UNCHANGED <<draft, evidence, node, saved, report, round, most>>
    BY DEF Call
  <1>3. GoodReview(review, draft, evidence) /\ GoodStore(cache)
    BY <1>2 DEF Pending, IInv, ReviewInv, StoreInv
  <1>4. /\ GoodSaid(Checked(answer), Segment(j), draft, evidence, review.shown)
        /\ GoodStore(cache')
    BY <1>1, <1>3, CallIsSound
  <1>5. StoreInv'
    BY <1>2, <1>4 DEF IInv, StoreInv
  <1> QED BY <1>1, <1>2, <1>4, <1>5, SaidInv

LEMMA CallFailsInv ==
  ASSUME IInv, NEW j \in DOMAIN review.batches, NEW role \in Roles,
         NEW how \in {"splittable", "fatal"}, CallFails(j, role, how)
  PROVE  IInv'
  <1>1. /\ Pending(j, role) /\ Said(j, role, [is |-> how])
        /\ UNCHANGED <<draft, evidence, node, cache, saved, report, round, most>>
    BY DEF CallFails
  <1>2. GoodSaid([is |-> how], Segment(j), draft, evidence, review.shown)
    BY DEF GoodSaid
  <1>3. StoreInv'
    BY <1>1 DEF IInv, StoreInv
  <1> QED BY <1>1, <1>2, <1>3, SaidInv

\* A step of the main thread that leaves the batches as they are
LEMMA SameBatches ==
  ASSUME IInv, review.phase # "idle", NEW late, NEW collected,
         review' = [review EXCEPT !.late = late, !.collected = collected]
  PROVE  review'.phase # "idle" /\ GoodReview(review', draft, evidence)
  <1>1. GoodReview(review, draft, evidence)
    BY DEF IInv, ReviewInv
  <1> DEFINE v == review'
  <1>2. /\ v.phase = review.phase /\ v.shown = review.shown /\ v.pair = review.pair
        /\ v.batches = review.batches
        /\ v = [phase |-> v.phase, shown |-> v.shown, pair |-> v.pair, late |-> v.late,
                collected |-> v.collected, batches |-> v.batches]
    BY <1>1 DEF GoodReview
  <1> QED BY <1>1, <1>2 DEF GoodReview

LEMMA DeadlineInv ==
  ASSUME IInv, Deadline
  PROVE  IInv'
  <1>1. /\ review.phase # "idle" /\ review' = [review EXCEPT !.late = TRUE]
        /\ UNCHANGED <<draft, evidence, node, cache, saved, report, round, most>>
    BY DEF Deadline
  <1>2. review' = [review EXCEPT !.late = TRUE, !.collected = review.collected]
    BY <1>1 DEF IInv, ReviewInv, GoodReview
  <1>3. ReviewInv'
    BY <1>1, <1>2, SameBatches DEF IInv, ReviewInv
  <1>4. StoreInv'
    BY <1>1 DEF IInv, StoreInv
  <1> QED BY <1>1, <1>3, <1>4, Frame DEF IInv

LEMMA CollectInv ==
  ASSUME IInv, Collect
  PROVE  IInv'
  <1>1. /\ review.phase # "idle" /\ saved' = cache
        /\ review' = [review EXCEPT !.collected = review.collected + 1]
        /\ UNCHANGED <<draft, evidence, node, cache, report, round, most>>
    BY DEF Collect
  <1>2. review' = [review EXCEPT !.late = review.late, !.collected = review.collected + 1]
    BY <1>1 DEF IInv, ReviewInv, GoodReview
  <1>3. ReviewInv'
    BY <1>1, <1>2, SameBatches DEF IInv, ReviewInv
  <1>4. StoreInv'
    BY <1>1 DEF IInv, StoreInv
  <1> QED BY <1>1, <1>3, <1>4, Frame DEF IInv

\* A review given up or interrupted leaves the answers saved so far.
LEMMA DroppedInv ==
  ASSUME IInv, review' = Idle, cache' \in {cache, saved}, saved' \in {cache, saved},
         UNCHANGED <<draft, evidence, node, report, round, most>>
  PROVE  IInv'
  <1>1. ReviewInv' /\ StoreInv'
    BY DEF IInv, ReviewInv, Idle, StoreInv
  <1> QED BY <1>1, Frame DEF IInv

LEMMA AnsweredIsSound ==
  ASSUME GoodReview(review, draft, evidence), NEW r \in Roles
  PROVE  /\ AllSound(Answered[r], draft, evidence, review.shown)
         /\ \A s : (\E j \in DOMAIN review.batches : s \in DOMAIN review.batches[j].done[r])
                   => s \in DOMAIN Answered[r]
  <1> DEFINE of(s) == {j \in DOMAIN review.batches : s \in DOMAIN review.batches[j].done[r]}
             all == UNION {DOMAIN review.batches[j].done[r] : j \in DOMAIN review.batches}
  <1>1. Answered[r] = [s \in all |-> review.batches[CHOOSE j \in of(s) : TRUE].done[r][s]]
    BY DEF Answered
  <1>2. ASSUME NEW s \in all
        PROVE  Sound(Answered[r][s], s, draft, evidence, review.shown)
    <2> DEFINE j == CHOOSE j \in of(s) : TRUE
    <2>1. of(s) # {}
      OBVIOUS
    <2>2. j \in of(s)
      BY <2>1
    <2>3. Answered[r][s] = review.batches[j].done[r][s]
      BY <1>1
    <2> HIDE DEF j
    <2>4. AllSound(review.batches[j].done[r], draft, evidence, review.shown)
      BY <2>2 DEF GoodReview, GoodBatch
    <2> QED BY <2>2, <2>3, <2>4 DEF AllSound
  <1>3. DOMAIN Answered[r] = all
    BY <1>1
  <1> QED BY <1>2, <1>3 DEF AllSound

\* Once the first batches are done, every claim has been answered by all models.
LEMMA FirstPairIsGood ==
  ASSUME GoodReview(review, draft, evidence), review.phase = "initial",
         \A j \in DOMAIN review.batches : review.batches[j].at = "done"
  PROVE  GoodPair(Answered, draft, evidence, review.shown)
  <1>1. ASSUME NEW s \in Claims(draft), NEW r \in Roles
        PROVE  s \in DOMAIN Answered[r]
    <2>1. PICK j \in DOMAIN review.batches : Holds(review.batches[j], s)
      BY DEF GoodReview
    <2>2. review.batches[j].todo = << >>
      BY DEF GoodReview, GoodBatch
    <2>3. s \in DOMAIN review.batches[j].done[r]
      <3>1. Len(review.batches[j].todo) = 0
        BY <2>2
      <3>2. ~\E i \in 1..Len(review.batches[j].todo) : s \in review.batches[j].todo[i]
        BY <3>1
      <3> QED BY <2>1, <3>2 DEF Holds
    <2> QED BY <2>3, AnsweredIsSound
  <1> QED BY <1>1, AnsweredIsSound DEF GoodPair

LEMMA SecondPairIsGood ==
  ASSUME GoodReview(review, draft, evidence), review.phase = "recheck"
  PROVE  /\ GoodPair(Rechecked(review.pair, Answered), draft, evidence, review.shown)
         /\ \A r \in Roles, s \in Claims(draft) : s \in DOMAIN Answered[r] =>
              Rechecked(review.pair, Answered)[r][s] = Answered[r][s]
  <1> DEFINE pair == Rechecked(review.pair, Answered)
  <1>1. GoodPair(review.pair, draft, evidence, review.shown)
    BY DEF GoodReview
  <1>2. ASSUME NEW r \in Roles
        PROVE  /\ DOMAIN pair[r] = DOMAIN review.pair[r]
               /\ \A s \in DOMAIN pair[r] :
                    pair[r][s] = IF s \in DOMAIN Answered[r] THEN Answered[r][s]
                                 ELSE review.pair[r][s]
    BY DEF Rechecked
  <1> HIDE DEF pair
  <1>3. \A r \in Roles : AllSound(pair[r], draft, evidence, review.shown)
    BY <1>1, <1>2, AnsweredIsSound DEF GoodPair, AllSound
  <1>4. GoodPair(pair, draft, evidence, review.shown)
    BY <1>1, <1>2, <1>3 DEF GoodPair
  <1>5. \A r \in Roles, s \in Claims(draft) : s \in DOMAIN Answered[r] => pair[r][s] = Answered[r][s]
    BY <1>1, <1>2 DEF GoodPair
  <1> QED BY <1>4, <1>5 DEF pair

-----------------------------------------------------------------------------
(* The report                                                              *)

AgreedOn(pair, d, e, s) ==
  LET sources == UNION {pair[r][s].sources : r \in Roles} IN
  /\ \A r \in Roles : pair[r][s].verdict = "supported"
  /\ sources # {} /\ sources \subseteq Declared(d) \cap Range(e)

LEMMA SupportIsAgreed ==
  ASSUME NEW pair, NEW d, NEW e, NEW s, Declared(d) \subseteq Range(e),
         Resolved(pair, d, s) = "supported"
  PROVE  AgreedOn(pair, d, e, s)
  <1> DEFINE r0 == CHOOSE r \in Roles : TRUE
             sources == UNION {pair[q][s].sources : q \in Roles}
  <1>1. r0 \in Roles
    BY RolesAssumption
  <1> HIDE DEF r0
  <1>2. Resolved(pair, d, s) =
          IF s \in Disputed(pair, {s}) THEN "unresolved"
          ELSE IF pair[r0][s].verdict = "supported"
                  /\ (sources = {} \/ ~(sources \subseteq Declared(d)))
               THEN "insufficient" ELSE pair[r0][s].verdict
    BY DEF Resolved, r0
  <1>3. /\ s \notin Disputed(pair, {s})
        /\ pair[r0][s].verdict = "supported" /\ sources # {} /\ sources \subseteq Declared(d)
    <2> HIDE DEF sources
    <2> QED BY <1>2
  <1>4. \A r \in Roles : pair[r][s].verdict = pair[r0][s].verdict
    BY <1>1, <1>3 DEF Disputed
  <1> QED BY <1>3, <1>4 DEF AgreedOn

LEMMA RestIsBad ==
  ASSUME NEW pair, NEW d, NEW e, NEW shown, GoodPair(pair, d, e, shown), NEW s \in Claims(d),
         Resolved(pair, d, s) # "supported"
  PROVE  s \in WithStatus(pair, d, {"unresolved", "contradicted", "insufficient"})
  <1> DEFINE r0 == CHOOSE r \in Roles : TRUE
  <1>1. r0 \in Roles
    BY RolesAssumption
  <1>2. pair[r0][s].verdict \in Verdicts
    BY <1>1 DEF GoodPair, AllSound, Sound, IsCheck
  <1>3. Resolved(pair, d, s) \in {"unresolved", "insufficient", pair[r0][s].verdict}
    BY DEF Resolved
  <1> HIDE DEF r0
  <1> QED BY <1>2, <1>3 DEF WithStatus, Verdicts

LEMMA MetricsMeanConsensus ==
  ASSUME NEW pair, NEW d, NEW e, NEW shown, GoodPair(pair, d, e, shown),
         Declared(d) \subseteq Range(e), MetricsPass(pair, d, e)
  PROVE  LET agreed  == {s \in Claims(d) : AgreedOn(pair, d, e, s)}
             covered == {KnowledgeOf[c] : c \in UNION {d.cites[s] : s \in agreed}}
         IN /\ 100 * Cardinality(Claims(d) \ agreed) < 5 * Cardinality(Claims(d))
            /\ 100 * Cardinality(Targets \cap covered) >= 90 * Cardinality(Targets)
  <1> DEFINE agreed == {s \in Claims(d) : AgreedOn(pair, d, e, s)}
             covered == {KnowledgeOf[c] : c \in UNION {d.cites[s] : s \in agreed}}
             bad == WithStatus(pair, d, {"unresolved", "contradicted", "insufficient"})
             reached == Covered(pair, d, e)
  <1>1. /\ 100 * Cardinality(bad) < 5 * Cardinality(Claims(d))
        /\ 100 * Cardinality(reached) >= 90 * Cardinality(Targets)
    BY DEF MetricsPass
  <1>2. IsFiniteSet(Claims(d)) /\ bad \subseteq Claims(d)
    <2>1. Claims(d) \in SUBSET Sites
      BY DEF Claims
    <2> QED BY <2>1, SitesAssumption, FS_Subset DEF WithStatus
  <1>3. Claims(d) \ agreed \subseteq bad
    BY SupportIsAgreed, RestIsBad
  <1>4. reached \subseteq Targets \cap covered
    <2>1. ASSUME NEW k \in reached
          PROVE  k \in Targets \cap covered
      <3>1. k \in Targets
        BY DEF Covered
      <3>2. PICK s \in WithStatus(pair, d, {"supported"}) : k \in Knowledge(d, e, s)
        BY DEF Covered
      <3>3. s \in Claims(d) /\ Resolved(pair, d, s) = "supported"
        BY <3>2 DEF WithStatus
      <3>4. s \in agreed
        BY <3>3, SupportIsAgreed
      <3>5. PICK c \in d.cites[s] : k = KnowledgeOf[c]
        BY <3>2 DEF Knowledge
      <3> HIDE DEF agreed
      <3> QED BY <3>1, <3>4, <3>5
    <2> QED BY <2>1
  <1> HIDE DEF agreed, covered, bad, reached
  <1>5. /\ Cardinality(Claims(d) \ agreed) <= Cardinality(bad)
        /\ Cardinality(Claims(d) \ agreed) \in Nat /\ Cardinality(bad) \in Nat
        /\ Cardinality(Claims(d)) \in Nat
    <2>1. IsFiniteSet(bad)
      BY <1>2, FS_Subset
    <2>2. IsFiniteSet(Claims(d) \ agreed)
      BY <1>3, <2>1, FS_Subset
    <2> QED BY <1>2, <1>3, <2>1, <2>2, FS_Subset, FS_CardinalityType
  <1>6. /\ Cardinality(reached) <= Cardinality(Targets \cap covered)
        /\ Cardinality(reached) \in Nat /\ Cardinality(Targets \cap covered) \in Nat
        /\ Cardinality(Targets) \in Nat
    <2>1. IsFiniteSet(Targets) /\ IsFiniteSet(Targets \cap covered)
      BY TargetsAssumption, FS_Subset
    <2>2. IsFiniteSet(reached)
      BY <1>4, <2>1, FS_Subset
    <2> QED BY <1>4, <2>1, <2>2, FS_Subset, FS_CardinalityType
  <1>7. /\ 100 * Cardinality(Claims(d) \ agreed) < 5 * Cardinality(Claims(d))
        /\ 100 * Cardinality(Targets \cap covered) >= 90 * Cardinality(Targets)
    BY <1>1, <1>5, <1>6
  <1> QED BY <1>7 DEF agreed, covered

LEMMA ReportedInv ==
  ASSUME IInv, node = "review", review.phase # "idle", NEW pair, NEW second, Reported(pair, second),
         GoodPair(pair, draft, evidence, review.shown),
         \A r \in Roles, s \in Claims(draft) : s \in DOMAIN second[r] => pair[r][s] = second[r][s]
  PROVE  IInv'
  <1>1. /\ report' = [pair |-> pair, draft |-> draft, evidence |-> evidence,
                      shown |-> Range(evidence) \cup Range(review.shown), second |-> second,
                      passed |-> MetricsPass(pair, draft, evidence)]
        /\ review' = Idle /\ node' = "finalize" /\ saved' = cache
        /\ UNCHANGED <<draft, evidence, cache, round, most>>
    BY DEF Reported
  <1>2. TypeInv' /\ EvidenceInv' /\ StoreInv' /\ ReviewInv'
    BY <1>1 DEF IInv, TypeInv, EvidenceInv, StoreInv, ReviewInv, Idle
  <1>3. Declared(draft) \subseteq Range(evidence)
    BY DEF IInv, CitesInv
  <1>4. CitesInv' /\ ReportInv' /\ RejectedGone'
    BY <1>1, <1>3 DEF CitesInv, ReportInv, RejectedGone
  <1>5. VerdictsCurrent'
    <2>1. ASSUME NEW r \in Roles, NEW s \in Claims(draft)
          PROVE  /\ pair[r][s].text = draft.text[s]
                 /\ pair[r][s].packet.declared \cup pair[r][s].packet.supplemental
                      \subseteq Range(evidence) \cup Range(review.shown)
                 /\ draft.cites[s] \cap Range(evidence) \subseteq pair[r][s].packet.declared
      BY DEF GoodPair, AllSound, Sound
    <2>2. report'.pair = pair /\ report'.shown = Range(evidence) \cup Range(review.shown)
      BY <1>1
    <2> QED BY <1>1, <2>1, <2>2 DEF VerdictsCurrent
  <1>6. ConsensusInv'
    <2>1. /\ report'.pair = pair /\ report'.second = second
          /\ report'.passed = MetricsPass(pair, draft, evidence)
      BY <1>1
    <2>2. SUFFICES ASSUME MetricsPass(pair, draft, evidence)
                   PROVE  Consensus'
      BY <1>1, <2>1 DEF ConsensusInv
    <2>3. \A s : Agreed(s)' = AgreedOn(pair, draft, evidence, s)
      BY <1>1, <2>1 DEF Agreed, AgreedOn
    <2>4. LET agreed  == {s \in Claims(draft) : AgreedOn(pair, draft, evidence, s)}
              covered == {KnowledgeOf[c] : c \in UNION {draft.cites[s] : s \in agreed}}
          IN /\ 100 * Cardinality(Claims(draft) \ agreed) < 5 * Cardinality(Claims(draft))
             /\ 100 * Cardinality(Targets \cap covered) >= 90 * Cardinality(Targets)
      BY <1>3, <2>2, MetricsMeanConsensus
    <2> QED BY <1>1, <2>1, <2>3, <2>4 DEF Consensus
  <1> QED BY <1>2, <1>4, <1>5, <1>6 DEF IInv

LEMMA ConcludeInv ==
  ASSUME IInv, Conclude
  PROVE  IInv'
  <1> DEFINE doubtful == ToRefresh(Answered, draft, evidence)
             n == VerificationBudget(NResults, {KnowledgeOf[c] : c \in Declared(draft)})
  <1>1. /\ review.phase = "initial" /\ node = "review" /\ GoodReview(review, draft, evidence)
        /\ \A j \in DOMAIN review.batches : review.batches[j].at = "done"
    BY DEF Conclude, Collected, IInv, ReviewInv
  <1>2. GoodPair(Answered, draft, evidence, review.shown)
    BY <1>1, FirstPairIsGood
  <1>3. CASE Reported(Answered, [r \in Roles |-> << >>])
    <2>1. \A r \in Roles : DOMAIN [q \in Roles |-> << >>][r] = {}
      OBVIOUS
    <2> QED BY <1>1, <1>2, <1>3, <2>1, ReportedInv
  <1>4. CASE /\ \E fresh \in Fresh(n) :
                  review' = Reviewing("recheck", doubtful, WithRefreshed(evidence, fresh), Answered)
             /\ UNCHANGED <<draft, evidence, node, cache, saved, report, round, most>>
    <2>1. PICK fresh \in Fresh(n) :
            review' = Reviewing("recheck", doubtful, WithRefreshed(evidence, fresh), Answered)
      BY <1>4
    <2> DEFINE shown == WithRefreshed(evidence, fresh)
    <2>2. n \in Nat
      <3> DEFINE K == {KnowledgeOf[c] : c \in Declared(draft)}
                 f == [c \in Declared(draft) |-> KnowledgeOf[c]]
      <3>1. IsFiniteSet(Declared(draft))
        <4>1. Declared(draft) \subseteq Range(evidence) /\ Range(evidence) \subseteq Chunks
          BY <1>1, RangeIn DEF IInv, CitesInv, EvidenceInv
        <4> QED BY <4>1, ChunksAssumption, FS_Subset
      <3>2. f \in Surjection(Declared(draft), K)
        BY DEF Surjection
      <3>3. IsFiniteSet(K)
        <4> HIDE DEF K, f
        <4> QED BY <3>1, <3>2, FS_Surjection
      <3>4. Cardinality(K) \in Nat
        BY <3>3, FS_CardinalityType
      <3>5. NResults \in Nat
        BY NResultsAssumption, CapacityAssumption
      <3> HIDE DEF K
      <3>6. VerificationBudget(NResults, K) \in Nat
        BY <3>4, <3>5 DEF VerificationBudget, SmallerOf
      <3> QED BY <3>6 DEF K
    <2>3. Range(evidence) \subseteq Range(shown)
      <3>1. fresh \in Seq(Chunks)
        BY <2>2, FreshStays
      <3> QED BY <3>1, RefreshedKeeps DEF IInv, EvidenceInv
    <2>4. GoodPair(Answered, draft, evidence, shown)
      <3>1. review.shown = evidence
        BY <1>1 DEF GoodReview
      <3> HIDE DEF shown
      <3> QED BY <1>2, <3>1 DEF GoodPair, AllSound, Sound
    <2>5. doubtful \in SUBSET Sites
      BY DEF ToRefresh, WithStatus, Claims
    <2>6. most \in Nat \ {0}
      BY DEF IInv, TypeInv
    <2> HIDE DEF shown, doubtful
    <2>7. GoodReview(Reviewing("recheck", doubtful, shown, Answered), draft, evidence)
      BY <2>3, <2>4, <2>5, <2>6, ReviewStarts
    <2>8. ReviewInv'
      BY <1>1, <1>4, <2>1, <2>7 DEF ReviewInv, shown
    <2>9. StoreInv'
      BY <1>4 DEF IInv, StoreInv
    <2> QED BY <1>4, <2>8, <2>9, Frame DEF IInv
  <1> QED BY <1>3, <1>4 DEF Conclude

LEMMA ConcludeRecheckInv ==
  ASSUME IInv, ConcludeRecheck
  PROVE  IInv'
  <1>1. /\ review.phase = "recheck" /\ node = "review" /\ GoodReview(review, draft, evidence)
        /\ Reported(Rechecked(review.pair, Answered), Answered)
    BY DEF ConcludeRecheck, Collected, IInv, ReviewInv
  <1> QED BY <1>1, SecondPairIsGood, ReportedInv

LEMMA FinalizeInv ==
  ASSUME IInv, Finalize
  PROVE  IInv'
  <1>1. /\ node = "finalize" /\ UNCHANGED <<draft, evidence, review, cache, saved, report, most>>
        /\ \/ report.passed /\ node' = "passed" /\ round' = round
           \/ node' = "retrieve" /\ round' = round + 1
           \/ node' = "withheld" /\ round' = round
    BY DEF Finalize
  <1>2. TypeInv' /\ EvidenceInv' /\ StoreInv' /\ CitesInv' /\ ReviewInv'
    BY <1>1 DEF IInv, TypeInv, EvidenceInv, StoreInv, CitesInv, ReviewInv
  <1>3. ReportInv'
    BY <1>1 DEF IInv, TypeInv, ReportInv
  <1>4. VerdictsCurrent' /\ RejectedGone'
    BY <1>1 DEF VerdictsCurrent, RejectedGone
  <1>5. ConsensusInv'
    <2>1. Consensus' <=> Consensus
      BY <1>1 DEF Consensus, Agreed
    <2> QED BY <1>1, <2>1 DEF IInv, ConsensusInv
  <1> QED BY <1>2, <1>3, <1>4, <1>5 DEF IInv

LEMMA StepInv == IInv /\ [Next]_vars => IInv'
  <1> SUFFICES ASSUME IInv, [Next]_vars
               PROVE  IInv'
    OBVIOUS
  <1>1. CASE Retrieve
    BY <1>1, RetrieveInv
  <1>2. CASE Generate
    BY <1>2, GenerateInv
  <1>3. CASE Revise
    BY <1>3, ReviseInv
  <1>4. CASE StartReview
    BY <1>4, StartReviewInv
  <1>5. CASE Deadline
    BY <1>5, DeadlineInv
  <1>6. CASE Collect
    BY <1>6, CollectInv
  <1>7. CASE Abort
    BY <1>7, DroppedInv DEF Abort
  <1>8. CASE Conclude
    BY <1>8, ConcludeInv
  <1>9. CASE ConcludeRecheck
    BY <1>9, ConcludeRecheckInv
  <1>10. ASSUME NEW j \in DOMAIN review.batches, NEW role \in Roles,
                \/ Replay(j, role) \/ Call(j, role)
                \/ \E how \in {"splittable", "fatal"} : CallFails(j, role, how)
         PROVE  IInv'
    BY <1>10, ReplayInv, CallInv, CallFailsInv
  <1>11. CASE Crash
    BY <1>11, DroppedInv DEF Crash
  <1>12. CASE Finalize
    BY <1>12, FinalizeInv
  <1>13. CASE UNCHANGED vars
    <2>1. ReviewInv' /\ StoreInv'
      BY <1>13 DEF vars, IInv, ReviewInv, StoreInv
    <2> QED BY <1>13, <2>1, Frame DEF vars, IInv
  <1> QED BY <1>1, <1>2, <1>3, <1>4, <1>5, <1>6, <1>7, <1>8, <1>9, <1>10, <1>11, <1>12, <1>13
          DEF Next

-----------------------------------------------------------------------------
(* The theorems                                                            *)

LEMMA InvariantHolds == Spec => []IInv
  <1>1. Init => IInv
    BY InitInv
  <1>2. IInv /\ [Next]_vars => IInv'
    BY StepInv
  <1> QED BY <1>1, <1>2, PTL DEF Spec

\* Every verdict of a report speaks of the wording and the evidence of its review,
\* whatever was replayed from the cache of other rounds, attempts and processes.
THEOREM VerdictsStayCurrent == Spec => []VerdictsCurrent
  <1>1. IInv => VerdictsCurrent
    BY DEF IInv
  <1> QED BY <1>1, InvariantHolds, PTL

\* A resource passes by the consensus of both models only, however its review was
\* split, repeated, interrupted or rechecked.
THEOREM PassByConsensus == Spec => []PassIsConsensus
  <1>1. IInv => PassIsConsensus
    BY DEF IInv, ConsensusInv, PassIsConsensus
  <1> QED BY <1>1, InvariantHolds, PTL

\* A rejected statement is gone from the revision that answers its report.
THEOREM RejectedStaysGone == Spec => []RejectedGone
  <1>1. IInv => RejectedGone
    BY DEF IInv
  <1> QED BY <1>1, InvariantHolds, PTL
=============================================================================
