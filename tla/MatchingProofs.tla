--------------------------- MODULE MatchingProofs ---------------------------
(***************************************************************************)
(* Proofs about Matching for any table of jobs, any targets, rankings and  *)
(* limits: the table is optimal cell by cell, the jobs read back from it   *)
(* are the best choice, and a goal is called unreachable only if it is.    *)
(***************************************************************************)
EXTENDS Matching, KnapsackProofs

----------------------------------------------------------------------------
(* The inductive invariant                                                 *)

Cap == IF pc \in {"search", "retrieve"} THEN 0 ELSE Capacity(Range(candidates))

\* The types, with the bounds of the table.
TypeInv ==
    /\ job \in [Jobs -> JobRows]
    /\ target \in Targets
    /\ pc \in {"search", "retrieve", "fill", "walk", "done"}
    /\ ranked \in Rankings \union {<<>>}
    /\ candidates \in Seq(Jobs)
    /\ IsInjective(candidates)
    /\ i \in 0 .. Len(candidates) + 1
    /\ w \in -1 .. Cap
    /\ dp \in [0 .. Cap -> Nat \union {Unreached}]
    /\ keep \subseteq (1 .. Len(candidates)) \X (0 .. Cap)
    /\ selected \subseteq Range(candidates)

\* Before the retrieval there is nothing, after it what it retrieved.
RetrievedInv ==
    IF pc \in {"search", "retrieve"}
    THEN candidates = <<>> /\ keep = {} /\ selected = {}
    ELSE candidates = Candidates(ranked)

\* Candidate k improved cell v.
Improved(k, v) ==
    Improving(Earnings, Duration, Front(candidates, k - 1), candidates[k], v)

\* keep remembers which cells visited so far were improved by which candidate.
FillInv ==
    pc = "fill" =>
        /\ i \in 1 .. Len(candidates) + 1
        /\ selected = {}
        /\ TableIsOptimal
        /\ \A k \in 1 .. Len(candidates), v \in 0 .. Cap :
               <<k, v>> \in keep <=> (k < i \/ (k = i /\ v > w)) /\ Improved(k, v)

Best == Max({v \in DOMAIN dp : dp[v] # Unreached})

\* What is selected and what the first i candidates make of w is together
\* the best cell.
WalkInv ==
    pc = "walk" =>
        /\ i \in 0 .. Len(candidates)
        /\ w \in 0 .. Cap
        /\ \A v \in 0 .. Cap :
               dp[v] = Shortest(Earnings, Duration, Range(candidates), v)
        /\ \A k \in 1 .. Len(candidates), v \in 0 .. Cap :
               <<k, v>> \in keep <=> Improved(k, v)
        /\ selected \intersect Front(candidates, i) = {}
        /\ TotalEarnings(selected) + w = Best
        /\ LET rest == Shortest(Earnings, Duration, Front(candidates, i), w)
           IN  rest # Unreached /\ TotalDuration(selected) + rest = dp[Best]

\* The jobs read back from the table, or none where it was not built, fit it,
\* earn the most of all sets of candidates that do, and take the shortest time
\* of those that earn as much.
DoneInv ==
    pc = "done" =>
        /\ TotalEarnings(selected) <= Cap
        /\ \A S \in SUBSET Range(candidates) :
             TotalEarnings(S) <= Cap =>
                /\ TotalEarnings(S) <= TotalEarnings(selected)
                /\ TotalEarnings(S) = TotalEarnings(selected) =>
                       TotalDuration(S) >= TotalDuration(selected)

MatchInv == TypeInv /\ RetrievedInv /\ FillInv /\ WalkInv /\ DoneInv

----------------------------------------------------------------------------
(* Pay, sums and the bound of the table                                    *)

\* What jobs pay and how long they take are natural numbers.
LEMMA PayFacts ==
    ASSUME job \in [Jobs -> JobRows]
    PROVE  /\ Earnings \in [Jobs -> Nat] /\ Duration \in [Jobs -> Nat]
           /\ IsFiniteSet(Jobs)
<1>1. \A x \in Nat : RoundHalf(x) \in Nat
  BY DEF RoundHalf
<1>2. \A a, b \in Nat : a * b \in Nat
  OBVIOUS
<1>3. \A j \in Jobs : job[j].rate \in Nat /\ job[j].duration \in Nat
  BY MatchingAssumption
<1>4. \A j \in Jobs : RoundHalf(job[j].rate * job[j].duration) \in Nat
  BY <1>1, <1>2, <1>3
<1>5. IsFiniteSet(Jobs)
  BY MatchingAssumption, FS_Interval DEF Jobs
<1> QED
  BY <1>3, <1>4, <1>5 DEF Earnings, Duration

\* So are the totals of a set of jobs, and more jobs do not pay less.
LEMMA TotalFacts ==
    ASSUME job \in [Jobs -> JobRows], NEW C \in SUBSET Jobs
    PROVE  /\ IsFiniteSet(C)
           /\ \A x \in C : Earnings[x] \in Nat /\ Duration[x] \in Nat
           /\ \A S \in SUBSET C : /\ TotalEarnings(S) \in Nat
                                  /\ TotalDuration(S) \in Nat
                                  /\ TotalEarnings(S) <= TotalEarnings(C)
<1>1. IsFiniteSet(C) /\ \A x \in C : Earnings[x] \in Nat /\ Duration[x] \in Nat
  BY PayFacts, FS_Subset
<1>2. ASSUME NEW S \in SUBSET C
      PROVE  /\ TotalEarnings(S) \in Nat /\ TotalDuration(S) \in Nat
             /\ TotalEarnings(S) <= TotalEarnings(C)
  <2>1. IsFiniteSet(S) /\ \A x \in S : Earnings[x] \in Nat /\ Duration[x] \in Nat
    BY <1>1, FS_Subset
  <2> QED
    BY <1>1, <2>1, SumType, SumMonotonic DEF TotalEarnings, TotalDuration
<1> QED
  BY <1>1, <1>2

\* The table ends at what all candidates pay, or one best job above the goal.
LEMMA CapacityFacts ==
    ASSUME job \in [Jobs -> JobRows], target \in Targets, NEW C \in SUBSET Jobs
    PROVE  /\ Capacity(C) \in Nat /\ Capacity(C) <= TotalEarnings(C)
           /\ C # {} => \E m \in Nat :
                 /\ \A x \in C : Earnings[x] <= m
                 /\ Capacity(C) \in {TotalEarnings(C), target + m}
<1>1. /\ TotalEarnings(C) \in Nat /\ target \in Nat
      /\ IsFiniteSet(C) /\ \A x \in C : Earnings[x] \in Nat
  BY TotalFacts, MatchingAssumption
<1>2. CASE C = {}
  BY <1>1, <1>2 DEF Capacity
<1>3. CASE C # {}
  <2> DEFINE E == {Earnings[j] : j \in C}
             m == Max(E)
  <2>1. E \in SUBSET Nat /\ E # {}
    BY <1>1, <1>3
  <2>2. \A n \in E : n <= TotalEarnings(C)
    <3> SUFFICES ASSUME NEW x \in C PROVE Earnings[x] <= TotalEarnings(C)
      OBVIOUS
    <3>1. C \ {x} \in SUBSET Jobs /\ TotalEarnings(C \ {x}) \in Nat
      BY TotalFacts
    <3>2. TotalEarnings(C) = Earnings[x] + TotalEarnings(C \ {x})
      BY <1>1, SumRemove DEF TotalEarnings
    <3> QED
      BY <1>1, <3>1, <3>2
  <2>3. m \in E /\ \A n \in E : n <= m
    <3> HIDE DEF E
    <3> QED
      BY <1>1, <2>1, <2>2, MaxIs
  <2>4. m \in Nat /\ \A x \in C : Earnings[x] <= m
    BY <2>1, <2>3
  <2>5. Capacity(C) = Min({TotalEarnings(C), target + m})
    BY <1>3 DEF Capacity
  <2> HIDE DEF m
  <2>6. target + m \in Nat
    BY <1>1, <2>4
  <2>7. /\ Capacity(C) \in {TotalEarnings(C), target + m}
        /\ Capacity(C) <= TotalEarnings(C)
    BY <1>1, <2>5, <2>6, MinOfTwo
  <2> QED
    BY <1>1, <2>4, <2>6, <2>7
<1> QED
  BY <1>2, <1>3

----------------------------------------------------------------------------
(* Candidates                                                              *)

\* The ids of a search are those of different jobs.
LEMMA RankingFacts ==
    ASSUME NEW ids \in Rankings \union {<<>>}
    PROVE  ids \in Seq(Jobs) /\ IsInjective(ids)
<1>1. <<>> \in Seq(Jobs) /\ IsInjective(<<>>)
  BY DEF IsInjective
<1> QED
  BY <1>1, MatchingAssumption

LEMMA ScanFacts ==
    /\ FullScan \in Seq(Jobs) /\ IsInjective(FullScan)
    /\ Cardinality(InQuery) <= MaxCandidates =>
           Range(FullScan) = InQuery \intersect Computable
<1> DEFINE all == [j \in Jobs |-> j]
           rows == Selected(all, InQuery)
           page == FirstOf(rows, MaxCandidates)
<1>1. all \in Seq(Jobs) /\ IsInjective(all) /\ Range(all) = Jobs
  <2>1. all \in Seq(Jobs)
    BY MatchingAssumption DEF Jobs
  <2>2. DOMAIN all = Jobs /\ \A j \in Jobs : all[j] = j
    OBVIOUS
  <2> QED
    BY <2>1, <2>2 DEF IsInjective, Range
<1>2. MaxCandidates \in Nat
  BY MatchingAssumption
<1>3. FullScan = Selected(page, Computable)
  BY DEF FullScan
<1> HIDE DEF all
<1>4. /\ rows \in Seq(Jobs) /\ IsInjective(rows)
      /\ Range(rows) = Range(all) \intersect InQuery
  BY <1>1, SelectedFacts
<1> HIDE DEF rows
<1>5. /\ page \in Seq(Jobs) /\ IsInjective(page)
      /\ Len(rows) <= MaxCandidates => page = rows
  BY <1>2, <1>4, FirstOfFacts
<1> HIDE DEF page
<1>6. /\ FullScan \in Seq(Jobs) /\ IsInjective(FullScan)
      /\ Range(FullScan) = Range(page) \intersect Computable
  BY <1>3, <1>5, SelectedFacts
<1>7. Range(rows) = InQuery
  BY <1>1, <1>4 DEF InQuery
<1>8. Cardinality(InQuery) = Len(rows)
  BY <1>4, <1>7, LengthIsCardinality
<1> QED
  BY <1>5, <1>6, <1>7, <1>8

\* Candidates are different jobs; when the search finds too few and the scan
\* is not cut short, they are all jobs that qualify.
LEMMA CandidateFacts ==
    ASSUME NEW ids \in Rankings \union {<<>>}
    PROVE  /\ Candidates(ids) \in Seq(Jobs) /\ IsInjective(Candidates(ids))
           /\ /\ Len(ByIds(ids)) < SemanticMin
              /\ Cardinality(InQuery) <= MaxCandidates
              => Range(Candidates(ids)) = InQuery \intersect Computable
<1>1. ByIds(ids) \in Seq(Jobs) /\ IsInjective(ByIds(ids))
  BY RankingFacts, SelectedFacts DEF ByIds
<1>2. Len(ByIds(ids)) \in Nat /\ SemanticMin \in Nat
  BY <1>1, MatchingAssumption
<1> QED
  BY <1>1, <1>2, ScanFacts DEF Candidates

----------------------------------------------------------------------------
(* The table                                                               *)

\* What a state of the invariant gives every step.
LEMMA StateFacts ==
    ASSUME TypeInv
    PROVE  /\ Cap \in Nat /\ Top = Cap
           /\ Range(candidates) \in SUBSET Jobs
           /\ \A k \in 0 .. Len(candidates) :
                 Front(candidates, k) \in SUBSET Range(candidates)
           /\ \A k \in 1 .. Len(candidates) :
                 /\ candidates[k] \in Range(candidates) \ Front(candidates, k - 1)
                 /\ Front(candidates, k) =
                        Front(candidates, k - 1) \union {candidates[k]}
           /\ Len(candidates) \in Nat
<1>1. Range(candidates) \in SUBSET Jobs
  BY DEF TypeInv, Range
<1>2. Cap \in Nat
  BY <1>1, CapacityFacts DEF TypeInv, Cap
<1>3. Top = Cap
  <2>1. DOMAIN dp = 0 .. Cap
    BY DEF TypeInv
  <2>2. 0 .. Cap \in SUBSET Nat /\ 0 .. Cap # {} /\ \A t \in 0 .. Cap : t <= Cap
    BY <1>2
  <2>3. Max(0 .. Cap) \in 0 .. Cap /\ \A t \in 0 .. Cap : t <= Max(0 .. Cap)
    BY <1>2, <2>2, MaxIs
  <2> QED
    BY <1>2, <2>1, <2>3 DEF Top
<1> QED
  BY <1>1, <1>2, <1>3, FrontFacts DEF TypeInv

\* A step that leaves the rows, the goal and the candidates alone leaves
\* everything computed from them alone.
LEMMA SameTable ==
    ASSUME job' = job, target' = target, ranked' = ranked,
           candidates' = candidates,
           pc \notin {"search", "retrieve"}, pc' \notin {"search", "retrieve"}
    PROVE  /\ Earnings' = Earnings /\ Duration' = Duration /\ Cap' = Cap
           /\ Candidates(ranked)' = Candidates(ranked)
<1>1. Earnings' = Earnings /\ Duration' = Duration
  BY DEF Earnings, Duration
<1>2. Capacity(Range(candidates))' = Capacity(Range(candidates))
  BY <1>1 DEF Capacity, TotalEarnings
<1>3. Candidates(ranked)' = Candidates(ranked)
  BY DEF Candidates, ByIds, FullScan, InQuery, Computable
<1> QED
  BY <1>1, <1>2, <1>3 DEF Cap

\* One row of the recurrence: what candidate k makes of each cell.
LEMMA RowFacts ==
    ASSUME TypeInv, NEW k \in 1 .. Len(candidates), NEW v \in 0 .. Cap
    PROVE  Shortest(Earnings, Duration, Front(candidates, k), v) =
               IF Improved(k, v)
               THEN Shortest(Earnings, Duration, Front(candidates, k - 1),
                             v - Earnings[candidates[k]]) + Duration[candidates[k]]
               ELSE Shortest(Earnings, Duration, Front(candidates, k - 1), v)
<1> DEFINE C == Front(candidates, k - 1)
           x == candidates[k]
<1>1. /\ C \in SUBSET Jobs /\ x \in Jobs /\ x \notin C
      /\ Front(candidates, k) = C \union {x}
  <2>1. k - 1 \in 0 .. Len(candidates)
    BY StateFacts
  <2> QED
    BY <2>1, StateFacts
<1>2. IsFiniteSet(C) /\ \A y \in C \union {x} : Earnings[y] \in Nat /\ Duration[y] \in Nat
  BY <1>1, PayFacts, FS_Subset DEF TypeInv
<1>3. v \in Nat
  BY StateFacts
<1> HIDE DEF C, x
<1>4. Shortest(Earnings, Duration, C \union {x}, v) =
          IF Improving(Earnings, Duration, C, x, v)
          THEN Shortest(Earnings, Duration, C, v - Earnings[x]) + Duration[x]
          ELSE Shortest(Earnings, Duration, C, v)
  BY <1>1, <1>2, <1>3, ShortestStep
<1> QED
  BY <1>1, <1>4 DEF Improved, C, x

\* The test of the inner loop looks at the cells of the recurrence.
LEMMA ImprovesIs ==
    ASSUME TypeInv, FillInv, pc = "fill", i <= Len(candidates),
           w >= Earnings[Cand]
    PROVE  /\ i \in 1 .. Len(candidates) /\ w \in 0 .. Cap
           /\ Cand = candidates[i] /\ Earnings[Cand] \in Nat /\ Duration[Cand] \in Nat
           /\ w - Earnings[Cand] \in 0 .. Cap
           /\ dp[w - Earnings[Cand]] = Shortest(Earnings, Duration,
                  Front(candidates, i - 1), w - Earnings[Cand])
           /\ dp[w] = Shortest(Earnings, Duration, Front(candidates, i - 1), w)
           /\ Improves <=> Improved(i, w)
<1>1. i \in 1 .. Len(candidates)
  BY StateFacts DEF FillInv
<1>2. Cand = candidates[i] /\ Cand \in Jobs
  BY <1>1, StateFacts DEF Cand
<1>3. Earnings[Cand] \in Nat /\ Duration[Cand] \in Nat
  BY <1>2, PayFacts DEF TypeInv
<1>4. w \in 0 .. Cap /\ w - Earnings[Cand] \in 0 .. Cap
  BY <1>3, StateFacts DEF TypeInv
<1>5. DOMAIN dp = 0 .. Cap
  BY DEF TypeInv
<1>6. ASSUME NEW v \in 0 .. Cap, v <= w
      PROVE  dp[v] = Shortest(Earnings, Duration, Front(candidates, i - 1), v)
  <2>1. ~(v > w)
    BY <1>4, <1>6, StateFacts
  <2>2. TableIsOptimal
    BY DEF FillInv
  <2> QED
    BY <1>5, <2>1, <2>2 DEF TableIsOptimal
<1>7. /\ dp[w - Earnings[Cand]] = Shortest(Earnings, Duration,
             Front(candidates, i - 1), w - Earnings[Cand])
      /\ dp[w] = Shortest(Earnings, Duration, Front(candidates, i - 1), w)
  BY <1>3, <1>4, <1>6, StateFacts
<1>8. Improves <=> Improved(i, w)
  BY <1>2, <1>3, <1>4, <1>7 DEF Improves, Improved, Improving
<1> QED
  BY <1>1, <1>2, <1>3, <1>4, <1>7, <1>8

----------------------------------------------------------------------------
(* The steps                                                               *)

\* The search has chosen nothing yet.
LEMMA SearchStep == MatchInv /\ SemanticSearch => MatchInv'
<1> SUFFICES ASSUME MatchInv, SemanticSearch PROVE MatchInv'
  OBVIOUS
<1> USE DEF MatchInv, SemanticSearch, table
<1>1. Cap = 0 /\ Cap' = 0
  BY DEF Cap
<1>2. TypeInv'
  BY <1>1 DEF TypeInv
<1> QED
  BY <1>2 DEF RetrievedInv, FillInv, WalkInv, DoneInv

\* A table without candidates knows the empty set.
LEMMA RetrieveStep == MatchInv /\ RetrieveCandidates => MatchInv'
<1> SUFFICES ASSUME MatchInv, RetrieveCandidates PROVE MatchInv'
  OBVIOUS
<1> DEFINE C == Candidates(ranked)
           cap == Capacity(Range(C))
<1>1. /\ candidates = <<>> /\ keep = {} /\ selected = {} /\ pc = "retrieve"
      /\ job \in [Jobs -> JobRows] /\ target \in Targets
      /\ ranked \in Rankings \union {<<>>}
  BY DEF MatchInv, TypeInv, RetrievedInv, RetrieveCandidates
<1>2. /\ candidates' = C /\ i' = 1 /\ w' = cap
      /\ dp' = [v \in 0 .. cap |-> IF v = 0 THEN 0 ELSE Unreached]
      /\ pc' = IF cap = 0 THEN "done" ELSE "fill"
      /\ UNCHANGED <<job, target, ranked, keep, selected>>
  BY DEF RetrieveCandidates
<1>3. C \in Seq(Jobs) /\ IsInjective(C) /\ Range(C) \in SUBSET Jobs
  BY <1>1, CandidateFacts DEF Range
<1>4. cap \in Nat
  BY <1>1, <1>3, CapacityFacts
<1>5. Earnings' = Earnings /\ Duration' = Duration
  BY <1>2 DEF Earnings, Duration
<1>6. C' = C
  <2>1. InQuery' = InQuery /\ Computable' = Computable
    BY <1>2 DEF InQuery, Computable
  <2> QED
    BY <1>2, <2>1 DEF Candidates, ByIds, FullScan
<1>7. Cap' = cap
  BY <1>2, <1>5 DEF Cap, Capacity, TotalEarnings
<1> HIDE DEF C, cap
<1>8. TypeInv'
  BY <1>1, <1>2, <1>3, <1>4, <1>7 DEF TypeInv
<1>9. RetrievedInv'
  BY <1>1, <1>2, <1>6 DEF RetrievedInv, C
<1>10. FillInv'
  <2> SUFFICES ASSUME pc' = "fill" PROVE FillInv'
    BY DEF FillInv
  <2>1. Front(C, 0) = {} /\ Len(C) \in Nat
    BY <1>3, FrontFacts
  <2>2. \A v \in 0 .. cap : dp'[v] = Shortest(Earnings, Duration, Front(C, 0), v)
    BY <1>2, <2>1, ShortestOfNone
  <2>3. ASSUME NEW v \in 0 .. cap
        PROVE  (IF v > w' /\ i' <= Len(candidates') THEN i' ELSE i' - 1) = 0
    BY <1>2, <1>4
  <2>4. TableIsOptimal'
    BY <1>2, <1>5, <2>2, <2>3 DEF TableIsOptimal
  <2>5. \A k \in 1 .. Len(C), v \in 0 .. cap : ~(k < i' \/ (k = i' /\ v > w'))
    BY <1>2, <1>4
  <2> QED
    BY <1>1, <1>2, <1>7, <2>1, <2>4, <2>5 DEF FillInv
<1>11. WalkInv'
  BY <1>2 DEF WalkInv
<1>12. DoneInv'
  <2> SUFFICES ASSUME pc' = "done" PROVE DoneInv'
    BY DEF DoneInv
  <2>1. cap = 0
    BY <1>2
  <2>2. ASSUME NEW S \in SUBSET Range(C), TotalEarnings(S) <= 0
        PROVE  /\ TotalEarnings(S) <= TotalEarnings({})
               /\ TotalDuration(S) >= TotalDuration({})
    <3>1. TotalEarnings({}) = 0 /\ TotalDuration({}) = 0
      BY SumEmpty DEF TotalEarnings, TotalDuration
    <3>2. TotalDuration(S) \in Nat
      BY <1>1, <1>3, TotalFacts
    <3> QED
      BY <2>2, <3>1, <3>2
  <2>3. TotalEarnings({}) <= 0
    BY SumEmpty DEF TotalEarnings
  <2> QED
    BY <1>1, <1>2, <1>5, <1>7, <2>1, <2>2, <2>3
    DEF DoneInv, TotalEarnings, TotalDuration
<1> QED
  BY <1>8, <1>9, <1>10, <1>11, <1>12 DEF MatchInv

\* Cell w now knows candidate i; the cells it was computed from do not yet.
LEMMA FillStep == MatchInv /\ FillCell => MatchInv'
<1> SUFFICES ASSUME MatchInv, FillCell PROVE MatchInv'
  OBVIOUS
<1> DEFINE e == Earnings[Cand]
           best(k, v) == Shortest(Earnings, Duration, Front(candidates, k), v)
<1>1. /\ TypeInv /\ RetrievedInv /\ FillInv
      /\ pc = "fill" /\ i <= Len(candidates) /\ w >= e
      /\ w' = w - 1
      /\ UNCHANGED <<job, target, pc, ranked, candidates, i, selected>>
  BY DEF MatchInv, FillCell
<1>2. IF Improves
      THEN /\ dp' = [dp EXCEPT ![w] = dp[w - e] + Duration[Cand]]
           /\ keep' = keep \union {<<i, w>>}
      ELSE dp' = dp /\ keep' = keep
  BY DEF FillCell, table
<1>3. /\ Earnings' = Earnings /\ Duration' = Duration /\ Cap' = Cap
      /\ Candidates(ranked)' = Candidates(ranked)
  BY <1>1, SameTable
<1>4. Cap \in Nat /\ Len(candidates) \in Nat /\ dp \in [0 .. Cap -> Nat \union {Unreached}]
  BY <1>1, StateFacts DEF TypeInv
<1>5. /\ i \in 1 .. Len(candidates) /\ w \in 0 .. Cap
      /\ Cand = candidates[i] /\ Duration[Cand] \in Nat
      /\ w - e \in 0 .. Cap
      /\ dp[w - e] = best(i - 1, w - e) /\ dp[w] = best(i - 1, w)
      /\ Improves <=> Improved(i, w)
  BY <1>1, ImprovesIs
<1>6. best(i, w) = IF Improved(i, w) THEN best(i - 1, w - e) + Duration[Cand]
                   ELSE best(i - 1, w)
  BY <1>1, <1>5, RowFacts
<1>7. Improves => dp[w - e] \in Nat
  BY <1>4, <1>5 DEF Improves
<1>8. /\ dp' \in [0 .. Cap -> Nat \union {Unreached}]
      /\ \A v \in 0 .. Cap : dp'[v] = IF v = w THEN best(i, w) ELSE dp[v]
  <2>1. CASE Improves
    <3>1. dp[w - e] + Duration[Cand] \in Nat
      BY <1>5, <1>7, <2>1
    <3> QED
      BY <1>2, <1>4, <1>5, <1>6, <2>1, <3>1
  <2>2. CASE ~Improves
    BY <1>2, <1>4, <1>5, <1>6, <2>2
  <2> QED
    BY <2>1, <2>2
<1>9. keep' = IF Improved(i, w) THEN keep \union {<<i, w>>} ELSE keep
  BY <1>2, <1>5
<1> HIDE DEF e, best
<1>10. TypeInv'
  <2>1. keep' \subseteq (1 .. Len(candidates)) \X (0 .. Cap)
    BY <1>1, <1>5, <1>9 DEF TypeInv
  <2>2. w' \in -1 .. Cap
    BY <1>1, <1>4, <1>5
  <2> QED
    BY <1>1, <1>3, <1>8, <2>1, <2>2 DEF TypeInv
<1>11. RetrievedInv'
  BY <1>1, <1>3 DEF RetrievedInv
<1>12. FillInv'
  <2>1. ASSUME NEW v \in 0 .. Cap
        PROVE  dp'[v] = best(IF v > w' THEN i ELSE i - 1, v)
    <3>1. TableIsOptimal
      BY <1>1 DEF FillInv
    <3>2. dp[v] = best(IF v > w THEN i ELSE i - 1, v)
      BY <1>1, <1>4, <3>1 DEF TableIsOptimal, best
    <3>3. CASE v = w
      <4>1. v > w'
        BY <1>1, <1>5, <3>3
      <4> QED
        BY <1>8, <3>3, <4>1
    <3>4. CASE v # w
      <4>1. v > w' <=> v > w
        BY <1>1, <1>5, <3>4
      <4> QED
        BY <1>8, <3>2, <3>4, <4>1
    <3> QED
      BY <3>3, <3>4
  <2>2. TableIsOptimal'
    <3>1. DOMAIN dp' = 0 .. Cap
      BY <1>8
    <3> QED
      BY <1>1, <1>3, <2>1, <3>1 DEF TableIsOptimal, best
  <2>3. ASSUME NEW k \in 1 .. Len(candidates), NEW v \in 0 .. Cap
        PROVE  <<k, v>> \in keep' <=>
                   (k < i' \/ (k = i' /\ v > w')) /\ Improved(k, v)
    <3>1. <<k, v>> \in keep <=> (k < i \/ (k = i /\ v > w)) /\ Improved(k, v)
      BY <1>1 DEF FillInv
    <3>2. CASE k = i /\ v = w
      <4>1. ~(k < i) /\ ~(v > w) /\ v > w'
        BY <1>1, <1>5, <3>2
      <4> QED
        BY <1>1, <1>9, <3>1, <3>2, <4>1
    <3>3. CASE ~(k = i /\ v = w)
      <4>1. <<k, v>> \in keep' <=> <<k, v>> \in keep
        BY <1>9, <3>3
      <4>2. k = i => (v > w' <=> v > w)
        BY <1>1, <1>5, <3>3
      <4> QED
        BY <1>1, <3>1, <4>1, <4>2
    <3> QED
      BY <3>2, <3>3
  <2>4. \A k, v : Improved(k, v)' <=> Improved(k, v)
    BY <1>1, <1>3 DEF Improved
  <2> QED
    BY <1>1, <1>3, <2>2, <2>3, <2>4 DEF FillInv
<1> QED
  BY <1>1, <1>10, <1>11, <1>12 DEF MatchInv, WalkInv, DoneInv

\* A candidate cannot improve a cell of less than it earns.
LEMMA NextStep == MatchInv /\ NextCandidate => MatchInv'
<1> SUFFICES ASSUME MatchInv, NextCandidate PROVE MatchInv'
  OBVIOUS
<1> DEFINE e == Earnings[Cand]
           best(k, v) == Shortest(Earnings, Duration, Front(candidates, k), v)
<1>1. /\ TypeInv /\ RetrievedInv /\ FillInv
      /\ pc = "fill" /\ i <= Len(candidates) /\ w < e
      /\ i' = i + 1 /\ w' = Top
      /\ UNCHANGED <<job, target, pc, ranked, candidates, dp, keep, selected>>
  BY DEF MatchInv, NextCandidate, table
<1>2. /\ Earnings' = Earnings /\ Duration' = Duration /\ Cap' = Cap
      /\ Candidates(ranked)' = Candidates(ranked)
  BY <1>1, SameTable
<1>3. /\ Cap \in Nat /\ Len(candidates) \in Nat /\ Top = Cap
      /\ DOMAIN dp = 0 .. Cap /\ w \in -1 .. Cap
  BY <1>1, StateFacts DEF TypeInv
<1>4. i \in 1 .. Len(candidates) /\ Cand = candidates[i] /\ e \in Nat
  <2>1. i \in 1 .. Len(candidates)
    BY <1>1, <1>3 DEF FillInv
  <2>2. Cand = candidates[i] /\ Cand \in Jobs
    BY <1>1, <2>1, StateFacts DEF Cand
  <2> QED
    BY <1>1, <2>1, <2>2, PayFacts DEF TypeInv
<1>5. ASSUME NEW v \in 0 .. Cap, ~(v > w) PROVE ~Improved(i, v)
  BY <1>1, <1>3, <1>4, <1>5 DEF Improved, Improving
<1>6. ASSUME NEW v \in 0 .. Cap PROVE dp[v] = best(i, v)
  <2>1. dp[v] = best(IF v > w THEN i ELSE i - 1, v)
    <3>1. TableIsOptimal
      BY <1>1 DEF FillInv
    <3> QED
      BY <1>1, <1>3, <3>1 DEF TableIsOptimal
  <2>2. ~(v > w) => best(i, v) = best(i - 1, v)
    BY <1>1, <1>4, <1>5, RowFacts
  <2> QED
    BY <2>1, <2>2
<1> HIDE DEF e, best
<1>7. TypeInv'
  BY <1>1, <1>2, <1>3, <1>4 DEF TypeInv
<1>8. RetrievedInv'
  BY <1>1, <1>2 DEF RetrievedInv
<1>9. FillInv'
  <2>1. ASSUME NEW v \in 0 .. Cap
        PROVE  /\ ~(v > w')
               /\ (IF v > w' /\ i' <= Len(candidates') THEN i' ELSE i' - 1) = i
    BY <1>1, <1>3, <1>4
  <2>2. TableIsOptimal'
    BY <1>1, <1>2, <1>3, <1>6, <2>1 DEF TableIsOptimal, best
  <2>3. ASSUME NEW k \in 1 .. Len(candidates), NEW v \in 0 .. Cap
        PROVE  <<k, v>> \in keep <=>
                   (k < i' \/ (k = i' /\ v > w')) /\ Improved(k, v)
    <3>1. <<k, v>> \in keep <=> (k < i \/ (k = i /\ v > w)) /\ Improved(k, v)
      BY <1>1 DEF FillInv
    <3>2. k < i' <=> k < i \/ k = i
      BY <1>1, <1>4
    <3> QED
      BY <1>5, <2>1, <3>1, <3>2
  <2>4. \A k, v : Improved(k, v)' <=> Improved(k, v)
    BY <1>1, <1>2 DEF Improved
  <2>5. i' \in 1 .. Len(candidates) + 1
    BY <1>1, <1>4
  <2>6. selected' = {}
    BY <1>1 DEF FillInv
  <2> QED
    BY <1>1, <1>2, <2>2, <2>3, <2>4, <2>5, <2>6 DEF FillInv
<1> QED
  BY <1>1, <1>7, <1>8, <1>9 DEF MatchInv, WalkInv, DoneInv

\* The table is complete; the empty set reaches cell 0, so there is a best.
LEMMA PickStep == MatchInv /\ PickBest => MatchInv'
<1> SUFFICES ASSUME MatchInv, PickBest PROVE MatchInv'
  OBVIOUS
<1> DEFINE C == Range(candidates)
           reached == {v \in DOMAIN dp : dp[v] # Unreached}
<1>1. /\ TypeInv /\ RetrievedInv /\ FillInv
      /\ pc = "fill" /\ i > Len(candidates)
      /\ w' = Best /\ i' = Len(candidates) /\ pc' = "walk"
      /\ UNCHANGED <<job, target, ranked, candidates, dp, keep, selected>>
  BY DEF MatchInv, PickBest, table, Best
<1>2. /\ Earnings' = Earnings /\ Duration' = Duration /\ Cap' = Cap
      /\ Candidates(ranked)' = Candidates(ranked)
  BY <1>1, SameTable
<1>3. /\ Cap \in Nat /\ Len(candidates) \in Nat /\ C \in SUBSET Jobs
      /\ DOMAIN dp = 0 .. Cap
  BY <1>1, StateFacts DEF TypeInv
<1>4. i = Len(candidates) + 1 /\ selected = {} /\ TableIsOptimal
  BY <1>1, <1>3 DEF FillInv
<1>5. Front(candidates, Len(candidates)) = C
  BY <1>1, FrontFacts DEF TypeInv
<1>6. \A v \in 0 .. Cap : dp[v] = Shortest(Earnings, Duration, C, v)
  <2>1. i - 1 = Len(candidates) /\ ~(i <= Len(candidates))
    BY <1>3, <1>4
  <2> QED
    BY <1>1, <1>3, <1>4, <1>5, <2>1 DEF TableIsOptimal
<1>7. \A k \in 1 .. Len(candidates), v \in 0 .. Cap :
          <<k, v>> \in keep <=> Improved(k, v)
  <2>1. \A k \in 1 .. Len(candidates) : k < i
    BY <1>3, <1>4
  <2> QED
    BY <1>1, <2>1 DEF FillInv
<1>8. TotalEarnings({}) = 0 /\ TotalDuration({}) = 0
  BY SumEmpty DEF TotalEarnings, TotalDuration
<1>9. Best \in reached
  <2>1. dp[0] \in Nat
    <3>1. \E S \in SUBSET C : Sum(Earnings, S) = 0
      BY <1>8 DEF TotalEarnings
    <3>2. Shortest(Earnings, Duration, C, 0) \in Nat
      BY <1>1, <1>3, <3>1, TotalFacts, ShortestIs DEF TypeInv
    <3> QED
      BY <1>3, <1>6, <3>2
  <2>2. 0 \in reached
    BY <1>3, <2>1 DEF Unreached
  <2>3. reached \in SUBSET Nat /\ \A v \in reached : v <= Cap
    BY <1>3
  <2>4. Best = Max(reached)
    BY DEF Best
  <2> HIDE DEF reached
  <2> QED
    BY <1>3, <2>2, <2>3, <2>4, MaxIs
<1>10. /\ Best \in 0 .. Cap /\ dp[Best] # Unreached
       /\ dp[Best] = Shortest(Earnings, Duration, C, Best)
       /\ Best \in Nat /\ dp[Best] \in Nat
  BY <1>1, <1>3, <1>6, <1>9 DEF TypeInv
<1> HIDE DEF C
<1>11. TypeInv'
  BY <1>1, <1>2, <1>3, <1>10 DEF TypeInv
<1>12. RetrievedInv'
  BY <1>1, <1>2 DEF RetrievedInv
<1>13. WalkInv'
  <2>1. Best' = Best
    BY <1>1 DEF Best
  <2>2. \A k, v : Improved(k, v)' <=> Improved(k, v)
    BY <1>1, <1>2 DEF Improved
  <2>3. /\ TotalEarnings(selected)' + w' = Best
        /\ TotalDuration(selected)' + dp[Best] = dp[Best]
    BY <1>1, <1>2, <1>4, <1>8, <1>10 DEF TotalEarnings, TotalDuration
  <2>4. i' \in 0 .. Len(candidates) /\ w' \in 0 .. Cap
    BY <1>1, <1>3, <1>10
  <2>5. selected' \intersect Front(candidates, Len(candidates)) = {}
    BY <1>1, <1>4
  <2>6. LET rest == Shortest(Earnings, Duration, Front(candidates, i'), w')
        IN  rest # Unreached /\ TotalDuration(selected)' + rest = dp[Best]
    BY <1>1, <1>5, <1>10, <2>3
  <2>7. (LET rest == Shortest(Earnings, Duration, Front(candidates, i), w)
         IN  rest # Unreached /\ TotalDuration(selected) + rest = dp[Best])'
    BY <1>1, <1>2, <2>1, <2>6
  <2> QED
    BY <1>1, <1>2, <1>6, <1>7, <2>1, <2>2, <2>3, <2>4, <2>5, <2>7 DEF WalkInv, C
<1> QED
  BY <1>1, <1>11, <1>12, <1>13 DEF MatchInv, FillInv, DoneInv

\* A candidate that improved the cell is in a shortest set for it; the rest of
\* that set is a shortest one for what remains.
LEMMA WalkStep == MatchInv /\ WalkBack => MatchInv'
<1> SUFFICES ASSUME MatchInv, WalkBack PROVE MatchInv'
  OBVIOUS
<1> DEFINE e == Earnings[Cand]
           best(k, v) == Shortest(Earnings, Duration, Front(candidates, k), v)
<1>1. /\ TypeInv /\ RetrievedInv /\ WalkInv
      /\ pc = "walk" /\ i > 0 /\ i' = i - 1
      /\ IF <<i, w>> \in keep
         THEN selected' = selected \union {Cand} /\ w' = w - e
         ELSE selected' = selected /\ w' = w
      /\ UNCHANGED <<job, target, pc, ranked, candidates, dp, keep>>
  BY DEF MatchInv, WalkBack, table
<1>2. /\ Earnings' = Earnings /\ Duration' = Duration /\ Cap' = Cap
      /\ Candidates(ranked)' = Candidates(ranked)
  BY <1>1, SameTable
<1>3. Cap \in Nat /\ Len(candidates) \in Nat
  BY <1>1, StateFacts DEF TypeInv
<1>4. /\ i \in 0 .. Len(candidates) /\ w \in 0 .. Cap
      /\ \A k \in 1 .. Len(candidates), v \in 0 .. Cap :
            <<k, v>> \in keep <=> Improved(k, v)
      /\ selected \intersect Front(candidates, i) = {}
      /\ TotalEarnings(selected) + w = Best
      /\ best(i, w) # Unreached /\ TotalDuration(selected) + best(i, w) = dp[Best]
  BY <1>1 DEF WalkInv
<1>5. i \in 1 .. Len(candidates) /\ i - 1 \in 0 .. Len(candidates)
  BY <1>1, <1>3, <1>4
<1>6. /\ Cand = candidates[i] /\ Cand \in Range(candidates)
      /\ Cand \notin Front(candidates, i - 1)
      /\ Front(candidates, i) = Front(candidates, i - 1) \union {Cand}
      /\ Front(candidates, i - 1) \in SUBSET Jobs
      /\ selected \in SUBSET Jobs /\ Cand \in Jobs
  BY <1>1, <1>5, StateFacts DEF Cand, TypeInv
<1>7. e \in Nat /\ Duration[Cand] \in Nat
  BY <1>1, <1>6, PayFacts DEF TypeInv
<1>8. <<i, w>> \in keep <=> Improved(i, w)
  BY <1>4, <1>5
<1>9. \A v : best(i - 1, v) \in Nat \union {Unreached}
  BY <1>1, <1>6, TotalFacts, ShortestType DEF TypeInv
<1>10. /\ w' \in 0 .. Cap
       /\ selected' \subseteq Range(candidates)
       /\ selected' \intersect Front(candidates, i - 1) = {}
       /\ TotalEarnings(selected') + w' = Best
       /\ best(i - 1, w') # Unreached
       /\ TotalDuration(selected') + best(i - 1, w') = dp[Best]
  <2>1. CASE Improved(i, w)
    <3>1. e <= w /\ best(i - 1, w - e) # Unreached
      BY <1>6, <2>1 DEF Improved, Improving
    <3>2. best(i, w) = best(i - 1, w - e) + Duration[Cand]
      BY <1>1, <1>4, <1>5, <1>6, <2>1, RowFacts
    <3>3. w' = w - e /\ selected' = selected \union {Cand}
      BY <1>1, <1>8, <2>1
    <3>4. Cand \notin selected /\ IsFiniteSet(selected)
      BY <1>1, <1>4, <1>6, TotalFacts DEF TypeInv
    <3>5. selected' \in SUBSET Jobs
      BY <1>6, <3>3
    <3>6. \A x \in selected \union {Cand} : Earnings[x] \in Nat /\ Duration[x] \in Nat
      BY <1>1, <3>3, <3>5, TotalFacts DEF TypeInv
    <3>7. /\ TotalEarnings(selected') = e + TotalEarnings(selected)
          /\ TotalDuration(selected') = Duration[Cand] + TotalDuration(selected)
      BY <3>3, <3>4, <3>6, SumAdd DEF TotalEarnings, TotalDuration
    <3>8. TotalEarnings(selected) \in Nat /\ TotalDuration(selected) \in Nat
      BY <1>1, <1>6, TotalFacts DEF TypeInv
    <3>9. best(i - 1, w - e) \in Nat
      BY <1>9, <3>1
    <3> HIDE DEF e, best
    <3>10. /\ w' \in 0 .. Cap
           /\ TotalEarnings(selected') + w' = Best
           /\ TotalDuration(selected') + best(i - 1, w') = dp[Best]
      BY <1>3, <1>4, <1>7, <3>1, <3>2, <3>3, <3>7, <3>8, <3>9
    <3> QED
      BY <1>1, <1>4, <1>6, <3>1, <3>3, <3>10 DEF TypeInv
  <2>2. CASE ~Improved(i, w)
    <3>1. best(i, w) = best(i - 1, w)
      BY <1>1, <1>4, <1>5, <1>6, <2>2, RowFacts
    <3>2. w' = w /\ selected' = selected
      BY <1>1, <1>8, <2>2
    <3> HIDE DEF best
    <3> QED
      BY <1>1, <1>4, <1>6, <3>1, <3>2 DEF TypeInv
  <2> QED
    BY <2>1, <2>2
<1> HIDE DEF e
<1>11. TypeInv'
  BY <1>1, <1>2, <1>3, <1>5, <1>10 DEF TypeInv
<1>12. RetrievedInv'
  BY <1>1, <1>2 DEF RetrievedInv
<1>13. WalkInv'
  <2>1. Best' = Best
    BY <1>1 DEF Best
  <2>2. \A k, v : Improved(k, v)' <=> Improved(k, v)
    BY <1>1, <1>2 DEF Improved
  <2>3. /\ TotalEarnings(selected)' = TotalEarnings(selected')
        /\ TotalDuration(selected)' = TotalDuration(selected')
    BY <1>2 DEF TotalEarnings, TotalDuration
  <2>4. \A v \in 0 .. Cap : dp'[v] =
            Shortest(Earnings', Duration', Range(candidates'), v)
    BY <1>1, <1>2 DEF WalkInv
  <2>5. (LET rest == Shortest(Earnings, Duration, Front(candidates, i), w)
         IN  rest # Unreached /\ TotalDuration(selected) + rest = dp[Best])'
    BY <1>1, <1>2, <1>10, <2>1, <2>3
  <2> HIDE DEF best
  <2> QED
    BY <1>1, <1>2, <1>4, <1>5, <1>10, <2>1, <2>2, <2>3, <2>4, <2>5 DEF WalkInv
<1> QED
  BY <1>1, <1>11, <1>12, <1>13 DEF MatchInv, FillInv, DoneInv

\* With no candidate left only the empty set remains: what is selected is the
\* best cell, and no set in the table earns more or as much in less time.
LEMMA ReturnStep == MatchInv /\ ReturnResult => MatchInv'
<1> SUFFICES ASSUME MatchInv, ReturnResult PROVE MatchInv'
  OBVIOUS
<1> DEFINE C == Range(candidates)
           reached == {v \in DOMAIN dp : dp[v] # Unreached}
<1>1. /\ TypeInv /\ RetrievedInv /\ WalkInv
      /\ pc = "walk" /\ i = 0 /\ pc' = "done"
      /\ UNCHANGED <<job, target, ranked, candidates, i, w, dp, keep, selected>>
  BY DEF MatchInv, ReturnResult, table
<1>2. /\ Earnings' = Earnings /\ Duration' = Duration /\ Cap' = Cap
      /\ Candidates(ranked)' = Candidates(ranked)
  BY <1>1, SameTable
<1>3. /\ Cap \in Nat /\ C \in SUBSET Jobs /\ DOMAIN dp = 0 .. Cap
      /\ selected \in SUBSET Jobs
  BY <1>1, StateFacts DEF TypeInv
<1>4. Front(candidates, 0) = {}
  BY <1>1, FrontFacts DEF TypeInv
<1>5. /\ w \in 0 .. Cap
      /\ \A v \in 0 .. Cap : dp[v] = Shortest(Earnings, Duration, C, v)
      /\ TotalEarnings(selected) + w = Best
      /\ Shortest(Earnings, Duration, {}, w) # Unreached
      /\ TotalDuration(selected) + Shortest(Earnings, Duration, {}, w) = dp[Best]
  BY <1>1, <1>4 DEF WalkInv
<1>6. w = 0 /\ Shortest(Earnings, Duration, {}, w) = 0
  BY <1>5, ShortestOfNone
<1>7. TotalEarnings(selected) \in Nat /\ TotalDuration(selected) \in Nat
  BY <1>1, <1>3, TotalFacts DEF TypeInv
<1>8. TotalEarnings(selected) = Best /\ TotalDuration(selected) = dp[Best]
  <2> HIDE DEF C
  <2> QED
    BY <1>5, <1>6, <1>7
<1>9. ASSUME NEW S \in SUBSET C, TotalEarnings(S) <= Cap
      PROVE  /\ TotalEarnings(S) <= TotalEarnings(selected)
             /\ TotalEarnings(S) = TotalEarnings(selected) =>
                    TotalDuration(S) >= TotalDuration(selected)
  <2> DEFINE v == TotalEarnings(S)
  <2>1. v \in 0 .. Cap /\ TotalDuration(S) \in Nat
    BY <1>1, <1>3, <1>9, TotalFacts DEF TypeInv
  <2>2. Sum(Earnings, S) = v
    BY DEF TotalEarnings
  <2>3. /\ Shortest(Earnings, Duration, C, v) \in Nat
        /\ IsShortest(Earnings, Duration, C, v, Shortest(Earnings, Duration, C, v))
    BY <1>1, <1>3, <2>2, TotalFacts, ShortestIs DEF TypeInv
  <2>4. dp[v] \in Nat /\ dp[v] <= TotalDuration(S)
    BY <1>5, <2>1, <2>2, <2>3 DEF IsShortest, TotalDuration
  <2> HIDE DEF v
  <2>5. v \in reached
    BY <1>3, <2>1, <2>4 DEF Unreached
  <2>6. reached \in SUBSET Nat /\ \A u \in reached : u <= Cap
    BY <1>3
  <2>7. Best = Max(reached)
    BY DEF Best
  <2> HIDE DEF reached
  <2>8. v <= Best
    BY <1>3, <2>5, <2>6, <2>7, MaxIs
  <2> QED
    BY <1>7, <1>8, <2>1, <2>4, <2>8 DEF v
<1>13. TotalEarnings(selected) <= Cap
  <2>1. \E S \in SUBSET C : Sum(Earnings, S) = 0
    <3>1. {} \in SUBSET C /\ Sum(Earnings, {}) = 0
      BY SumEmpty
    <3> QED
      BY <3>1
  <2>2. /\ Shortest(Earnings, Duration, C, 0) \in Nat
        /\ dp[0] = Shortest(Earnings, Duration, C, 0)
    <3>1. Shortest(Earnings, Duration, C, 0) \in Nat
      BY <1>1, <1>3, <2>1, TotalFacts, ShortestIs DEF TypeInv
    <3> QED
      BY <1>3, <1>5, <3>1
  <2>3. 0 \in reached /\ reached \in SUBSET Nat /\ \A u \in reached : u <= Cap
    BY <1>3, <2>2 DEF Unreached
  <2> HIDE DEF reached
  <2>4. Max(reached) \in reached
    BY <1>3, <2>3, MaxIs
  <2> QED
    BY <1>8, <2>3, <2>4 DEF Best, reached
<1> HIDE DEF C
<1>10. TypeInv'
  BY <1>1, <1>2 DEF TypeInv
<1>11. RetrievedInv'
  BY <1>1, <1>2 DEF RetrievedInv
<1>12. DoneInv'
  BY <1>1, <1>2, <1>9, <1>13 DEF DoneInv, TotalEarnings, TotalDuration, C
<1> QED
  BY <1>1, <1>10, <1>11, <1>12 DEF MatchInv, FillInv, WalkInv

LEMMA InitInv == Init => MatchInv
<1> SUFFICES ASSUME Init PROVE MatchInv
  OBVIOUS
<1>1. Cap = 0
  BY DEF Init, Cap
<1>2. <<>> \in Seq(Jobs) /\ IsInjective(<<>>) /\ Len(<<>>) = 0
  BY DEF IsInjective
<1>3. dp \in [0 .. Cap -> Nat \union {Unreached}]
  <2>1. {0} = 0 .. 0
    OBVIOUS
  <2> QED
    BY <1>1, <2>1 DEF Init
<1>4. TypeInv
  BY <1>1, <1>2, <1>3 DEF Init, TypeInv
<1> QED
  BY <1>4 DEF Init, MatchInv, RetrievedInv, FillInv, WalkInv, DoneInv

LEMMA StutterStep == MatchInv /\ UNCHANGED vars => MatchInv'
<1> SUFFICES ASSUME MatchInv, UNCHANGED vars PROVE MatchInv'
  OBVIOUS
<1>1. Earnings' = Earnings /\ Duration' = Duration /\ InQuery' = InQuery
      /\ Computable' = Computable
  BY DEF vars, Earnings, Duration, InQuery, Computable
<1>2. Cap' = Cap /\ Candidates(ranked)' = Candidates(ranked) /\ Best' = Best
  BY <1>1 DEF vars, Cap, Capacity, TotalEarnings, Candidates, ByIds, FullScan, Best
<1>3. TypeInv' /\ RetrievedInv'
  BY <1>2 DEF MatchInv, vars, TypeInv, RetrievedInv
<1>4. \A k, v : Improved(k, v)' <=> Improved(k, v)
  BY <1>1 DEF vars, Improved
<1>5. FillInv'
  BY <1>1, <1>2, <1>4 DEF MatchInv, vars, FillInv, TableIsOptimal
<1>6. WalkInv'
  BY <1>1, <1>2, <1>4 DEF MatchInv, vars, WalkInv, TotalEarnings, TotalDuration
<1>7. DoneInv'
  BY <1>1, <1>2 DEF MatchInv, vars, DoneInv, TotalEarnings, TotalDuration
<1> QED
  BY <1>3, <1>5, <1>6, <1>7 DEF MatchInv

\* Every reachable state of match satisfies the inductive invariant.
THEOREM MatchInvariant == Spec => []MatchInv
<1>1. MatchInv /\ [Next]_vars => MatchInv'
  BY SearchStep, RetrieveStep, FillStep, NextStep, PickStep, WalkStep,
     ReturnStep, StutterStep DEF Next
<1> QED
  BY <1>1, InitInv, PTL DEF Spec

----------------------------------------------------------------------------
(* What it implies                                                         *)

\* Every variable of match keeps its type, and _dp_select never indexes outside
\* its table, its list of candidates or its keep matrix, whatever the jobs pay.
THEOREM TypeInvariant == Spec => []TypeOK
<1>1. MatchInv => TypeOK
  <2> SUFFICES ASSUME MatchInv PROVE TypeOK
    OBVIOUS
  <2>1. Top = Cap /\ Range(candidates) \in SUBSET Jobs
    BY StateFacts DEF MatchInv
  <2>2. DOMAIN candidates = 1 .. Len(candidates) /\ DOMAIN dp = 0 .. Cap
    BY DEF MatchInv, TypeInv
  <2> QED
    BY <2>1, <2>2 DEF MatchInv, TypeInv, TypeOK
<1> QED
  BY <1>1, MatchInvariant, PTL

\* Whichever cell the two loops of _dp_select have reached, each cell holds the
\* shortest duration of a set of the candidates it knows that earns exactly its
\* amount: updating the row in place, from above, counts no job twice.
THEOREM TableInvariant == Spec => []TableIsOptimal
<1>1. MatchInv => TableIsOptimal
  BY DEF MatchInv, FillInv, TableIsOptimal
<1> QED
  BY <1>1, MatchInvariant, PTL

\* The bound on the table (the goal and the best-paid candidate) hides no
\* solution: if any set of candidates reaches the goal, the jobs returned do.
LEMMA PartialIfUnreachable == MatchInv => PartialOnlyIfUnreachable
<1> SUFFICES ASSUME MatchInv, pc = "done", TotalEarnings(selected) < target,
                    ~(TotalEarnings(Range(candidates)) < target)
             PROVE  FALSE
  BY DEF PartialOnlyIfUnreachable, is_partial
<1> DEFINE C == Range(candidates)
<1>1. /\ TypeInv /\ DoneInv /\ Cap = Capacity(C)
      /\ C \in SUBSET Jobs /\ selected \in SUBSET C
      /\ job \in [Jobs -> JobRows] /\ target \in Targets /\ target \in Nat
  BY StateFacts, MatchingAssumption DEF MatchInv, TypeInv, Cap
<1>2. /\ IsFiniteSet(C) /\ \A x \in C : Earnings[x] \in Nat
      /\ \A S \in SUBSET C : /\ TotalEarnings(S) \in Nat
                             /\ TotalEarnings(S) <= TotalEarnings(C)
  BY <1>1, TotalFacts
<1>3. C # {}
  BY <1>1
<1>4. PICK m \in Nat : /\ \A x \in C : Earnings[x] <= m
                       /\ Cap \in {TotalEarnings(C), target + m}
  BY <1>1, <1>3, CapacityFacts
<1>5. target <= Sum(Earnings, C)
  BY <1>1, <1>2 DEF TotalEarnings
<1>6. PICK S \in SUBSET C :
          target <= Sum(Earnings, S) /\ Sum(Earnings, S) <= target + m
  <2> HIDE DEF C
  <2> QED
    BY <1>1, <1>2, <1>4, <1>5, JustEnough
<1>7. TotalEarnings(S) \in Nat /\ target <= TotalEarnings(S) /\ TotalEarnings(S) <= Cap
  BY <1>1, <1>2, <1>4, <1>6 DEF TotalEarnings
<1>8. TotalEarnings(S) <= TotalEarnings(selected)
  BY <1>1, <1>7 DEF DoneInv
<1> QED
  BY <1>1, <1>2, <1>7, <1>8

\* No set of candidates earns the same in less time; a selection that falls
\* short of the goal earns the most there is.
THEOREM SelectionInvariant == Spec => []SelectionIsShortest
<1>1. MatchInv => SelectionIsShortest
  <2> SUFFICES ASSUME MatchInv, pc = "done", NEW S \in SUBSET Range(candidates)
               PROVE  /\ is_partial => TotalEarnings(S) <= TotalEarnings(selected)
                      /\ TotalEarnings(S) = TotalEarnings(selected) =>
                             TotalDuration(S) >= TotalDuration(selected)
    BY DEF SelectionIsShortest
  <2>1. TotalEarnings(S) <= Cap =>
          /\ TotalEarnings(S) <= TotalEarnings(selected)
          /\ TotalEarnings(S) = TotalEarnings(selected) =>
                 TotalDuration(S) >= TotalDuration(selected)
    BY DEF MatchInv, DoneInv
  <2>2. TotalEarnings(selected) <= Cap
    BY DEF MatchInv, DoneInv
  <2>3. ASSUME is_partial PROVE TotalEarnings(S) <= Cap
    <3> DEFINE C == Range(candidates)
    <3>1. TotalEarnings(C) < target
      BY <2>3, PartialIfUnreachable DEF PartialOnlyIfUnreachable
    <3>2. /\ TypeInv /\ Cap = Capacity(C) /\ C \in SUBSET Jobs
          /\ job \in [Jobs -> JobRows] /\ target \in Targets /\ target \in Nat
      BY StateFacts, MatchingAssumption DEF MatchInv, TypeInv, Cap
    <3>3. /\ TotalEarnings(S) \in Nat /\ TotalEarnings(C) \in Nat
          /\ TotalEarnings(S) <= TotalEarnings(C)
      BY <3>2, TotalFacts
    <3>4. CASE C = {}
      <4>1. S = {} /\ TotalEarnings({}) = 0 /\ Cap \in Nat
        BY <3>2, <3>4, SumEmpty, StateFacts DEF TotalEarnings
      <4> QED
        BY <4>1
    <3>5. CASE C # {}
      <4>1. PICK m \in Nat : Cap \in {TotalEarnings(C), target + m}
        BY <3>2, <3>5, CapacityFacts
      <4> HIDE DEF C
      <4> QED
        BY <3>1, <3>2, <3>3, <4>1
    <3> QED
      BY <3>4, <3>5
  <2> QED
    BY <2>1, <2>2, <2>3
<1> QED
  BY <1>1, MatchInvariant, PTL

\* A worker reads "best available" only if no choice of the candidates reaches
\* the goal of the work goal.
THEOREM PartialInvariant == Spec => []PartialOnlyIfUnreachable
  BY PartialIfUnreachable, MatchInvariant, PTL

\* A search that failed, timed out or found too few hides no job: the worker
\* reads "best available" only if all jobs that qualify together fall short.
THEOREM ThinSearchInvariant == Spec => []ThinSearchFallsBack
<1>1. MatchInv => ThinSearchFallsBack
  <2> SUFFICES ASSUME MatchInv, pc = "done", is_partial,
                      Len(ByIds(ranked)) < SemanticMin,
                      Cardinality(InQuery) <= MaxCandidates
               PROVE  TotalEarnings(InQuery \intersect Computable) < target
    BY DEF ThinSearchFallsBack
  <2>1. ranked \in Rankings \union {<<>>} /\ candidates = Candidates(ranked)
    BY DEF MatchInv, TypeInv, RetrievedInv
  <2>2. Range(candidates) = InQuery \intersect Computable
    BY <2>1, CandidateFacts
  <2> QED
    BY <2>2, PartialIfUnreachable DEF PartialOnlyIfUnreachable
<1> QED
  BY <1>1, MatchInvariant, PTL
=============================================================================
