------------------------------ MODULE Matching ------------------------------
(***************************************************************************)
(* MatchService.match: retrieve the jobs a worker may do (by semantic      *)
(* search, or all of them when the search fails or finds too few), compute *)
(* what each pays, and choose by a 0/1 knapsack table the jobs to offer    *)
(* for the worker's earnings goal.                                         *)
(*                                                                         *)
(* The table is filled cell by cell, in the order of the code's two loops, *)
(* and the choice read back from it.  Rates and targets are in cents,      *)
(* durations in half hours; 0 stands for a NULL rate or duration, which    *)
(* CHECK constraints keep positive otherwise.                              *)
(***************************************************************************)
EXTENDS Knapsack

CONSTANTS
    NJobs,         \* rows of table job, numbered in the order of a scan
    JobRows,       \* contents a row may have
    Targets,       \* values of work_goal.target_earnings
    Rankings,      \* results the semantic search may return, best first
    SemanticMin,   \* SEMANTIC_MIN_CANDIDATES
    MaxCandidates  \* MAX_CANDIDATES

PayType == {"hourly", "flat", "unknown"}

Jobs == 1 .. NJobs

ASSUME MatchingAssumption ==
    /\ NJobs \in Nat
    /\ JobRows \subseteq [pay_type : PayType, rate : Nat, duration : Nat,
                          eligible : BOOLEAN]
    /\ Targets \subseteq Nat
    /\ Rankings \subseteq Seq(Jobs)
    /\ \A ids \in Rankings : IsInjective(ids)  \* a vector per job
    /\ SemanticMin \in Nat \ {0}
    /\ MaxCandidates \in Nat \ {0}

VARIABLES
    job,         \* table job; eligible: available, and in time for the goal
    target,      \* work_goal.target_earnings
    pc,          \* where match stands
    ranked,      \* ids the search returned, empty when it failed
    candidates,  \* the jobs chosen from
    i, w,        \* loop variables of _dp_select
    dp,          \* shortest duration of a set of jobs earning exactly w
    keep,        \* cells <<i, w>> that candidate i improved
    selected     \* the jobs offered

vars == <<job, target, pc, ranked, candidates, i, w, dp, keep, selected>>

table == <<dp, keep>>

----------------------------------------------------------------------------
(* Pay terms                                                               *)

\* int(round(x / 2)): Python rounds halves to the even neighbour.
RoundHalf(x) == IF x % 4 = 3 THEN x \div 2 + 1 ELSE x \div 2

Computable ==
    {j \in Jobs :
        /\ job[j].pay_type # "unknown"
        /\ job[j].rate # 0
        /\ job[j].pay_type = "hourly" => job[j].duration # 0}

Earnings == [j \in Jobs |-> IF job[j].pay_type = "hourly"
                           THEN RoundHalf(job[j].rate * job[j].duration)
                           ELSE job[j].rate]

Duration == [j \in Jobs |-> job[j].duration]

\* The WHERE clauses of the candidate queries.
InQuery == {j \in Jobs : job[j].eligible /\ job[j].pay_type # "unknown"}

----------------------------------------------------------------------------
(* Retrieval                                                               *)

\* The database applies LIMIT before the code drops incomputable jobs.
FullScan ==
    Selected(FirstOf(Selected([j \in Jobs |-> j], InQuery), MaxCandidates),
             Computable)

ByIds(ids) == Selected(ids, InQuery \intersect Computable)

\* (Bug variant: any hit of the search is enough.)
CandidatesOfAnyHit(ids) == IF ByIds(ids) # <<>> THEN ByIds(ids) ELSE FullScan

Candidates(ids) == IF Len(ByIds(ids)) >= SemanticMin THEN ByIds(ids) ELSE FullScan

----------------------------------------------------------------------------
(* The knapsack table                                                      *)

TotalEarnings(S) == Sum(Earnings, S)
TotalDuration(S) == Sum(Duration, S)

\* (Bug variant: the table ends at the goal.)
CapacityToTarget(C) == Min({TotalEarnings(C), target})

\* Sets that overshoot the goal by more than one job have no cell.
Capacity(C) == IF C = {} THEN 0
               ELSE Min({TotalEarnings(C), target + Max({Earnings[j] : j \in C})})

Top == Max(DOMAIN dp)

Cand == candidates[i]

\* (Bug variant: the comparison ignores the duration of the set it extends.)
ImprovesByCandidate ==
    LET rest == dp[w - Earnings[Cand]] IN
    /\ rest # Unreached
    /\ dp[w] = Unreached \/ Duration[Cand] < dp[w]

\* dp[w - e] exists and extends to a set for w that is new or shorter.
Improves ==
    LET rest == dp[w - Earnings[Cand]] IN
    /\ rest # Unreached
    /\ dp[w] = Unreached \/ rest + Duration[Cand] < dp[w]

----------------------------------------------------------------------------
(* Bug variants of actions below: small mistakes this code could have made. *)
(* No specification uses them; each is known to break a property.          *)

\* The loop over a row starts one above the table.
NextCandidateAbove ==
    /\ pc = "fill" /\ i <= Len(candidates)
    /\ w < Earnings[Cand]
    /\ i' = i + 1
    /\ w' = Top + 1
    /\ UNCHANGED <<job, target, pc, ranked, candidates, table, selected>>

\* The walk tests the cell of the total, not of what remains.
WalkBackStaying ==
    /\ pc = "walk" /\ i > 0
    /\ selected' = IF <<i, w>> \in keep THEN selected \union {Cand} ELSE selected
    /\ i' = i - 1
    /\ UNCHANGED <<job, target, pc, ranked, candidates, w, table>>

----------------------------------------------------------------------------
Init ==
    /\ job \in [Jobs -> JobRows]
    /\ target \in Targets
    /\ pc = "search"
    /\ ranked = <<>>
    /\ candidates = <<>>
    /\ i = 0 /\ w = 0
    /\ dp = [v \in {0} |-> 0]
    /\ keep = {}
    /\ selected = {}

\* No searcher, no text, an error or a timeout: no ids.
SemanticSearch ==
    /\ pc = "search"
    /\ ranked' \in Rankings \union {<<>>}
    /\ pc' = "retrieve"
    /\ UNCHANGED <<job, target, candidates, i, w, table, selected>>

\* Without candidates, or with candidates that all pay nothing, the table is
\* not even built.
RetrieveCandidates ==
    /\ pc = "retrieve"
    /\ LET C == Candidates(ranked)
           cap == Capacity(Range(C))
       IN /\ candidates' = C
          /\ dp' = [v \in 0 .. cap |-> IF v = 0 THEN 0 ELSE Unreached]
          /\ i' = 1
          /\ w' = cap
          /\ pc' = IF cap = 0 THEN "done" ELSE "fill"
    /\ UNCHANGED <<job, target, ranked, keep, selected>>

\* The body of the inner loop; w goes down to the candidate's earnings.
FillCell ==
    /\ pc = "fill" /\ i <= Len(candidates)
    /\ w >= Earnings[Cand]
    /\ IF Improves
       THEN /\ dp' = [dp EXCEPT ![w] = dp[w - Earnings[Cand]] + Duration[Cand]]
            /\ keep' = keep \union {<<i, w>>}
       ELSE UNCHANGED table
    /\ w' = w - 1
    /\ UNCHANGED <<job, target, pc, ranked, candidates, i, selected>>

NextCandidate ==
    /\ pc = "fill" /\ i <= Len(candidates)
    /\ w < Earnings[Cand]
    /\ i' = i + 1
    /\ w' = Top
    /\ UNCHANGED <<job, target, pc, ranked, candidates, table, selected>>

\* The best cell: a pair (w, -duration), so the one that earns most.
PickBest ==
    /\ pc = "fill" /\ i > Len(candidates)
    /\ w' = Max({v \in DOMAIN dp : dp[v] # Unreached})
    /\ i' = Len(candidates)
    /\ pc' = "walk"
    /\ UNCHANGED <<job, target, ranked, candidates, table, selected>>

WalkBack ==
    /\ pc = "walk" /\ i > 0
    /\ IF <<i, w>> \in keep
       THEN /\ selected' = selected \union {Cand}
            /\ w' = w - Earnings[Cand]
       ELSE UNCHANGED <<selected, w>>
    /\ i' = i - 1
    /\ UNCHANGED <<job, target, pc, ranked, candidates, table>>

ReturnResult ==
    /\ pc = "walk" /\ i = 0
    /\ pc' = "done"
    /\ UNCHANGED <<job, target, ranked, candidates, i, w, table, selected>>

Next ==
    \/ SemanticSearch
    \/ RetrieveCandidates
    \/ FillCell
    \/ NextCandidate
    \/ PickBest
    \/ WalkBack
    \/ ReturnResult
    \/ pc = "done" /\ UNCHANGED vars

Spec == Init /\ [][Next]_vars

is_partial == TotalEarnings(selected) < target

----------------------------------------------------------------------------
(* Invariants                                                              *)

\* Every variable has its type, and indices stay inside their lists.
TypeOK ==
    /\ job \in [Jobs -> JobRows]
    /\ target \in Targets
    /\ pc \in {"search", "retrieve", "fill", "walk", "done"}
    /\ ranked \in Rankings \union {<<>>}
    /\ Range(candidates) \subseteq Jobs
    /\ i \in 0 .. Len(candidates) + 1
    /\ w \in -1 .. Top
    /\ \A v \in DOMAIN dp : dp[v] \in Nat \union {Unreached}
    /\ keep \subseteq (DOMAIN candidates) \X (DOMAIN dp)
    /\ selected \subseteq Range(candidates)

\* Loop invariant of _dp_select: cells above w know the first i candidates,
\* cells from w down know the first i - 1; no job is counted twice.
TableIsOptimal ==
    pc = "fill" => \A v \in DOMAIN dp :
        dp[v] = Shortest(Earnings, Duration,
                         Front(candidates, IF v > w /\ i <= Len(candidates)
                                           THEN i ELSE i - 1), v)

\* What the walk reads back is the cell it started from: no set of candidates
\* earns exactly what the jobs offered do in less time and, while the goal is
\* out of reach, none earns more.
SelectionIsShortest ==
    pc = "done" => \A S \in SUBSET Range(candidates) :
        /\ is_partial => TotalEarnings(S) <= TotalEarnings(selected)
        /\ TotalEarnings(S) = TotalEarnings(selected) =>
               TotalDuration(S) >= TotalDuration(selected)

\* The worker is told "best available" only if no choice of the candidates
\* reaches the goal: the bound of the table hides no solution.
PartialOnlyIfUnreachable ==
    pc = "done" /\ is_partial => TotalEarnings(Range(candidates)) < target

\* A failed or thin search costs the worker nothing: every job of the table
\* that qualifies is considered (up to MAX_CANDIDATES).
ThinSearchFallsBack ==
    /\ pc = "done" /\ is_partial
    /\ Len(ByIds(ranked)) < SemanticMin
    /\ Cardinality(InQuery) <= MaxCandidates
    => TotalEarnings(InQuery \intersect Computable) < target

----------------------------------------------------------------------------
(* Statements of the repository's docs that the code does not keep         *)

\* README.md: the jobs offered reach the goal "in the least time"; _dp_select:
\* least total duration "among goal-meeting subsets".
LeastTimeToGoal ==
    pc = "done" => \A S \in SUBSET Range(candidates) :
        TotalEarnings(S) >= target => TotalDuration(selected) <= TotalDuration(S)
=============================================================================
