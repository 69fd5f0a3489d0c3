------------------------------ MODULE Knapsack ------------------------------
(***************************************************************************)
(* The vocabulary of the choice of jobs: sums over sets, the shortest set  *)
(* that earns an exact amount, and a list restricted to a set.  What jobs  *)
(* earn and how long they take are functions on jobs.                      *)
(***************************************************************************)
EXTENDS Integers, Sequences, FiniteSets, FiniteSetsExt

Sum(f, S) == MapThenSumSet(LAMBDA x : f[x], S)

\* The elements of s that are in T, in their order.  (SelectSeq, whose
\* definition the provers do not have.)
Selected(s, T) ==
    LET part[n \in 0 .. Len(s)] ==
            IF n = 0 THEN <<>>
            ELSE IF s[n] \in T THEN Append(part[n - 1], s[n])
            ELSE part[n - 1]
    IN  part[Len(s)]

FirstOf(s, n) == SubSeq(s, 1, IF Len(s) < n THEN Len(s) ELSE n)

\* The n first elements of s, as a set.
Front(s, n) == {s[k] : k \in 1 .. n}

Unreached == -1

\* The shortest duration of a subset of C that earns exactly v.
Shortest(earnings, duration, C, v) ==
    LET D == {Sum(duration, S) : S \in {S \in SUBSET C : Sum(earnings, S) = v}}
    IN  IF D = {} THEN Unreached ELSE Min(D)
=============================================================================
