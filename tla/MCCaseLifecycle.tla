---------------------------- MODULE MCCaseLifecycle ---------------------------
(* Instances of CaseLifecycle for TLC. *)
EXTENDS CaseLifecycle

CONSTANTS h1, h2, v1, v2, k1, k2, k3

MCHandlers   == {h1, h2}
MCReviewers  == {v1, v2}
MCReviewer   == {v1}
MCCalls      == {k1, k2, k3}
MCRegistry   == {k1, k2}
MCRunIds3    == 0 .. 2
MCRunIds2    == 0 .. 1

Proposal(plan, requiresHuman) == [plan |-> plan, requiresHuman |-> requiresHuman]

\* A gated plan of two calls, an automatic plan of reads, plans without calls
\* and a gated plan with a call that the execution registry does not know.
MCProposals ==
  {Proposal(<<k1, k2>>, TRUE), Proposal(<<k1>>, FALSE), Proposal(<<k1, k3>>, TRUE),
   Proposal(<<>>, TRUE), Proposal(<<>>, FALSE)}
MCGatedPlan == {Proposal(<<k1, k2>>, TRUE)}
MCGatedCall == {Proposal(<<k1>>, TRUE)}

\* Handlers, and reviewers, are interchangeable in every safety property.
Symmetry == Permutations(Handlers) \cup Permutations(Reviewers)
===============================================================================
