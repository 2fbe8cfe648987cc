---- MODULE RunReports ----
(***************************************************************************)
(* The evaluation of a finished run's graph against a labelled case, and   *)
(* the comparison of two runs of one policy.  A graph is [root, domains,   *)
(* complete], complete if its run names every one of                       *)
(* MATCHED_POLICY_FIELDS; a case [positive, negative].  Ratios are pairs,  *)
(* compared by cross-multiplication; an undefined one has denominator 0.   *)
(***************************************************************************)
EXTENDS Integers, FiniteSets

CONSTANTS
  MinLabelled, MinPositive   \* MIN_LABELED_DOMAINS, MIN_POSITIVE_DOMAINS

Predicted(graph) == graph.domains \ {graph.root}

\* Precision, recall and F1 as pairs of numerator and denominator.
Evaluation(graph, labelled) ==
  LET predicted == Predicted(graph)
      tp == predicted \cap labelled.positive
      fp == predicted \cap labelled.negative
      fn == labelled.positive \ predicted
  IN [ truePositives |-> tp, falsePositives |-> fp, missed |-> fn,
       unlabelled |-> predicted \ (labelled.positive \cup labelled.negative),
       precision |-> <<Cardinality(tp), Cardinality(tp) + Cardinality(fp)>>,
       recall |-> <<Cardinality(tp), Cardinality(labelled.positive)>>,
       f1 |-> <<2 * Cardinality(tp),
                 IF tp = {} THEN 0 ELSE 2 * Cardinality(tp) + Cardinality(fp) + Cardinality(fn)>> ]

IsDefined(ratio) == ratio[2] > 0
AtLeast(r, s) == IsDefined(r) /\ IsDefined(s) => r[1] * s[2] >= s[1] * r[2]

\* Faulty: what the candidate lost is not looked at.
VerdictOfGains(lostTP, newFP, newTP, resolvedFP, moved) ==
  IF newTP # {} \/ resolvedFP # {} THEN "improved"
  ELSE IF lostTP # {} \/ newFP # {} THEN "degraded"
  ELSE IF moved # {} THEN "inconclusive" ELSE "unchanged"

Verdict(lostTP, newFP, newTP, resolvedFP, moved) ==
  IF lostTP # {} \/ newFP # {} THEN "degraded"
  ELSE IF newTP # {} \/ resolvedFP # {} THEN "improved"
  ELSE IF moved # {} THEN "inconclusive" ELSE "unchanged"

\* compare_graphs, of two graphs whose policies match as far as both name them.
Comparison(baseline, candidate, labelled) ==
  LET b == Evaluation(baseline, labelled)
      c == Evaluation(candidate, labelled)
      added == Predicted(candidate) \ Predicted(baseline)
      removed == Predicted(baseline) \ Predicted(candidate)
      addedUnlabelled == added \cap c.unlabelled
  IN [ verdict |-> Verdict(b.truePositives \ c.truePositives, c.falsePositives \ b.falsePositives,
                           c.truePositives \ b.truePositives, b.falsePositives \ c.falsePositives,
                           addedUnlabelled \cup removed),
       eligible |-> /\ Cardinality(labelled.positive \cup labelled.negative) >= MinLabelled
                    /\ Cardinality(labelled.positive) >= MinPositive
                    /\ addedUnlabelled = {}
                    /\ baseline.complete /\ candidate.complete ]
====
