------------------------- MODULE RegistryRefinement -------------------------
(***************************************************************************)
(* Registry implements ScrapeTotals: although observeScrapeDurations       *)
(* visits the keys one after the other, with other calls around it, it     *)
(* takes effect at one instant, the release of durationMu.                 *)
(***************************************************************************)
EXTENDS Registry

\* r.durations without what the call that holds durationMu has stored so far.
SettledTotals ==
  [k \in Keys |->
     IF \E s \in durationMu : \E m \in metrics[s] : m.key = k
     THEN [count |-> durations[k].count - 1,
           sum |-> [s \in Scrapes |->
                      IF s \in durationMu THEN NoSum ELSE durations[k].sum[s]]]
     ELSE durations[k]]

SettledMetrics == [s \in Scrapes |-> IF s \in durationMu THEN {} ELSE metrics[s]]

Abstract == INSTANCE ScrapeTotals
  WITH totals <- SettledTotals, reported <- SettledMetrics

\* Scrapes that overlap add to and report the totals one after the other, each
\* with all its collectors at once (collector.go:164-189).
ImplementsScrapeTotals == Abstract!Spec
=============================================================================
