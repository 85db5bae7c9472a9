---------------------------- MODULE ScrapeTotals ----------------------------
(***************************************************************************)
(* What the exporter promises of its scrape duration summaries, with no    *)
(* goroutine and no mutex: each scrape, at one instant, adds the durations *)
(* of all its collector runs to the running totals and reports the totals  *)
(* it has just made.  Registry is shown to implement this specification    *)
(* (RegistryRefinement).                                                   *)
(***************************************************************************)
EXTENDS Naturals

CONSTANTS Scrapes, Collectors, Keys

VARIABLES
  totals,    \* totals[k]: count and sum reported under the labels k
  reported   \* reported[s]: the summaries of the answer to s

NoSum == [c \in Collectors |-> 0]

Init ==
  /\ totals = [k \in Keys |->
                 [count |-> 0, sum |-> [s \in Scrapes |-> NoSum]]]
  /\ reported = [s \in Scrapes |-> {}]

\* label[c] is the (source, result) of the run of c in the scrape s.
Observe(s, label) ==
  LET touched == {label[c] : c \in Collectors}
  IN
    /\ reported[s] = {}
    /\ totals' = [k \in Keys |->
         IF k \in touched
         THEN [count |-> totals[k].count + 1,
               sum |-> [totals[k].sum EXCEPT ![s] =
                          [c \in Collectors |-> IF label[c] = k THEN 1 ELSE 0]]]
         ELSE totals[k]]
    /\ reported' = [reported EXCEPT ![s] =
         {[key |-> k, total |-> totals'[k]] : k \in touched}]

Next ==
  \E s \in Scrapes, label \in [Collectors -> Keys] : Observe(s, label)

Spec == Init /\ [][Next]_<<totals, reported>>
=============================================================================
