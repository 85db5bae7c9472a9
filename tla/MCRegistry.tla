----------------------------- MODULE MCRegistry -----------------------------
(* Registry for TLC: two collectors that share the source "sys", one of    *)
(* which (lnet in auto mode) may fall back to "lctl" while it collects.    *)
EXTENDS RegistryRefinement, TLC

CONSTANTS s1, s2, health, lnet

MCScrapes == {s1, s2}
MCCollectors == {health, lnet}
MCSources == {"sys", "lctl"}
MCOneSource == {"sys"}
MCScrapeSource == [c \in Collectors |-> "sys"]
MCRecordable ==
  [c \in Collectors |-> IF c = lnet THEN Sources \cap {"lctl"} ELSE {}]
MCOneResponsive == {s1}
MCSymmetry == Permutations(Scrapes)
=============================================================================
