------------------------------ MODULE MCReader ------------------------------
(* Reader for TLC: the collectors of one scrape, side by side.             *)
EXTENDS Reader, TLC

CONSTANTS lnet, client

MCCallers == {lnet, client}
MCOneCaller == {lnet}
=============================================================================
