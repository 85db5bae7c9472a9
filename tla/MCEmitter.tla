----------------------------- MODULE MCEmitter -----------------------------
(* Emitter for TLC: three goroutines that meet on the same keys in          *)
(* different orders, one list twice on one key and one with an invalid end. *)
EXTENDS Emitter, TLC

CONSTANTS g1, g2, g3, read_bytes, write_bytes

MCGoroutines == {g1, g2, g3}
MCKeys == {read_bytes, write_bytes}

Good(k) == [key |-> k, valid |-> TRUE]
Bad(k) == [key |-> k, valid |-> FALSE]

MCMappings ==
  { <<Good(read_bytes), Good(write_bytes)>>,
    <<Good(write_bytes), Good(read_bytes)>>,
    <<Good(read_bytes), Good(read_bytes)>>,
    <<Good(read_bytes), Bad(write_bytes)>> }
=============================================================================
