---------------------------- MODULE MCDummyPcm ----------------------------
(* Parameters for DummyPcm: rates and sizes for which a tick is shorter     *)
(* than a period, exactly a period, and longer than a whole buffer.         *)
EXTENDS DummyPcm

P(r, p, b) == [rate |-> r, period_size |-> p, buffer_size |-> b]

MCParamsMany == {P(3, 2, 4), P(2, 1, 3), P(5, 1, 2)}
=============================================================================
