---------------------------- MODULE MCPenguins ----------------------------
(* A screen of 7 x 4 pixels and pictures of 3 x 2.  The mask is 3 x 2: its   *)
(* points lie between pixels, and one of them behind the right edge.        *)
EXTENDS Penguins

MCWalks == {<<-3, 1>>, <<2, -2>>}
MCJitters == {<<1, -1>>, <<-1, 0>>}
MCMasks == {{<<0, 1>>, <<2, 0>>}, {<<1, 1>>}}
===========================================================================
