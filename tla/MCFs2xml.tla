----------------------------- MODULE MCFs2xml -----------------------------
(* Archives of up to MaxHeaders headers over a few paths: a directory and   *)
(* its marked twin, files in and beside them, one of them named like the    *)
(* compressed form of another, and links.                                   *)
EXTENDS Fs2xmlTool

N(m, b, z) == [mark |-> m, base |-> b, bz |-> z]
A == N(FALSE, 1, 0)
hiddenA == N(TRUE, 1, 0)
aBz2 == N(FALSE, 1, 1)
D == N(FALSE, 2, 0)
hiddenD == N(TRUE, 2, 0)

H(path, type, link, big) == [path |-> path, type |-> type, link |-> link, big |-> big]

MCNames == {A, hiddenA, aBz2, D, hiddenD}
MCHeaders ==
  {H(<<A>>, "0", FALSE, TRUE), H(<<hiddenA>>, "0", FALSE, FALSE), H(<<aBz2>>, "0", FALSE, TRUE),
   H(<<D>>, "5", FALSE, FALSE), H(<<D>>, "2", TRUE, FALSE), H(<<hiddenD>>, "5", FALSE, FALSE),
   H(<<D, A>>, "0", FALSE, TRUE), H(<<hiddenD, A>>, "0", FALSE, TRUE),
   H(<<hiddenD, D>>, "0", FALSE, FALSE), H(<<D, hiddenD>>, "1", FALSE, FALSE),
   H(<<D>>, "other", FALSE, FALSE), H(<<D>>, "0", FALSE, FALSE)}
=============================================================================
