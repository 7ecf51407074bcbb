------------------------------ MODULE MCFbview ------------------------------
(***************************************************************************)
(* Files and screens for TLC.  The data of a BMP file is laid out as the   *)
(* format says (rows from the bottom, padded to four bytes), not as the    *)
(* codec reads it.                                                         *)
(***************************************************************************)
EXTENDS Fbview

\* Colours that differ in every channel and from their neighbours
Colour(x, y) == <<(x * 96 + y * 40) % 256, (x * 56 + y * 104 + 30) % 256, (255 - x * 72 + y * 24) % 256>>

BmpData(w, h, bpp) ==
  LET size == bpp \div 8
      row == Padded(w * size)
      Value(k) ==
        LET x == (k % row) \div size
            c == (k % row) % size
        IN  IF x >= w \/ c = 3 THEN 0 ELSE Colour(x, h - 1 - (k \div row))[3 - c]
  IN  [k \in 1 .. row * h |-> Value(k - 1)]

File(ext, state, w, h, bpp, data) ==
  [ext |-> ext, opens |-> state # "absent", state |-> state, w |-> w, h |-> h, bpp |-> bpp, data |-> data,
   picture |-> [p \in (0 .. w - 1) \X (0 .. h - 1) |-> Colour(p[1], p[2])]]

Bmp(w, h, bpp) == File("BMP", "good", w, h, bpp, BmpData(w, h, bpp))
Jpeg(w, h) == File("JPG", "good", w, h, 24, [k \in 1 .. 3 * w * h |->
                LET p == (k - 1) \div 3 IN Colour(p % w, p \div w)[((k - 1) % 3) + 1]])

MCFiles == {Bmp(3, 2, 24), Bmp(5, 4, 24), Bmp(4, 2, 32), Bmp(2, 2, 32), Jpeg(3, 3),
            File("BMP", "absent", 1, 1, 24, <<>>), File("BMP", "compressed", 1, 1, 24, <<>>),
            Bmp(7, 5, 24), Bmp(10, 2, 24), Bmp(2, 10, 24), File("BMP", "good", 1, 1, 8, <<0>>),
            File("JPEG", "damaged", 1, 1, 24, <<>>), File("JPG", "absent", 1, 1, 24, <<>>),
            File("PNG", "good", 1, 1, 24, <<>>), File("", "good", 1, 1, 24, <<>>)}

\* Two screens have been panned: one for which fbview fails, one it draws on.
Screen(xres, yres, bpp, cmap, format, big, offset) ==
  [xres |-> xres, yres |-> yres, bpp |-> bpp, cmap |-> cmap, format |-> format, big |-> big, offset |-> offset]
MCScreens == {Screen(4, 3, 8, TRUE, "none", FALSE, 0),
              Screen(3, 4, 16, FALSE, "555", FALSE, 12),
              Screen(2, 2, 16, FALSE, "565", FALSE, 0),
              Screen(2, 1, 16, FALSE, "565", TRUE, 0),
              Screen(2, 2, 24, FALSE, "none", FALSE, 0),
              Screen(2, 2, 32, FALSE, "none", FALSE, 0),
              Screen(2, 2, 1, FALSE, "none", FALSE, 4)}

MCScales == {<<1, 2>>, <<2, 1>>, <<0, 1>>, <<11, 1>>}
MCRotations == {90, 45, 180, -90}
MCHeapBytes == {0, 165}

\* What the codecs accept holds the picture it is said to hold.
ASSUME MCStoresAssumption ==
  \A f \in MCFiles : BmpAccepted(f) /\ f.ext \in {"BMP", "JPG"} => Stores(f)
=============================================================================
