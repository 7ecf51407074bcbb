------------------------------- MODULE Pixmap -------------------------------
(***************************************************************************)
(* Pictures of fbview (patches/code/fbview) as bytes: how a colour is      *)
(* stored in 1 to 4 bytes and read back (framebuffer.c), scaling and       *)
(* rotation (pixmap.c), the palette of the 8-bit modes, and the pixels of  *)
(* a BMP file (ds_bmp.c).                                                  *)
(*                                                                         *)
(* A colour is <<R, G, B>>.  Memory from malloc is a function from offsets *)
(* to bytes; a byte nobody has written holds `fill'.  The scale is a       *)
(* fraction <<n, d>>; colours are interpolated exactly and rounded down.   *)
(***************************************************************************)
EXTENDS Integers, Sequences

CONSTANT SintMax  \* the largest Sint16, 32767 (framebuffer.h)

ASSUME SintAssumption == SintMax \in Nat

Byte == 0 .. 255
Uint16 == {n \in Nat : n < 65536}
----------------------------------------------------------------------------
(* Pixels *)

\* fb_set_pixel: the bytes written, by their distance from dest.
SetPixel(ps, c) ==
  IF ps = 1 THEN [o \in {0} |-> (c[1] \div 32) * 32 + (c[2] \div 32) * 4 + c[3] \div 64]
  ELSE IF ps = 2 THEN [o \in 0 .. 1 |-> IF o = 0 THEN ((c[2] \div 8) % 8) * 32 + c[1] \div 8
                                                ELSE 128 + (c[3] \div 8) * 4 + c[2] \div 64]
  ELSE [o \in 1 .. 3 |-> c[o]]

\* fb_get_pixel of the bytes from `at' on.
GetPixel(ps, mem, at) ==
  IF ps = 1 THEN <<(mem[at] \div 32) * 32, ((mem[at] \div 4) % 8) * 32, (mem[at] % 4) * 64>>
  ELSE IF ps = 2 THEN <<(mem[at] % 32) * 8,
                        (mem[at + 1] % 4) * 64 + (mem[at] \div 32) * 8,
                        ((mem[at + 1] \div 4) % 32) * 8>>
  ELSE <<mem[at + 2], mem[at + 1], mem[at]>>

\* A buffer for n pixels in which fb_set_pixel has written the given colours;
\* what it writes behind the buffer is not part of the picture.
Filled(n, ps, colour, fill) ==
  [b \in 0 .. n * ps - 1 |->
     LET hit == {k \in DOMAIN colour : b - k * ps \in DOMAIN SetPixel(ps, colour[k])}
     IN  IF hit = {} THEN fill
         ELSE LET k == CHOOSE k \in hit : TRUE IN SetPixel(ps, colour[k])[b - k * ps]]
----------------------------------------------------------------------------
(* Scaling *)

IsPowerOf2(d) == d \in {1, 2, 4, 8, 16, 32, 64}

\* (*w) * scale as Uint16, for the size times n: the scale and the product are
\* rounded to 24 bits, so a product next to a whole number may fall on its other
\* side.  A short binary fraction is exact.
ScaledSizes(size, s) ==
  LET up == size * s[1]
      exact == up \div s[2]
      rest == up % s[2]
      rounded == ~(IsPowerOf2(s[2]) /\ s[1] < 256)
      sizes == {exact}
                 \cup {n \in {exact - 1} : rounded /\ exact > 0 /\ rest * 2^22 <= up}
                 \cup {n \in {exact + 1} : rounded /\ rest > 0 /\ (s[2] - rest) * 2^22 <= up}
  IN  {n % 65536 : n \in sizes}

\* Where target column (row) i comes from: x1, x2 and x - x1 in parts of n.
Source1(i, s) == (i * s[2]) \div s[1]
Source2(i, size, s) == IF Source1(i, s) + 1 >= size THEN Source1(i, s) ELSE Source1(i, s) + 1
Weight(i, s) == (i * s[2]) % s[1]

\* One channel, from the four source pixels; rounded down by the conversion.
Interpolate(p1, p2, p3, p4, wx, wy, n) ==
  LET f12 == p1 * n + wx * (p2 - p1)
      f34 == p3 * n + wx * (p4 - p3)
  IN  (f12 * n + wy * (f34 - f12)) \div (n * n)

\* The loops of fb_pixmap_scale.
Scale(pm, nw, nh, s, ps, fill) ==
  LET Pixel(x, y) == GetPixel(ps, pm.mem, (x + y * pm.w) * ps)
      Colour(i, j) ==
        LET p1 == Pixel(Source1(i, s), Source1(j, s))
            p2 == Pixel(Source2(i, pm.w, s), Source1(j, s))
            p3 == Pixel(Source1(i, s), Source2(j, pm.h, s))
            p4 == Pixel(Source2(i, pm.w, s), Source2(j, pm.h, s))
        IN  [c \in 1 .. 3 |-> Interpolate(p1[c], p2[c], p3[c], p4[c], Weight(i, s), Weight(j, s), s[1])]
  IN  [w |-> nw, h |-> nh,
       mem |-> Filled(nw * nh, ps, [k \in 0 .. nw * nh - 1 |-> Colour(k % nw, k \div nw)], fill)]
----------------------------------------------------------------------------
(* Rotation *)

\* The index fb_pixmap_rotate gives to the pixel in column i of row j.
Target(rotate, w, h, i, j) ==
  CASE rotate = 90  -> h - j + i * h
    [] rotate = 180 -> w - i + (h - j) * w
    [] rotate = 270 -> j + (w - i) * h

Rotate(pm, rotate, ps, fill) ==
  LET Pixels == (0 .. pm.w - 1) \X (0 .. pm.h - 1)
      At(p) == Target(rotate, pm.w, pm.h, p[1], p[2])
      colour == [k \in {At(p) : p \in Pixels} |->
                   LET p == CHOOSE p \in Pixels : At(p) = k
                   IN  GetPixel(ps, pm.mem, (p[1] + p[2] * pm.w) * ps)]
  IN  [w |-> IF rotate = 180 THEN pm.w ELSE pm.h, h |-> IF rotate = 180 THEN pm.h ELSE pm.w,
       mem |-> Filled(pm.w * pm.h, ps, colour, fill)]
----------------------------------------------------------------------------
(* Palette *)

\* generate_palette: entry a for a mode of 4 or 8 bits per pixel.
PaletteEntry(bpp, a) ==
  IF bpp = 4
  THEN <<IF a \div 8 = 1 THEN 65535 ELSE 0, ((a \div 2) % 4) * (65535 \div 3), IF a % 2 = 1 THEN 65535 ELSE 0>>
  ELSE <<((a \div 32) % 8) * (65535 \div 7), ((a \div 4) % 8) * (65535 \div 7), (a % 4) * (65535 \div 3)>>
----------------------------------------------------------------------------
(* BMP files: [w, h, bpp, data], data from bf_data_offset on *)

\* The loops over columns and rows count in Sint16 against Uint32: i stops when
\* it wraps, and a j that starts below 0 sees no row.
Columns(w) == IF w > SintMax + 1 THEN SintMax + 1 ELSE w
Rows(h) == IF h > SintMax + 1 THEN 0 ELSE h

\* Every row and column is visited.
Counted(w, h) == w <= SintMax + 1 /\ h <= SintMax + 1

\* fgetc; EOF is -1, stored in a byte
Fgetc(data, k) == IF k < Len(data) THEN data[k + 1] ELSE 255

\* What bmp2fb_pixmap reads for one row: the pixels and bi_width % 4 bytes.
RowBytes(w, bpp) == Columns(w) * (bpp \div 8) + (w % 4)

\* The loops of bmp2fb_pixmap: rows from the bottom to the top, bytes B, G, R.
LoadPixels(f, ps, fill) ==
  LET At(k) == (f.h - 1 - k \div f.w) * RowBytes(f.w, f.bpp) + (k % f.w) * (f.bpp \div 8)
      visited == {k \in 0 .. f.w * f.h - 1 : k % f.w < Columns(f.w) /\ k \div f.w < Rows(f.h)}
  IN  [w |-> f.w, h |-> f.h,
       mem |-> Filled(f.w * f.h, ps,
                 [k \in visited |->
                    <<Fgetc(f.data, At(k) + 2), Fgetc(f.data, At(k) + 1), Fgetc(f.data, At(k))>>], fill)]

\* Lines of a dumped file: the pixels as B, G, R and then `pad' zeros.
DumpRows(pm, ps, pad) ==
  LET row == Columns(pm.w) * 3 + pad
      Value(k) ==
        LET i == (k % row) \div 3
            j == pm.h - 1 - (k \div row)
        IN  IF i >= Columns(pm.w) THEN 0
            ELSE GetPixel(ps, pm.mem, (i + j * pm.w) * ps)[3 - ((k % row) % 3)]
  IN  [ext |-> "BMP", opens |-> TRUE, state |-> "good", w |-> pm.w, h |-> pm.h, bpp |-> 24,
       data |-> [k \in 1 .. row * Rows(pm.h) |-> Value(k - 1)]]

\* Mutant: the padding of a row is what bits_per_row says.
DumpBitsPerRow(pm, ps) == DumpRows(pm, ps, (pm.w * 3) % 4)
\* fb_pixmap2bmp: three bytes for each pixel and bi_width % 4 zeros.
DumpPixels(pm, ps) == DumpRows(pm, ps, pm.w % 4)
----------------------------------------------------------------------------
(* fb_pixmap_render: the part of the picture that fits, from the corner    *)

\* Mutant: the lines of the screen are as long as the lines of the picture.
RenderStride(mem, pm, xres, yres, ps) ==
  LET rows == IF yres > pm.h THEN pm.h ELSE yres
      line == (IF xres > pm.w THEN pm.w ELSE xres) * ps
  IN  [b \in DOMAIN mem |->
         LET j == b \div (pm.w * ps)
             k == b % (pm.w * ps)
         IN  IF j < rows /\ k < line THEN pm.mem[j * pm.w * ps + k] ELSE mem[b]]
Render(mem, pm, xres, yres, ps) ==
  LET rows == IF yres > pm.h THEN pm.h ELSE yres
      line == (IF xres > pm.w THEN pm.w ELSE xres) * ps
  IN  [b \in DOMAIN mem |->
         LET j == b \div (xres * ps)
             k == b % (xres * ps)
         IN  IF j < rows /\ k < line THEN pm.mem[j * pm.w * ps + k] ELSE mem[b]]
=============================================================================
