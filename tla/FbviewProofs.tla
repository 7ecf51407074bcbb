---------------------------- MODULE FbviewProofs ----------------------------
(***************************************************************************)
(* Proofs about Fbview, for every set of files, screens and options: a run *)
(* that fails leaves the picture of the console, an autoscaled picture     *)
(* fits the screen, a dumped file that fbview accepts reloads to the       *)
(* pixmap it was made from, and what is on the screen is the picture in    *)
(* the file.                                                               *)
(***************************************************************************)
EXTENDS Fbview, SequenceTheorems, TLAPS

(* Arithmetic of sizes *)

\* The quotient of the conversion to Uint16
LEMMA DivBounds ==
  ASSUME NEW n \in Nat, NEW d \in Nat \ {0}
  PROVE  /\ n \div d \in Nat
         /\ d * (n \div d) <= n
         /\ n < d * (n \div d) + d
  OBVIOUS

LEMMA DivLess ==
  ASSUME NEW n \in Nat, NEW d \in Nat \ {0}, NEW b \in Nat, n <= d * b
  PROVE  n \div d <= b
<1> DEFINE q == n \div d
<1>1. q \in Nat /\ d * q <= n
  BY DivBounds
<1>2. d * q <= d * b
  BY <1>1
<1> HIDE DEF q
<1>3. SUFFICES ASSUME q >= b + 1 PROVE FALSE
  BY <1>1 DEF q
<1>4. d * q >= d * (b + 1)
  BY <1>1, <1>3
<1>5. d * (b + 1) = d * b + d
  OBVIOUS
<1> QED
  BY <1>1, <1>2, <1>4, <1>5

LEMMA DivMore ==
  ASSUME NEW n \in Nat, NEW d \in Nat \ {0}, NEW b \in Nat, d * b <= n
  PROVE  b <= n \div d
<1> DEFINE q == n \div d
<1>1. q \in Nat /\ n < d * q + d
  BY DivBounds
<1> HIDE DEF q
<1>2. SUFFICES ASSUME b >= q + 1 PROVE FALSE
  BY <1>1 DEF q
<1>3. PICK z \in Nat : b = q + 1 + z
  <2>1. b - q - 1 \in Nat /\ b = q + 1 + (b - q - 1)
    BY <1>1, <1>2
  <2> QED BY <2>1
<1>4. d * (q + 1 + z) = d * q + d + d * z /\ d * z \in Nat /\ d * q \in Nat
  BY <1>1
<1> QED BY <1>1, <1>3, <1>4

LEMMA DivExact ==
  ASSUME NEW d \in Nat \ {0}, NEW b \in Nat
  PROVE  (d * b) \div d = b
<1> DEFINE q == (d * b) \div d
<1>1. d * b \in Nat
  OBVIOUS
<1>2. q \in Nat /\ d * q <= d * b /\ d * b < d * q + d
  BY <1>1, DivBounds
<1> HIDE DEF q
<1>3. q <= b
  <2> SUFFICES ASSUME q >= b + 1 PROVE FALSE
    BY <1>2
  <2>1. d * q >= d * (b + 1)
    BY <1>2
  <2>2. d * (b + 1) = d * b + d
    OBVIOUS
  <2> QED BY <1>2, <2>1, <2>2
<1>4. b <= q
  <2> SUFFICES ASSUME b >= q + 1 PROVE FALSE
    BY <1>2
  <2>1. d * b >= d * (q + 1)
    BY <1>2
  <2>2. d * (q + 1) = d * q + d
    BY <1>2
  <2> QED BY <1>2, <2>1, <2>2
<1> QED
  BY <1>2, <1>3, <1>4 DEF q

\* Uint16 of a number that is one already
LEMMA ModSmall ==
  ASSUME NEW n \in Nat
  PROVE  n % 65536 \in Uint16 /\ (n \in Uint16 => n % 65536 = n)
  BY DEF Uint16

\* The size n before the conversion to Uint16, of up / d pixels: the last column
\* still comes from the picture, and at most one is missing.
SizeOf(n, up, d) ==
  /\ n \in Nat
  /\ n > 0 => (n - 1) * d < up
  /\ up \div d <= n + 1

LEMMA SizesNear ==
  ASSUME NEW up \in Nat, NEW d \in Nat \ {0}, NEW n,
         \/ n = up \div d
         \/ up \div d > 0 /\ n = up \div d - 1
         \/ up % d > 0 /\ n = up \div d + 1
  PROVE  SizeOf(n, up, d)
<1> DEFINE e == up \div d
<1>1. e \in Nat /\ d * e <= up /\ (up % d > 0 => d * e < up)
  BY DivBounds
<1> HIDE DEF e
<1>2. e * d = d * e /\ (e - 1) * d = d * e - d /\ (e - 2) * d = d * e - 2 * d /\ d * e \in Nat
  BY <1>1
<1>3. CASE n = e
  BY <1>1, <1>2, <1>3 DEF SizeOf, e
<1>4. CASE e > 0 /\ n = e - 1
  <2>1. n \in Nat /\ n - 1 = e - 2 /\ e <= n + 1
    BY <1>1, <1>4
  <2>2. (n - 1) * d < up
    BY <1>1, <1>2, <2>1
  <2> QED BY <2>1, <2>2 DEF SizeOf, e
<1>5. CASE up % d > 0 /\ n = e + 1
  <2>1. n \in Nat /\ n - 1 = e /\ e <= n + 1
    BY <1>1, <1>5
  <2>2. (n - 1) * d < up
    BY <1>1, <1>2, <1>5, <2>1
  <2> QED BY <2>1, <2>2 DEF SizeOf, e
<1> QED
  BY <1>3, <1>4, <1>5 DEF e

\* What ScaledSizes may give
LEMMA ScaledRange ==
  ASSUME NEW size \in Nat, NEW s \in Nat \X (Nat \ {0}), NEW r \in ScaledSizes(size, s)
  PROVE  r \in Uint16 /\ \E n : SizeOf(n, size * s[1], s[2]) /\ r = n % 65536
<1> DEFINE up == size * s[1]
           d == s[2]
<1>1. up \in Nat /\ d \in Nat \ {0}
  OBVIOUS
<1>2. PICK n : /\ r = n % 65536
               /\ \/ n = up \div d
                  \/ up \div d > 0 /\ n = up \div d - 1
                  \/ up % d > 0 /\ n = up \div d + 1
  <2> DEFINE e == up \div d
             rest == up % d
             rounded == ~(IsPowerOf2(s[2]) /\ s[1] < 256)
             less == rounded /\ e > 0 /\ rest * 2^22 <= up
             more == rounded /\ rest > 0 /\ (d - rest) * 2^22 <= up
             sizes == {e} \cup {n \in {e - 1} : less} \cup {n \in {e + 1} : more}
  <2>1. ScaledSizes(size, s) = {n % 65536 : n \in sizes}
    BY DEF ScaledSizes
  <2>2. less => e > 0
    OBVIOUS
  <2>3. more => rest > 0
    OBVIOUS
  <2> HIDE DEF less, more, e, rest
  <2>4. PICK n \in sizes : r = n % 65536
    BY <2>1
  <2>5. n = e \/ (less /\ n = e - 1) \/ (more /\ n = e + 1)
    OBVIOUS
  <2>6. n = e \/ (e > 0 /\ n = e - 1) \/ (rest > 0 /\ n = e + 1)
    BY <2>2, <2>3, <2>5
  <2> HIDE DEF up, d, sizes
  <2> QED BY <2>4, <2>6 DEF e, rest
<1> HIDE DEF up, d
<1>3. SizeOf(n, up, d)
  BY <1>1, <1>2, SizesNear
<1>4. n \in Nat
  BY <1>3 DEF SizeOf
<1> QED
  BY <1>2, <1>3, <1>4, ModSmall DEF up, d
----------------------------------------------------------------------------
(* Pixels *)

\* At 8 and 16 bits reading a pixel and writing it again (fb_get_pixel and
\* fb_set_pixel, framebuffer.c:438-480) changes no byte that fb_set_pixel has
\* written: scaling by 1, a dump and its reload lose nothing.
THEOREM PixelRoundTrip ==
  ASSUME NEW R \in Byte, NEW G \in Byte, NEW B \in Byte, NEW ps \in {1, 2}
  PROVE  SetPixel(ps, GetPixel(ps, SetPixel(ps, <<R, G, B>>), 0)) = SetPixel(ps, <<R, G, B>>)
<1>1. CASE ps = 1
  <2> DEFINE m == (R \div 32) * 32 + (G \div 32) * 4 + B \div 64
  <2>1. m \in 0 .. 255 /\ m \div 32 = R \div 32 /\ (m \div 4) % 8 = G \div 32 /\ m % 4 = B \div 64
    BY SMTT(30) DEF Byte
  <2>2. SetPixel(1, <<R, G, B>>) = [o \in {0} |-> m]
    BY DEF SetPixel
  <2> HIDE DEF m
  <2>3. GetPixel(1, [o \in {0} |-> m], 0) = <<(m \div 32) * 32, ((m \div 4) % 8) * 32, (m % 4) * 64>>
    BY DEF GetPixel
  <2>4. SetPixel(1, <<(m \div 32) * 32, ((m \div 4) % 8) * 32, (m % 4) * 64>>) =
          [o \in {0} |-> (((m \div 32) * 32) \div 32) * 32 + ((((m \div 4) % 8) * 32) \div 32) * 4 + ((m % 4) * 64) \div 64]
    BY DEF SetPixel
  <2>5. (((m \div 32) * 32) \div 32) * 32 + ((((m \div 4) % 8) * 32) \div 32) * 4 + ((m % 4) * 64) \div 64 = m
    BY <2>1
  <2> QED
    BY <1>1, <2>2, <2>3, <2>4, <2>5
<1>2. CASE ps = 2
  <2> DEFINE lo == ((G \div 8) % 8) * 32 + R \div 8
             hi == 128 + (B \div 8) * 4 + G \div 64
             r == (lo % 32) * 8
             g == (hi % 4) * 64 + (lo \div 32) * 8
             b == ((hi \div 4) % 32) * 8
  <2>1. /\ lo \in 0 .. 255 /\ hi \in 0 .. 255
        /\ lo % 32 = R \div 8 /\ lo \div 32 = (G \div 8) % 8
        /\ hi % 4 = G \div 64 /\ (hi \div 4) % 32 = B \div 8
    BY DEF Byte
  <2>2. SetPixel(2, <<R, G, B>>) = [o \in 0 .. 1 |-> IF o = 0 THEN lo ELSE hi]
    BY DEF SetPixel
  <2>3. GetPixel(2, [o \in 0 .. 1 |-> IF o = 0 THEN lo ELSE hi], 0) = <<r, g, b>>
    BY DEF GetPixel
  <2>4. SetPixel(2, <<r, g, b>>) =
          [o \in 0 .. 1 |-> IF o = 0 THEN ((g \div 8) % 8) * 32 + r \div 8 ELSE 128 + (b \div 8) * 4 + g \div 64]
    BY DEF SetPixel
  <2>5. r \div 8 = R \div 8 /\ b \div 8 = B \div 8 /\ g \div 64 = G \div 64 /\ (g \div 8) % 8 = (G \div 8) % 8
    BY <2>1, SMTT(30) DEF Byte
  <2> QED
    BY <1>2, <2>2, <2>3, <2>4, <2>5
<1> QED
  BY <1>1, <1>2
----------------------------------------------------------------------------
(* Types *)

LEMMA FitType ==
  ASSUME TypeOK, NEW w \in Uint16 \ {0}, NEW h \in Uint16 \ {0}
  PROVE  FitScale(w, h) \in Nat \X (Nat \ {0})
BY DEF TypeOK, FitScale, Uint16

\* The picture has pixels when autoscale divides by its size, and the
\* resolution is the screen's once fb_init has run.
Sized ==
  /\ pc \in {"init", "load", "autoscale"} => opts.file \in Files
  /\ pc = "autoscale" => {pixmap.w, pixmap.h} \subseteq Uint16 \ {0}
  /\ pc \notin {"params", "init", "exit1", "crash"} /\ ~opts.quiet =>
       {fb.xres, fb.yres} \subseteq Uint16 \ {0}

LEMMA NoFileExt ==
  ASSUME TypeOK, opts.file.ext \in {"BMP", "JPG", "JPEG"}
  PROVE  opts.file \in Files
BY DEF TypeOK, NoFile

LEMMA TypeInit == Init => TypeOK /\ Sized
<1> SUFFICES ASSUME Init PROVE TypeOK /\ Sized
  OBVIOUS
<1> USE DEF Init
<1>1. opts \in [file : Files \cup {NoFile}, scale : Nat \X (Nat \ {0}), autoscale : BOOLEAN,
               rotate : Int, dump : BOOLEAN, quiet : BOOLEAN]
  OBVIOUS
<1>2. DOMAIN device = {"mode", "mem", "offset"} /\ device.mode \in Screens
  OBVIOUS
<1>3. fb \in [screen : {"none", "mapped", "failed"}, pixelsize : 1 .. 4, xres : Uint16, yres : Uint16]
  BY DEF Uint16
<1>4. pixmap.w \in Uint16 /\ pixmap.h \in Uint16
  BY DEF Uint16, NoPixmap
<1>5. heap \in [fill : Byte, short : BOOLEAN, overrun : BOOLEAN]
  BY MemoryAssumption
<1> QED
  BY <1>1, <1>2, <1>3, <1>4, <1>5 DEF TypeOK, Sized

\* The parts of a step: an option, a refusal, a step of the picture
LEMMA TypeParams ==
  ASSUME TypeOK, Sized,
         \/ HelpOrNoValue \/ OptScale \/ OptAutoscale \/ OptRotate \/ OptDump \/ OptQuiet \/ OptFile
  PROVE  TypeOK' /\ Sized'
<1>1. CASE Refuse
  BY <1>1 DEF Refuse, TypeOK, Sized
<1>2. ASSUME NEW new, Argument(new),
             new \in [file : Files \cup {NoFile}, scale : Nat \X (Nat \ {0}), autoscale : BOOLEAN,
                     rotate : Int, dump : BOOLEAN, quiet : BOOLEAN]
      PROVE  TypeOK' /\ Sized'
  BY <1>2 DEF Argument, TypeOK, Sized
<1>3. CASE HelpOrNoValue
  BY <1>1, <1>3 DEF HelpOrNoValue
<1>4. CASE OptScale
  <2>1. PICK s \in Scales : IF InRange(s) THEN Argument([opts EXCEPT !.scale = s]) ELSE Refuse
    BY <1>4 DEF OptScale
  <2>2. s \in Nat \X (Nat \ {0})
    BY ScalesAssumption
  <2> QED BY <1>1, <1>2, <2>1, <2>2 DEF TypeOK
<1>5. CASE OptAutoscale
  BY <1>2, <1>5 DEF OptAutoscale, TypeOK
<1>6. CASE OptRotate
  <2>1. PICK r \in Rotations :
          IF NormRotate(r) % 90 = 0 THEN Argument([opts EXCEPT !.rotate = NormRotate(r)]) ELSE Refuse
    BY <1>6 DEF OptRotate
  <2>2. NormRotate(r) \in Int
    BY RotationsAssumption DEF NormRotate, CRem, Sint16
  <2> QED BY <1>1, <1>2, <2>1, <2>2 DEF TypeOK
<1>7. CASE OptDump
  BY <1>2, <1>7 DEF OptDump, TypeOK
<1>8. CASE OptQuiet
  BY <1>2, <1>8 DEF OptQuiet, TypeOK
<1>9. CASE OptFile
  <2>1. PICK f \in Files : Argument([opts EXCEPT !.file = f])
    BY <1>9 DEF OptFile
  <2> QED BY <1>2, <2>1 DEF TypeOK
<1> QED
  BY <1>3, <1>4, <1>5, <1>6, <1>7, <1>8, <1>9

LEMMA TypeStart ==
  ASSUME TypeOK, Sized, EndOfParams \/ FbInitFails \/ FbInit \/ FbInitNoMemory
  PROVE  TypeOK' /\ Sized'
<1>1. CASE EndOfParams
  <2>1. CASE opts.file.ext \in {"BMP", "JPG", "JPEG"}
    <3>1. opts.file \in Files
      BY <2>1, NoFileExt
    <3>2. pc' = (IF opts.quiet THEN "load" ELSE "init") /\ UNCHANGED <<opts, device, palette, fb, pixmap, dumped, heap>>
      BY <1>1, <2>1 DEF EndOfParams
    <3> QED BY <3>1, <3>2 DEF TypeOK, Sized
  <2>2. CASE opts.file.ext \notin {"BMP", "JPG", "JPEG"}
    BY <1>1, <2>2 DEF EndOfParams, Refuse, TypeOK, Sized
  <2> QED BY <2>1, <2>2
<1>0. ASSUME UNCHANGED device \/ ScreenAtStart
      PROVE  DOMAIN device' = {"mode", "mem", "offset"} /\ device'.mode \in Screens
  BY <1>0 DEF ScreenAtStart, TypeOK
<1>2. CASE FbInitFails
  BY <1>0, <1>2 DEF FbInitFails, TypeOK, Sized
<1>3. CASE FbInit
  <2>1. PixelSize(device.mode.bpp) \in 1 .. 4
    BY <1>3 DEF FbInit, PixelSize
  <2>2. {device.mode.xres, device.mode.yres} \subseteq Uint16 \ {0}
    BY SizesAssumption DEF TypeOK
  <2>3. fb' \in [screen : {"none", "mapped", "failed"}, pixelsize : 1 .. 4, xres : Uint16, yres : Uint16]
    BY <1>3, <2>1, <2>2 DEF FbInit
  <2>4. {fb'.xres, fb'.yres} \subseteq Uint16 \ {0}
    BY <1>3, <2>2 DEF FbInit
  <2> QED BY <1>0, <1>3, <2>3, <2>4 DEF FbInit, TypeOK, Sized
<1>4. CASE FbInitNoMemory
  BY <1>0, <1>4 DEF FbInitNoMemory, TypeOK, Sized
<1> QED
  BY <1>1, <1>2, <1>3, <1>4

LEMMA TypeLoad ==
  ASSUME TypeOK, Sized, BmpLoad \/ JpegLoad
  PROVE  TypeOK' /\ Sized'
<1>1. pc = "load" /\ opts.file \in Files
  BY DEF BmpLoad, JpegLoad, Sized
<1>2. {opts.file.w, opts.file.h} \subseteq Uint16 \ {0}
  BY <1>1, SizesAssumption
<1>3. ASSUME NEW pm, Loaded(pm), {pm.w, pm.h} \subseteq Uint16 \ {0}
      PROVE  TypeOK' /\ Sized'
  BY <1>1, <1>3 DEF Loaded, TypeOK, Sized
<1>4. ASSUME LoadFails, heap' \in [fill : Byte, short : BOOLEAN, overrun : BOOLEAN]
      PROVE  TypeOK' /\ Sized'
  BY <1>4 DEF LoadFails, FbUninit, TypeOK, Sized
<1>5. CASE BmpLoad
  <2>1. CASE Loaded(LoadPixels(opts.file, fb.pixelsize, heap.fill))
    <3>1. LoadPixels(opts.file, fb.pixelsize, heap.fill).w = opts.file.w
          /\ LoadPixels(opts.file, fb.pixelsize, heap.fill).h = opts.file.h
      BY DEF LoadPixels
    <3> QED BY <1>2, <1>3, <2>1, <3>1
  <2>2. CASE LoadFails /\ UNCHANGED heap
    BY <1>4, <2>2 DEF TypeOK
  <2>3. CASE LoadFails /\ heap' = [heap EXCEPT !.short = TRUE]
    BY <1>4, <2>3 DEF TypeOK
  <2> QED BY <1>5, <2>1, <2>2, <2>3 DEF BmpLoad
<1>6. CASE JpegLoad
  <2>1. CASE Loaded(JpegPixels(opts.file, fb.pixelsize, heap.fill))
    <3>1. JpegPixels(opts.file, fb.pixelsize, heap.fill).w = opts.file.w
          /\ JpegPixels(opts.file, fb.pixelsize, heap.fill).h = opts.file.h
      BY DEF JpegPixels
    <3> QED BY <1>2, <1>3, <2>1, <3>1
  <2>2. CASE LoadFails /\ UNCHANGED heap
    BY <1>4, <2>2 DEF TypeOK
  <2>3. CASE /\ pc' = "crash"
             /\ heap' = [heap EXCEPT !.short = opts.file.state = "good"]
             /\ UNCHANGED <<opts, device, palette, fb, pixmap, dumped>>
    <3>1. heap' \in [fill : Byte, short : BOOLEAN, overrun : BOOLEAN]
      BY <2>3 DEF TypeOK
    <3> QED BY <2>3, <3>1 DEF TypeOK, Sized
  <2> QED BY <1>6, <2>1, <2>2, <2>3 DEF JpegLoad
<1> QED
  BY <1>5, <1>6

LEMMA TypePicture ==
  ASSUME TypeOK, Sized, Autoscale \/ ScalePixmap \/ RotatePixmap \/ HeapAbort \/ Dump \/ Show
  PROVE  TypeOK' /\ Sized'
<1>1. CASE Autoscale
  <2>1. FitScale(pixmap.w, pixmap.h) \in Nat \X (Nat \ {0})
    BY <1>1, FitType DEF Autoscale, Sized
  <2> QED BY <1>1, <2>1 DEF Autoscale, TypeOK, Sized
<1>2. ASSUME NEW to \in {"rotate", "dump"}, NEW new, Replace(to, new), pc \in {"scale", "rotate"},
             new.w \in Uint16, new.h \in Uint16
      PROVE  TypeOK' /\ Sized'
  <2>1. heap' \in [fill : Byte, short : BOOLEAN, overrun : BOOLEAN]
    BY <1>2 DEF Replace, TypeOK
  <2> QED BY <1>2, <2>1 DEF Replace, TypeOK, Sized
<1>3. CASE ScalePixmap
  <2>1. CASE opts.scale[1] = opts.scale[2]
    BY <1>3, <2>1 DEF ScalePixmap, TypeOK, Sized
  <2>2. CASE opts.scale[1] # opts.scale[2]
    <3>1. PICK nw \in ScaledSizes(pixmap.w, opts.scale), nh \in ScaledSizes(pixmap.h, opts.scale) :
            Replace("rotate", Scale(pixmap, nw, nh, opts.scale, fb.pixelsize, heap.fill))
      BY <1>3, <2>2 DEF ScalePixmap
    <3>2. opts.scale \in Nat \X (Nat \ {0}) /\ pixmap.w \in Nat /\ pixmap.h \in Nat
      BY DEF TypeOK, Uint16
    <3>3. nw \in Uint16 /\ nh \in Uint16
      BY <3>2, ScaledRange
    <3>4. Scale(pixmap, nw, nh, opts.scale, fb.pixelsize, heap.fill).w = nw
          /\ Scale(pixmap, nw, nh, opts.scale, fb.pixelsize, heap.fill).h = nh
      BY DEF Scale
    <3> QED BY <1>2, <1>3, <3>1, <3>3, <3>4 DEF ScalePixmap
  <2> QED BY <2>1, <2>2
<1>4. CASE RotatePixmap
  <2>1. CASE opts.rotate = 0
    BY <1>4, <2>1 DEF RotatePixmap, TypeOK, Sized
  <2>2. CASE opts.rotate # 0
    <3> DEFINE new == Rotate(pixmap, opts.rotate, fb.pixelsize, heap.fill)
    <3>1. new.w \in {pixmap.w, pixmap.h} /\ new.h \in {pixmap.w, pixmap.h}
      BY DEF Rotate
    <3>2. Replace("dump", new) /\ pc = "rotate"
      BY <1>4, <2>2 DEF RotatePixmap
    <3> HIDE DEF new
    <3> QED BY <1>2, <3>1, <3>2 DEF TypeOK
  <2> QED BY <2>1, <2>2
<1>5. CASE HeapAbort
  BY <1>5 DEF HeapAbort, TypeOK, Sized
<1>6. CASE Dump
  BY <1>6 DEF Dump, TypeOK, Sized
<1>7. CASE Show
  <2>1. DOMAIN device' = {"mode", "mem", "offset"} /\ device'.mode = device.mode
    BY <1>7 DEF Show, TypeOK
  <2> QED BY <1>7, <2>1 DEF Show, TypeOK, Sized
<1> QED
  BY <1>1, <1>3, <1>4, <1>5, <1>6, <1>7

LEMMA TypeStep == TypeOK /\ Sized /\ [Next]_vars => TypeOK' /\ Sized'
<1> SUFFICES ASSUME TypeOK, Sized, [Next]_vars PROVE TypeOK' /\ Sized'
  OBVIOUS
<1>1. CASE Ended \/ UNCHANGED vars
  BY <1>1 DEF Ended, vars, TypeOK, Sized
<1> QED
  BY <1>1, TypeParams, TypeStart, TypeLoad, TypePicture DEF Next
----------------------------------------------------------------------------
(* A failed run leaves the picture of the console *)

\* Whose the palette is: main gives it back when the codec fails, and a quiet
\* run never takes it.  Nothing is written before the last steps.
ConsoleInv ==
  /\ pc = "init" => ~opts.quiet
  /\ pc \in {"params", "init", "exit1"} => palette = "console"
  /\ pc = "load" /\ opts.quiet => palette = "console"
  /\ pc \notin {"show", "exit0", "crash"} => dumped = {}
  /\ pc # "exit0" => \A b \in DOMAIN device.mem : device.mem[b] = ConsoleByte
  /\ device.offset \in {device.mode.offset, 0}

LEMMA ConsoleInit == Init => ConsoleInv
BY DEF Init, ConsoleInv

LEMMA ConsoleStep == TypeOK /\ ConsoleInv /\ [Next]_vars => ConsoleInv'
<1> SUFFICES ASSUME TypeOK, ConsoleInv, [Next]_vars PROVE ConsoleInv'
  OBVIOUS
<1>1. ASSUME Refuse PROVE ConsoleInv'
  BY <1>1 DEF Refuse, ConsoleInv
<1>2. ASSUME NEW new, Argument(new) PROVE ConsoleInv'
  BY <1>2 DEF Argument, ConsoleInv
<1>3. CASE \/ HelpOrNoValue \/ OptScale \/ OptAutoscale \/ OptRotate
           \/ OptDump \/ OptQuiet \/ OptFile
  BY <1>1, <1>2, <1>3
     DEF HelpOrNoValue, OptScale, OptAutoscale, OptRotate, OptDump, OptQuiet, OptFile
<1>4. CASE EndOfParams
  BY <1>1, <1>4 DEF EndOfParams, ConsoleInv
<1>0. ASSUME UNCHANGED device \/ ScreenAtStart
      PROVE  device'.mem = device.mem /\ device'.mode = device.mode /\ device'.offset \in {device.offset, 0}
  BY <1>0 DEF ScreenAtStart, TypeOK
<1>5. CASE FbInitFails
  BY <1>0, <1>5 DEF FbInitFails, ConsoleInv
<1>6. CASE FbInit
  BY <1>0, <1>6 DEF FbInit, ConsoleInv
<1>7. CASE FbInitNoMemory
  BY <1>0, <1>7 DEF FbInitNoMemory, ConsoleInv
<1>8. ASSUME LoadFails PROVE ConsoleInv'
  BY <1>8 DEF LoadFails, FbUninit, ConsoleInv
<1>9. ASSUME NEW pm, Loaded(pm) PROVE ConsoleInv'
  BY <1>9 DEF Loaded, ConsoleInv
<1>10. CASE BmpLoad
  BY <1>8, <1>9, <1>10 DEF BmpLoad
<1>11. CASE JpegLoad
  <2>1. CASE pc = "load" /\ pc' = "crash" /\ UNCHANGED <<opts, device, palette, fb, pixmap, dumped>>
    BY <2>1 DEF ConsoleInv
  <2> QED BY <1>8, <1>9, <1>11, <2>1 DEF JpegLoad
<1>12. CASE Autoscale
  BY <1>12 DEF Autoscale, ConsoleInv
<1>13. ASSUME pc \in {"scale", "rotate"}, pc' \in {"rotate", "dump"},
              UNCHANGED <<opts, device, palette, dumped>>
       PROVE  ConsoleInv'
  BY <1>13 DEF ConsoleInv
<1>14. CASE ScalePixmap
  BY <1>13, <1>14 DEF ScalePixmap, Replace
<1>15. CASE RotatePixmap
  BY <1>13, <1>15 DEF RotatePixmap, Replace
<1>16. CASE HeapAbort
  BY <1>16 DEF HeapAbort, ConsoleInv
<1>17. CASE Dump
  BY <1>17 DEF Dump, ConsoleInv
<1>18. CASE Show
  <2>1. device'.mode = device.mode /\ device'.offset = device.offset /\ pc' \in {"crash", "exit0"}
        /\ (pc' = "crash" => UNCHANGED device)
    BY <1>18 DEF Show, TypeOK
  <2> QED BY <1>18, <2>1 DEF Show, ConsoleInv
<1>19. CASE Ended \/ UNCHANGED vars
  BY <1>19 DEF Ended, vars, ConsoleInv
<1> QED
  BY <1>3, <1>4, <1>5, <1>6, <1>7, <1>10, <1>11, <1>12, <1>14, <1>15, <1>16, <1>17, <1>18, <1>19 DEF Next
----------------------------------------------------------------------------
(* An autoscaled picture fits *)

Fits(w, h) ==
  /\ w <= fb.xres /\ h <= fb.yres
  /\ w >= fb.xres - 1 \/ h >= fb.yres - 1

\* From the choice of the scale to the end of the run
FitInv ==
  opts.autoscale /\ ~opts.quiet =>
    /\ pc = "scale" => /\ {pixmap.w, pixmap.h} \subseteq Uint16 \ {0}
                       /\ opts.scale = FitScale(pixmap.w, pixmap.h)
    /\ pc = "rotate" /\ ~heap.short => Fits(pixmap.w, pixmap.h)
    /\ pc \in {"dump", "show", "exit0"} /\ ~heap.short /\ opts.rotate = 0 => Fits(pixmap.w, pixmap.h)

\* The picture that is scaled by the chosen fraction, or left alone when it is 1
LEMMA ScaledFits ==
  ASSUME NEW w \in Uint16 \ {0}, NEW h \in Uint16 \ {0},
         fb.xres \in Uint16 \ {0}, fb.yres \in Uint16 \ {0},
         NEW nw \in ScaledSizes(w, FitScale(w, h)), NEW nh \in ScaledSizes(h, FitScale(w, h))
  PROVE  Fits(nw, nh)
<1> DEFINE X == fb.xres
           Y == fb.yres
<1>0. {w, h, X, Y} \subseteq Nat \ {0} /\ X < 65536 /\ Y < 65536
  BY DEF Uint16
<1>1. ASSUME NEW n, NEW r, r = n % 65536, NEW up \in Nat, NEW d \in Nat \ {0}, NEW b \in Nat,
             SizeOf(n, up, d), up <= b * d, b < 65536
      PROVE  r = n /\ r \in Nat /\ r <= b /\ up \div d <= r + 1
  <2>1. n \in Nat /\ (n > 0 => (n - 1) * d < b * d) /\ up \div d <= n + 1
    <3>1. n \in Nat /\ (n > 0 => (n - 1) * d < up) /\ up \div d <= n + 1
      BY <1>1 DEF SizeOf
    <3>2. (n - 1) * d \in Int /\ b * d \in Int
      BY <3>1
    <3> QED BY <1>1, <3>1, <3>2
  <2>2. n <= b
    <3> SUFFICES ASSUME n >= b + 1 PROVE FALSE
      BY <2>1
    <3>1. PICK z \in Nat : n - 1 = b + z
      <4>1. n - 1 - b \in Nat /\ n - 1 = b + (n - 1 - b)
        BY <2>1
      <4> QED BY <4>1
    <3>2. (b + z) * d = b * d + z * d /\ z * d \in Nat /\ b * d \in Nat
      OBVIOUS
    <3> QED BY <2>1, <3>1, <3>2
  <2>3. n % 65536 = n
    BY <1>1, <2>1, <2>2
  <2> QED BY <1>1, <2>1, <2>2, <2>3
<1>2. CASE X * h > w * Y
  <2>1. FitScale(w, h) = <<Y, h>>
    BY <1>2 DEF FitScale
  <2>2. <<Y, h>> \in Nat \X (Nat \ {0}) /\ <<Y, h>>[1] = Y /\ <<Y, h>>[2] = h
    BY <1>0
  <2>3. PICK n : SizeOf(n, w * Y, h) /\ nw = n % 65536
    BY <1>0, <2>1, <2>2, ScaledRange
  <2>4. PICK m : SizeOf(m, h * Y, h) /\ nh = m % 65536
    BY <1>0, <2>1, <2>2, ScaledRange
  <2>5. w * Y \in Nat /\ w * Y <= X * h /\ h * Y \in Nat /\ h * Y <= Y * h
    BY <1>0, <1>2
  <2>6. (h * Y) \div h = Y
    BY <1>0, DivExact
  <2>7. nw \in Nat /\ nw <= X
    BY <1>0, <1>1, <2>3, <2>5
  <2>8. nh \in Nat /\ nh <= Y /\ Y <= nh + 1
    BY <1>0, <1>1, <2>4, <2>5, <2>6
  <2> QED BY <1>0, <2>7, <2>8 DEF Fits
<1>3. CASE ~(X * h > w * Y)
  <2>1. FitScale(w, h) = <<X, w>>
    BY <1>3 DEF FitScale
  <2>2. <<X, w>> \in Nat \X (Nat \ {0}) /\ <<X, w>>[1] = X /\ <<X, w>>[2] = w
    BY <1>0
  <2>3. PICK n : SizeOf(n, w * X, w) /\ nw = n % 65536
    BY <1>0, <2>1, <2>2, ScaledRange
  <2>4. PICK m : SizeOf(m, h * X, w) /\ nh = m % 65536
    BY <1>0, <2>1, <2>2, ScaledRange
  <2>5. h * X \in Nat /\ h * X <= Y * w /\ w * X \in Nat /\ w * X <= X * w
    BY <1>0, <1>3
  <2>6. (w * X) \div w = X
    BY <1>0, DivExact
  <2>7. nh \in Nat /\ nh <= Y
    <3> DEFINE up == h * X
    <3>1. SizeOf(m, up, w) /\ up \in Nat /\ up <= Y * w
      BY <2>4, <2>5
    <3> HIDE DEF up
    <3> QED BY <1>0, <1>1, <2>4, <3>1
  <2>8. nw \in Nat /\ nw <= X /\ X <= nw + 1
    BY <1>0, <1>1, <2>3, <2>5, <2>6
  <2> QED BY <1>0, <2>7, <2>8 DEF Fits
<1> QED
  BY <1>2, <1>3

\* At scale 1 the picture has the size of the screen in one direction already.
LEMMA UnscaledFits ==
  ASSUME NEW w \in Uint16 \ {0}, NEW h \in Uint16 \ {0},
         fb.xres \in Uint16 \ {0}, fb.yres \in Uint16 \ {0},
         FitScale(w, h)[1] = FitScale(w, h)[2]
  PROVE  Fits(w, h)
<1> DEFINE X == fb.xres
           Y == fb.yres
<1>0. {w, h, X, Y} \subseteq Nat \ {0}
  BY DEF Uint16
<1>1. CASE X * h > w * Y
  <2>1. Y = h
    BY <1>1 DEF FitScale
  <2>2. X * h > w * h
    BY <1>1, <2>1
  <2>3. X > w
    BY <1>0, <2>2
  <2> QED BY <1>0, <2>1, <2>3 DEF Fits
<1>2. CASE ~(X * h > w * Y)
  <2>1. X = w
    BY <1>2 DEF FitScale
  <2>2. w * h <= w * Y
    BY <1>0, <1>2, <2>1
  <2>3. h <= Y
    BY <1>0, <2>2
  <2> QED BY <1>0, <2>1, <2>3 DEF Fits
<1> QED
  BY <1>1, <1>2

LEMMA FitInit == Init => FitInv
BY DEF Init, FitInv

LEMMA FitStep == TypeOK /\ Sized /\ FitInv /\ [Next]_vars => FitInv'
<1> SUFFICES ASSUME TypeOK, Sized, FitInv, [Next]_vars PROVE FitInv'
  OBVIOUS
<1>1. CASE Autoscale
  <2>1. UNCHANGED <<fb, pixmap, heap>> /\ pc = "autoscale" /\ pc' = "scale"
    BY <1>1 DEF Autoscale
  <2>2. opts'.autoscale = opts.autoscale
        /\ (opts.autoscale => opts'.scale = FitScale(pixmap.w, pixmap.h))
    BY <1>1 DEF Autoscale, TypeOK
  <2>3. FitScale(pixmap.w, pixmap.h)' = FitScale(pixmap.w, pixmap.h)
    BY <2>1 DEF FitScale
  <2>4. {pixmap.w, pixmap.h} \subseteq Uint16 \ {0}
    BY <2>1 DEF Sized
  <2> QED BY <2>1, <2>2, <2>3, <2>4 DEF FitInv
<1>2. CASE ScalePixmap
  <2>1. pc = "scale" /\ pc' = "rotate" /\ UNCHANGED <<opts, fb>>
    BY <1>2 DEF ScalePixmap, Replace
  <2> SUFFICES ASSUME opts.autoscale, ~opts.quiet, ~heap'.short
               PROVE  Fits(pixmap'.w, pixmap'.h)
    BY <2>1 DEF FitInv, Fits
  <2>2. /\ pixmap.w \in Uint16 \ {0} /\ pixmap.h \in Uint16 \ {0}
        /\ fb.xres \in Uint16 \ {0} /\ fb.yres \in Uint16 \ {0}
        /\ opts.scale = FitScale(pixmap.w, pixmap.h)
    BY <2>1 DEF FitInv, Sized
  <2>3. CASE opts.scale[1] = opts.scale[2]
    <3>1. Fits(pixmap.w, pixmap.h)
      BY <2>2, <2>3, UnscaledFits
    <3> QED BY <1>2, <2>3, <3>1 DEF ScalePixmap
  <2>4. CASE opts.scale[1] # opts.scale[2]
    <3>1. PICK nw \in ScaledSizes(pixmap.w, opts.scale), nh \in ScaledSizes(pixmap.h, opts.scale) :
            Replace("rotate", Scale(pixmap, nw, nh, opts.scale, fb.pixelsize, heap.fill))
      BY <1>2, <2>4 DEF ScalePixmap
    <3>2. heap'.short \/ pixmap' = Scale(pixmap, nw, nh, opts.scale, fb.pixelsize, heap.fill)
      BY <3>1 DEF Replace, TypeOK
    <3>3. pixmap'.w = nw /\ pixmap'.h = nh
      BY <3>2 DEF Scale
    <3>4. Fits(nw, nh)
      BY <2>2, ScaledFits
    <3> QED BY <3>3, <3>4
  <2> QED BY <2>3, <2>4
<1>3. CASE RotatePixmap
  <2>1. pc = "rotate" /\ pc' = "dump" /\ UNCHANGED <<opts, fb>>
    BY <1>3 DEF RotatePixmap, Replace
  <2>2. CASE opts.rotate = 0
    BY <1>3, <2>1, <2>2 DEF RotatePixmap, FitInv, Fits
  <2>3. CASE opts.rotate # 0
    BY <2>1, <2>3 DEF FitInv
  <2> QED BY <2>2, <2>3
<1>4. CASE pc' \notin {"scale", "rotate", "dump", "show", "exit0"}
  BY <1>4 DEF FitInv
<1>5. CASE Dump \/ Show
  BY <1>5 DEF Dump, Show, FitInv, Fits
<1>6. CASE Ended \/ UNCHANGED vars
  BY <1>6 DEF Ended, vars, FitInv, Fits, FitScale
<1>7. CASE \/ HelpOrNoValue \/ OptScale \/ OptAutoscale \/ OptRotate
           \/ OptDump \/ OptQuiet \/ OptFile \/ EndOfParams
  <2>1. pc' \in {"params", "init", "load", "exit1"}
    BY <1>7 DEF HelpOrNoValue, OptScale, OptAutoscale, OptRotate, OptDump, OptQuiet, OptFile,
                EndOfParams, Argument, Refuse
  <2> QED BY <1>4, <2>1
<1>8. CASE FbInitFails \/ FbInit \/ FbInitNoMemory \/ BmpLoad \/ JpegLoad \/ HeapAbort
  <2>1. pc' \in {"load", "exit1", "crash", "autoscale"}
    BY <1>8 DEF FbInitFails, FbInit, FbInitNoMemory, BmpLoad, JpegLoad, HeapAbort, Loaded, LoadFails
  <2> QED BY <1>4, <2>1
<1> QED
  BY <1>1, <1>2, <1>3, <1>5, <1>6, <1>7, <1>8 DEF Next
----------------------------------------------------------------------------
(* Pictures: what is in a pixmap *)

\* Quotient and remainder are the only ones that fit.
LEMMA DivModIs ==
  ASSUME NEW d \in Nat \ {0}, NEW q \in Nat, NEW r \in Nat, r < d
  PROVE  (q * d + r) \div d = q /\ (q * d + r) % d = r
<1> DEFINE a == q * d + r
<1> DEFINE e == a \div d
<1>1. a \in Nat /\ q * d \in Nat
  OBVIOUS
<1>2. e \in Nat /\ d * e <= a /\ a < d * e + d
  BY <1>1, DivBounds
<1>3. a % d = a - d * e
  BY <1>1
<1> HIDE DEF e
<1>4. ~(e < q)
  <2> SUFFICES ASSUME e < q PROVE FALSE
    OBVIOUS
  <2>1. PICK z \in Nat : q = e + 1 + z
    <3>1. q - e - 1 \in Nat /\ q = e + 1 + (q - e - 1)
      BY <1>2
    <3> QED BY <3>1
  <2>2. (e + 1 + z) * d = d * e + d + z * d /\ z * d \in Nat
    BY <1>2
  <2> QED BY <1>2, <2>1, <2>2
<1>5. ~(q < e)
  <2> SUFFICES ASSUME q < e PROVE FALSE
    OBVIOUS
  <2>1. PICK z \in Nat : e = q + 1 + z
    <3>1. e - q - 1 \in Nat /\ e = q + 1 + (e - q - 1)
      BY <1>2
    <3> QED BY <3>1
  <2>2. d * (q + 1 + z) = q * d + d + z * d /\ z * d \in Nat
    OBVIOUS
  <2> QED BY <1>1, <1>2, <2>1, <2>2
<1>6. e = q
  BY <1>2, <1>4, <1>5
<1>7. d * q = q * d
  OBVIOUS
<1> QED
  BY <1>1, <1>3, <1>6, <1>7 DEF e

\* Colour c is three bytes.
IsColour(c) == c[1] \in Byte /\ c[2] \in Byte /\ c[3] \in Byte

\* A pixmap of 8 or 16 bits a pixel, and one in which every pixel has been
\* written: the top bit of a 16 bit pixel is set.
IsBytes(pm, ps) ==
  /\ pm = [w |-> pm.w, h |-> pm.h, mem |-> pm.mem]
  /\ pm.mem \in [0 .. (pm.w * pm.h) * ps - 1 -> Byte]
IsPicture(pm, ps) ==
  /\ IsBytes(pm, ps)
  /\ ps = 2 => \A k \in 0 .. pm.w * pm.h - 1 : pm.mem[k * 2 + 1] >= 128

LEMMA SetPixelBytes ==
  ASSUME NEW ps \in {1, 2}, NEW c, IsColour(c)
  PROVE  /\ \A o \in 0 .. ps - 1 : SetPixel(ps, c)[o] \in Byte
         /\ ps = 2 => SetPixel(ps, c)[1] >= 128
<1> DEFINE R == c[1]
           G == c[2]
           B == c[3]
<1>1. R \in Byte /\ G \in Byte /\ B \in Byte
  BY DEF IsColour
<1>2. CASE ps = 1
  <2>1. SetPixel(1, c)[0] = (R \div 32) * 32 + (G \div 32) * 4 + B \div 64
    BY DEF SetPixel
  <2>2. \A o \in 0 .. ps - 1 : o = 0
    BY <1>2
  <2> HIDE DEF R, G, B
  <2>3. (R \div 32) * 32 + (G \div 32) * 4 + B \div 64 \in Byte
    BY <1>1 DEF Byte
  <2> QED BY <1>2, <2>1, <2>2, <2>3
<1>3. CASE ps = 2
  <2>1. /\ SetPixel(2, c)[0] = ((G \div 8) % 8) * 32 + R \div 8
        /\ SetPixel(2, c)[1] = 128 + (B \div 8) * 4 + G \div 64
    BY DEF SetPixel
  <2>2. \A o \in 0 .. ps - 1 : o = 0 \/ o = 1
    BY <1>3
  <2> HIDE DEF R, G, B
  <2>3. /\ ((G \div 8) % 8) * 32 + R \div 8 \in Byte
        /\ 128 + (B \div 8) * 4 + G \div 64 \in Byte
        /\ 128 + (B \div 8) * 4 + G \div 64 >= 128
    BY <1>1 DEF Byte
  <2> QED BY <1>3, <2>1, <2>2, <2>3
<1> QED BY <1>2, <1>3

LEMMA SetPixelDomain ==
  ASSUME NEW ps \in {1, 2}, NEW c
  PROVE  DOMAIN SetPixel(ps, c) = 0 .. ps - 1
<1>1. CASE ps = 1
  <2>1. {0} = 0 .. ps - 1
    BY <1>1
  <2>2. DOMAIN SetPixel(1, c) = {0}
    BY DEF SetPixel
  <2> QED BY <1>1, <2>1, <2>2
<1>2. CASE ps = 2
  <2>1. 0 .. 1 = 0 .. ps - 1
    BY <1>2
  <2>2. DOMAIN SetPixel(2, c) = 0 .. 1
    BY DEF SetPixel
  <2> QED BY <1>2, <2>1, <2>2
<1> QED BY <1>1, <1>2

\* Byte o of pixel k is what fb_set_pixel has written for the colour of k.
Written(mem, n, ps, colour) ==
  \A k \in 0 .. n - 1, o \in 0 .. ps - 1 : mem[k * ps + o] = SetPixel(ps, colour[k])[o]

LEMMA FilledWritten ==
  ASSUME NEW n \in Nat, NEW ps, NEW colour, NEW fill, ps \in {1, 2}, DOMAIN colour = 0 .. n - 1
  PROVE  /\ Written(Filled(n, ps, colour, fill), n, ps, colour)
         /\ DOMAIN Filled(n, ps, colour, fill) = 0 .. n * ps - 1
<1> SUFFICES ASSUME NEW k \in 0 .. n - 1, NEW o \in 0 .. ps - 1
             PROVE  Filled(n, ps, colour, fill)[k * ps + o] = SetPixel(ps, colour[k])[o]
  BY DEF Written, Filled
<1> DEFINE b == k * ps + o
<1> DEFINE hit == {l \in DOMAIN colour : b - l * ps \in DOMAIN SetPixel(ps, colour[l])}
<1>1. b \in 0 .. n * ps - 1 /\ b - k * ps = o
  OBVIOUS
<1>2. \A l \in hit : l = k
  <2> SUFFICES ASSUME NEW l \in 0 .. n - 1, b - l * ps \in 0 .. ps - 1 PROVE l = k
    BY SetPixelDomain
  <2> QED OBVIOUS
<1>3. k \in hit
  BY <1>1, SetPixelDomain
<1>4. hit = {k}
  BY <1>2, <1>3
<1>5. Filled(n, ps, colour, fill)[b] =
        IF hit = {} THEN fill ELSE LET l == CHOOSE l \in hit : TRUE IN SetPixel(ps, colour[l])[b - l * ps]
  BY <1>1 DEF Filled
<1> HIDE DEF hit
<1>6. hit # {} /\ (CHOOSE l \in hit : TRUE) = k
  BY <1>4
<1> QED BY <1>1, <1>5, <1>6

\* An offset is a pixel and a byte of it.
LEMMA Offsets ==
  ASSUME NEW n \in Nat, NEW ps \in {1, 2}, NEW b \in 0 .. n * ps - 1
  PROVE  \E k \in 0 .. n - 1, o \in 0 .. ps - 1 : b = k * ps + o
<1>1. CASE ps = 1
  <2>1. b \in 0 .. n - 1 /\ 0 \in 0 .. ps - 1 /\ b = b * ps + 0
    BY <1>1
  <2> QED BY <2>1
<1>2. CASE ps = 2
  <2> DEFINE k == b \div 2
  <2> DEFINE o == b % 2
  <2>1. k \in 0 .. n - 1 /\ o \in 0 .. ps - 1 /\ b = k * ps + o
    BY <1>2
  <2> QED BY <2>1
<1> QED BY <1>1, <1>2

\* A pixmap in which fb_set_pixel has written every pixel is a picture.
LEMMA FilledPicture ==
  ASSUME NEW w \in Nat, NEW h \in Nat, NEW ps \in {1, 2}, NEW colour, NEW fill,
         DOMAIN colour = 0 .. w * h - 1, \A k \in 0 .. w * h - 1 : IsColour(colour[k])
  PROVE  IsPicture([w |-> w, h |-> h, mem |-> Filled(w * h, ps, colour, fill)], ps)
<1> DEFINE n == w * h
<1> DEFINE mem == Filled(n, ps, colour, fill)
<1>1. n \in Nat
  OBVIOUS
<1>2. mem = [b \in DOMAIN mem |-> mem[b]]
  BY DEF Filled
<1>3. DOMAIN colour = 0 .. n - 1 /\ \A k \in 0 .. n - 1 : IsColour(colour[k])
  OBVIOUS
<1> HIDE DEF n
<1>4. Written(mem, n, ps, colour) /\ DOMAIN mem = 0 .. n * ps - 1
  <2>1. DOMAIN colour = 0 .. n - 1
    BY <1>3
  <2> QED BY <1>1, <2>1, FilledWritten, SMT
<1> HIDE DEF mem
<1>5. ASSUME NEW b \in 0 .. n * ps - 1 PROVE mem[b] \in Byte
  <2>1. PICK k \in 0 .. n - 1, o \in 0 .. ps - 1 : b = k * ps + o
    BY <1>1, Offsets
  <2>2. mem[b] = SetPixel(ps, colour[k])[o]
    BY <1>4, <2>1 DEF Written
  <2> QED BY <1>3, <2>2, SetPixelBytes
<1>6. mem \in [0 .. n * ps - 1 -> Byte]
  BY <1>2, <1>4, <1>5
<1>7. ASSUME ps = 2, NEW k \in 0 .. n - 1 PROVE mem[k * 2 + 1] >= 128
  <2>1. 1 \in 0 .. ps - 1
    BY <1>7
  <2>2. mem[k * 2 + 1] = SetPixel(ps, colour[k])[1]
    BY <1>4, <1>7, <2>1 DEF Written
  <2> QED BY <1>3, <1>7, <2>2, SetPixelBytes
<1> QED BY <1>6, <1>7 DEF IsPicture, IsBytes, n, mem

\* A pixmap of which fb_set_pixel has written some pixels holds bytes.
LEMMA FilledBytes ==
  ASSUME NEW w \in Nat, NEW h \in Nat, NEW ps \in {1, 2}, NEW colour, NEW fill \in Byte,
         DOMAIN colour \subseteq Nat, \A k \in DOMAIN colour : IsColour(colour[k])
  PROVE  IsBytes([w |-> w, h |-> h, mem |-> Filled(w * h, ps, colour, fill)], ps)
<1> DEFINE n == w * h
           Hit(b) == {k \in DOMAIN colour : b - k * ps \in DOMAIN SetPixel(ps, colour[k])}
           Value(b) == IF Hit(b) = {} THEN fill
                       ELSE LET k == CHOOSE k \in Hit(b) : TRUE IN SetPixel(ps, colour[k])[b - k * ps]
           mem == [b \in 0 .. n * ps - 1 |-> Value(b)]
<1>1. Filled(n, ps, colour, fill) = mem
  BY DEF Filled
<1>2. ASSUME NEW b \in 0 .. n * ps - 1 PROVE Value(b) \in Byte
  <2>1. CASE Hit(b) = {}
    BY <2>1
  <2>2. CASE Hit(b) # {}
    <3> DEFINE k == CHOOSE k \in Hit(b) : TRUE
    <3>1. k \in Hit(b)
      BY <2>2
    <3>2. Value(b) = SetPixel(ps, colour[k])[b - k * ps]
      BY <2>2
    <3>3. IsColour(colour[k]) /\ b - k * ps \in DOMAIN SetPixel(ps, colour[k])
      BY <3>1
    <3> HIDE DEF k
    <3>4. b - k * ps \in 0 .. ps - 1
      BY <3>3, SetPixelDomain
    <3> DEFINE o == b - k * ps
    <3> HIDE DEF Value, o
    <3>5. SetPixel(ps, colour[k])[o] \in Byte
      BY <3>3, <3>4, SetPixelBytes DEF o
    <3> QED BY <3>2, <3>5 DEF o
  <2> QED BY <2>1, <2>2
<1> HIDE DEF Value
<1>3. mem \in [0 .. n * ps - 1 -> Byte]
  BY <1>2
<1> HIDE DEF mem
<1> QED BY <1>1, <1>3 DEF IsBytes, n

\* Reading a pixel of a picture gives a colour, and writing that colour gives
\* the bytes of the pixel.
ReadAt(ps, mem, k, c) == \A a \in 1 .. 3 : c[a] = GetPixel(ps, mem, k * ps)[a]
WritesBack(ps, c, mem, k) == \A o \in 0 .. ps - 1 : SetPixel(ps, c)[o] = mem[k * ps + o]

LEMMA ReadWrite ==
  ASSUME NEW pm, NEW ps \in {1, 2}, IsPicture(pm, ps), pm.w \in Nat, pm.h \in Nat,
         NEW k \in 0 .. pm.w * pm.h - 1, NEW c, ReadAt(ps, pm.mem, k, c)
  PROVE  IsColour(c) /\ WritesBack(ps, c, pm.mem, k)
<1> DEFINE n == pm.w * pm.h
<1>1. n \in Nat
  OBVIOUS
<1>2. pm.mem \in [0 .. n * ps - 1 -> Byte] /\ k \in 0 .. n - 1
      /\ (ps = 2 => pm.mem[k * 2 + 1] >= 128)
  BY DEF IsPicture, IsBytes
<1> HIDE DEF n
<1>c. c[1] = GetPixel(ps, pm.mem, k * ps)[1] /\ c[2] = GetPixel(ps, pm.mem, k * ps)[2]
      /\ c[3] = GetPixel(ps, pm.mem, k * ps)[3]
  BY DEF ReadAt
<1>3. CASE ps = 1
  <2> DEFINE m == pm.mem[k]
  <2>1. m \in Byte /\ k * ps = k
    BY <1>1, <1>2, <1>3
  <2>2. c[1] = (m \div 32) * 32 /\ c[2] = ((m \div 4) % 8) * 32 /\ c[3] = (m % 4) * 64
    BY <1>3, <1>c, <2>1 DEF GetPixel
  <2> HIDE DEF m
  <2>3. /\ (m \div 32) * 32 \in Byte /\ ((m \div 4) % 8) * 32 \in Byte /\ (m % 4) * 64 \in Byte
        /\ (((m \div 32) * 32) \div 32) * 32 + ((((m \div 4) % 8) * 32) \div 32) * 4 + ((m % 4) * 64) \div 64 = m
    BY <2>1 DEF Byte
  <2>4. SetPixel(1, c)[0] = m
    BY <2>2, <2>3 DEF SetPixel
  <2>5. \A o \in 0 .. ps - 1 : o = 0 /\ k * ps + o = k
    BY <1>3, <2>1, <1>1
  <2> QED BY <1>3, <2>2, <2>3, <2>4, <2>5 DEF IsColour, WritesBack, m
<1>4. CASE ps = 2
  <2> DEFINE lo == pm.mem[k * 2]
             hi == pm.mem[k * 2 + 1]
  <2>1. lo \in Byte /\ hi \in Byte /\ hi >= 128
    <3>1. k * 2 \in 0 .. n * ps - 1 /\ k * 2 + 1 \in 0 .. n * ps - 1
      BY <1>1, <1>2, <1>4
    <3> QED BY <1>2, <1>4, <3>1
  <2>2. /\ c[1] = (lo % 32) * 8
        /\ c[2] = (hi % 4) * 64 + (lo \div 32) * 8
        /\ c[3] = ((hi \div 4) % 32) * 8
    BY <1>4, <1>c DEF GetPixel
  <2> HIDE DEF lo, hi
  <2>3. /\ (lo % 32) * 8 \in Byte /\ ((lo % 32) * 8) \div 8 = lo % 32
        /\ ((hi \div 4) % 32) * 8 \in Byte /\ (((hi \div 4) % 32) * 8) \div 8 = (hi \div 4) % 32
    BY <2>1 DEF Byte
  <2>4. ASSUME NEW u \in 0 .. 3, NEW v \in 0 .. 7
        PROVE  u * 64 + v * 8 \in Byte /\ (u * 64 + v * 8) \div 64 = u /\ ((u * 64 + v * 8) \div 8) % 8 = v
    BY DEF Byte
  <2>5. hi % 4 \in 0 .. 3 /\ lo \div 32 \in 0 .. 7
    BY <2>1 DEF Byte
  <2>6. (lo \div 32) * 32 + (lo % 32) = lo /\ 128 + ((hi \div 4) % 32) * 4 + (hi % 4) = hi
    BY <2>1 DEF Byte
  <2>7. SetPixel(2, c)[0] = lo /\ SetPixel(2, c)[1] = hi
    <3>1. /\ SetPixel(2, c)[0] = ((c[2] \div 8) % 8) * 32 + c[1] \div 8
          /\ SetPixel(2, c)[1] = 128 + (c[3] \div 8) * 4 + c[2] \div 64
      BY DEF SetPixel
    <3>2. (c[2] \div 8) % 8 = lo \div 32 /\ c[2] \div 64 = hi % 4
      BY <2>2, <2>4, <2>5
    <3> QED BY <2>2, <2>3, <2>6, <3>1, <3>2
  <2>8. \A o \in 0 .. ps - 1 : (o = 0 /\ k * ps + o = k * 2) \/ (o = 1 /\ k * ps + o = k * 2 + 1)
    BY <1>2, <1>4, <1>1
  <2> QED BY <1>4, <2>2, <2>3, <2>4, <2>5, <2>7, <2>8 DEF IsColour, WritesBack, lo, hi
<1> QED BY <1>3, <1>4

\* The column and the row of a pixel
LEMMA PixelPlace ==
  ASSUME NEW w \in Nat, NEW h \in Nat, NEW k \in 0 .. w * h - 1
  PROVE  /\ w \in Nat \ {0}
         /\ k % w \in 0 .. w - 1 /\ k \div w \in 0 .. h - 1
         /\ k = (k % w) + (k \div w) * w
<1>1. w # 0
  BY SMT
<1> DEFINE q == k \div w
<1>2. q \in Nat /\ w * q <= k /\ k < w * q + w /\ k % w = k - w * q
  BY <1>1
<1> HIDE DEF q
<1>3. q < h
  <2> SUFFICES ASSUME q >= h PROVE FALSE
    BY <1>2
  <2>1. PICK z \in Nat : q = h + z
    <3>1. q - h \in Nat /\ q = h + (q - h)
      BY <1>2
    <3> QED BY <3>1
  <2>2. w * (h + z) = w * h + w * z /\ w * z \in Nat
    OBVIOUS
  <2> QED BY <1>2, <2>1, <2>2
<1>4. w * q = q * w /\ w * q \in Nat
  BY <1>2
<1> QED BY <1>1, <1>2, <1>3, <1>4 DEF q

\* The index of a pixel
LEMMA PixelIndex ==
  ASSUME NEW w \in Nat, NEW h \in Nat, NEW x \in 0 .. w - 1, NEW y \in 0 .. h - 1
  PROVE  /\ x + y * w \in 0 .. w * h - 1
         /\ (x + y * w) % w = x /\ (x + y * w) \div w = y
<1>1. w \in Nat \ {0}
  OBVIOUS
<1>2. x + y * w \in 0 .. w * h - 1
  <2>1. PICK z \in Nat : h = y + 1 + z
    <3>1. h - y - 1 \in Nat /\ h = y + 1 + (h - y - 1)
      OBVIOUS
    <3> QED BY <3>1
  <2>2. w * (y + 1 + z) = y * w + w + z * w /\ z * w \in Nat /\ y * w \in Nat
    OBVIOUS
  <2> QED BY <2>1, <2>2
<1>3. y \in Nat /\ x \in Nat /\ x < w /\ x + y * w = y * w + x
  OBVIOUS
<1>4. (y * w + x) \div w = y /\ (y * w + x) % w = x
  BY <1>1, <1>3, DivModIs
<1> QED BY <1>2, <1>3, <1>4

\* The pixel in column x of row y, and what fb_get_pixel makes of a colour that
\* fb_set_pixel has written
PixelOf(pm, ps, x, y) == GetPixel(ps, pm.mem, (x + y * pm.w) * ps)
Quant(ps, c) == GetPixel(ps, SetPixel(ps, c), 0)

\* The step in which channel a is stored
StepOf(ps, a) == IF ps = 2 THEN 8 ELSE IF a = 3 THEN 64 ELSE 32

\* Writing a colour and reading it rounds every channel down to a step.
LEMMA QuantIs ==
  ASSUME NEW ps \in {1, 2}, NEW c, IsColour(c), NEW a \in 1 .. 3
  PROVE  Quant(ps, c)[a] = (c[a] \div StepOf(ps, a)) * StepOf(ps, a)
<1> DEFINE R == c[1]
           G == c[2]
           B == c[3]
<1>1. R \in Byte /\ G \in Byte /\ B \in Byte
  BY DEF IsColour
<1>2. CASE ps = 1
  <2> DEFINE m == (R \div 32) * 32 + (G \div 32) * 4 + B \div 64
  <2>1. SetPixel(1, c)[0] = m
    BY DEF SetPixel
  <2>2. Quant(1, c) = <<(m \div 32) * 32, ((m \div 4) % 8) * 32, (m % 4) * 64>>
    BY <2>1 DEF Quant, GetPixel
  <2> HIDE DEF R, G, B
  <2>3. ASSUME NEW u \in 0 .. 7, NEW v \in 0 .. 7, NEW w \in 0 .. 3
        PROVE  (u * 32 + v * 4 + w) \div 32 = u /\ ((u * 32 + v * 4 + w) \div 4) % 8 = v /\ (u * 32 + v * 4 + w) % 4 = w
    OBVIOUS
  <2>4. R \div 32 \in 0 .. 7 /\ G \div 32 \in 0 .. 7 /\ B \div 64 \in 0 .. 3
    BY <1>1 DEF Byte
  <2>5. Quant(1, c) = <<(R \div 32) * 32, (G \div 32) * 32, (B \div 64) * 64>>
    BY <2>2, <2>3, <2>4
  <2> QED BY <1>2, <2>5 DEF StepOf, R, G, B
<1>3. CASE ps = 2
  <2> DEFINE lo == ((G \div 8) % 8) * 32 + R \div 8
             hi == 128 + (B \div 8) * 4 + G \div 64
  <2>1. SetPixel(2, c)[0] = lo /\ SetPixel(2, c)[1] = hi
    BY DEF SetPixel
  <2>2. Quant(2, c) = <<(lo % 32) * 8, (hi % 4) * 64 + (lo \div 32) * 8, ((hi \div 4) % 32) * 8>>
    BY <2>1 DEF Quant, GetPixel
  <2> HIDE DEF R, G, B
  <2>3. ASSUME NEW u \in 0 .. 7, NEW v \in 0 .. 31
        PROVE  (u * 32 + v) % 32 = v /\ (u * 32 + v) \div 32 = u
    OBVIOUS
  <2>4. ASSUME NEW u \in 0 .. 31, NEW v \in 0 .. 3
        PROVE  ((128 + u * 4 + v) \div 4) % 32 = u /\ (128 + u * 4 + v) % 4 = v
    OBVIOUS
  <2>5. /\ R \div 8 \in 0 .. 31 /\ (G \div 8) % 8 \in 0 .. 7 /\ B \div 8 \in 0 .. 31 /\ G \div 64 \in 0 .. 3
        /\ (G \div 64) * 64 + ((G \div 8) % 8) * 8 = (G \div 8) * 8
    BY <1>1 DEF Byte
  <2>6. lo % 32 = R \div 8 /\ lo \div 32 = (G \div 8) % 8 /\ hi % 4 = G \div 64 /\ (hi \div 4) % 32 = B \div 8
    BY <2>3, <2>4, <2>5
  <2> HIDE DEF lo, hi
  <2>7. Quant(2, c) = <<(R \div 8) * 8, (G \div 8) * 8, (B \div 8) * 8>>
    BY <2>2, <2>5, <2>6
  <2> QED BY <1>3, <2>7 DEF StepOf, R, G, B
<1> QED BY <1>2, <1>3

\* Only the three channels count.
LEMMA QuantSame ==
  ASSUME NEW ps, NEW c, NEW d, c[1] = d[1], c[2] = d[2], c[3] = d[3], ps \in {1, 2}
  PROVE  Quant(ps, c) = Quant(ps, d)
<1>1. CASE ps = 1
  BY <1>1 DEF Quant, GetPixel, SetPixel
<1>2. CASE ps = 2
  BY <1>2 DEF Quant, GetPixel, SetPixel
<1> QED BY <1>1, <1>2

\* What fb_get_pixel finds where fb_set_pixel has written
ReadsBack(mem, n, ps, colour) ==
  \A k \in 0 .. n - 1 : GetPixel(ps, mem, k * ps) = Quant(ps, colour[k])

LEMMA ReadBack ==
  ASSUME NEW mem, NEW n \in Nat, NEW ps \in {1, 2}, NEW colour, Written(mem, n, ps, colour)
  PROVE  ReadsBack(mem, n, ps, colour)
<1> SUFFICES ASSUME NEW k \in 0 .. n - 1 PROVE GetPixel(ps, mem, k * ps) = Quant(ps, colour[k])
  BY DEF ReadsBack
<1>1. 0 \in 0 .. ps - 1 /\ k * ps + 0 = k * ps
  OBVIOUS
<1>2. mem[k * ps] = SetPixel(ps, colour[k])[0]
  BY <1>1 DEF Written
<1>3. CASE ps = 1
  BY <1>2, <1>3 DEF GetPixel, Quant
<1>4. CASE ps = 2
  <2>1. 1 \in 0 .. ps - 1 /\ 0 + 1 = 1
    BY <1>4
  <2>2. mem[k * ps + 1] = SetPixel(ps, colour[k])[1]
    BY <2>1 DEF Written
  <2> QED BY <1>2, <1>4, <2>1, <2>2 DEF GetPixel, Quant
<1> QED BY <1>3, <1>4

\* A value that is not below a rounded one stays so when it is rounded too.
LEMMA RoundedKeeps ==
  ASSUME NEW d \in {8, 32, 64}, NEW v \in Byte, NEW z \in Byte, (z \div d) * d <= v
  PROVE  (z \div d) * d <= (v \div d) * d /\ (v \div d) * d <= v
<1>1. CASE d = 8
  BY <1>1 DEF Byte
<1>2. CASE d = 32
  BY <1>2 DEF Byte
<1>3. CASE d = 64
  BY <1>3 DEF Byte
<1> QED BY <1>1, <1>2, <1>3

\* What is read from bytes is a colour, and it is rounded already.
LEMMA ByteColour ==
  ASSUME NEW ps \in {1, 2}, NEW mem, NEW at, mem[at] \in Byte, ps = 2 => mem[at + 1] \in Byte
  PROVE  IsColour(GetPixel(ps, mem, at)) /\ Quant(ps, GetPixel(ps, mem, at)) = GetPixel(ps, mem, at)
<1> DEFINE c == GetPixel(ps, mem, at)
<1>1. CASE ps = 1
  <2> DEFINE m == mem[at]
  <2>1. c = <<(m \div 32) * 32, ((m \div 4) % 8) * 32, (m % 4) * 64>>
    BY <1>1 DEF GetPixel
  <2>2. m \in Byte
    OBVIOUS
  <2> HIDE DEF c, m
  <2>3. /\ (m \div 32) * 32 \in Byte /\ ((m \div 4) % 8) * 32 \in Byte /\ (m % 4) * 64 \in Byte
        /\ (((m \div 32) * 32) \div 32) * 32 + ((((m \div 4) % 8) * 32) \div 32) * 4 + ((m % 4) * 64) \div 64 = m
    BY <2>2 DEF Byte
  <2>4. IsColour(c) /\ SetPixel(1, c)[0] = m
    BY <2>1, <2>3 DEF SetPixel, IsColour
  <2>5. Quant(1, c) = c
    BY <2>1, <2>4 DEF Quant, GetPixel
  <2> QED BY <1>1, <2>4, <2>5 DEF c
<1>2. CASE ps = 2
  <2> DEFINE lo == mem[at]
             hi == mem[at + 1]
             r == lo % 32
             u == hi % 4
             v == lo \div 32
             b == (hi \div 4) % 32
  <2>1. c = <<r * 8, u * 64 + v * 8, b * 8>>
    BY <1>2 DEF GetPixel
  <2>2. lo \in Byte /\ hi \in Byte
    BY <1>2
  <2> HIDE DEF c, lo, hi
  <2>3. r \in 0 .. 31 /\ b \in 0 .. 31 /\ u \in 0 .. 3 /\ v \in 0 .. 7
    BY <2>2 DEF Byte
  <2> HIDE DEF r, u, v, b
  <2>4. /\ c[1] \in Byte /\ c[2] \in Byte /\ c[3] \in Byte
        /\ c[1] \div 8 = r /\ c[3] \div 8 = b
    BY <2>1, <2>3 DEF Byte
  <2>5. (c[2] \div 8) % 8 = v /\ c[2] \div 64 = u
    BY <2>1, <2>3
  <2>6. SetPixel(2, c)[0] = v * 32 + r /\ SetPixel(2, c)[1] = 128 + b * 4 + u
    BY <2>4, <2>5 DEF SetPixel
  <2>7. /\ (v * 32 + r) % 32 = r /\ (v * 32 + r) \div 32 = v
        /\ (128 + b * 4 + u) % 4 = u /\ ((128 + b * 4 + u) \div 4) % 32 = b
    BY <2>3
  <2>8. Quant(2, c) = c
    BY <2>1, <2>6, <2>7 DEF Quant, GetPixel
  <2> QED BY <1>2, <2>4, <2>8 DEF c, IsColour
<1> QED BY <1>1, <1>2

LEMMA PixelFixed ==
  ASSUME NEW pm, NEW ps \in {1, 2}, IsBytes(pm, ps), pm.w \in Nat, pm.h \in Nat,
         NEW x \in 0 .. pm.w - 1, NEW y \in 0 .. pm.h - 1
  PROVE  IsColour(PixelOf(pm, ps, x, y)) /\ Quant(ps, PixelOf(pm, ps, x, y)) = PixelOf(pm, ps, x, y)
<1> DEFINE k == x + y * pm.w
           n == pm.w * pm.h
<1>1. k \in 0 .. n - 1 /\ n \in Nat
  <2>1. n \in Nat
    OBVIOUS
  <2>2. k \in 0 .. n - 1
    BY PixelIndex
  <2> QED BY <2>1, <2>2
<1>2. PixelOf(pm, ps, x, y) = GetPixel(ps, pm.mem, k * ps)
  BY DEF PixelOf
<1>3. pm.mem \in [0 .. n * ps - 1 -> Byte]
  BY DEF IsBytes
<1> HIDE DEF k, n
<1>4. pm.mem[k * ps] \in Byte
  <2>1. k * ps \in 0 .. n * ps - 1
    BY <1>1
  <2> QED BY <1>3, <2>1
<1>5. ps = 2 => pm.mem[k * ps + 1] \in Byte
  <2>1. ps = 2 => k * ps + 1 \in 0 .. n * ps - 1
    BY <1>1
  <2> QED BY <1>3, <2>1
<1> QED BY <1>2, <1>4, <1>5, ByteColour

\* Colour c, written and read, still lies between pixels of a picture when each
\* channel does.
LEMMA QuantBetween ==
  ASSUME NEW ps \in {1, 2}, NEW c, NEW lo, NEW hi, NEW a \in 1 .. 3,
         IsColour(c), IsColour(lo), IsColour(hi), Quant(ps, lo) = lo, c[a] \in lo[a] .. hi[a]
  PROVE  lo[a] <= Quant(ps, c)[a] /\ Quant(ps, c)[a] <= hi[a]
<1> DEFINE d == StepOf(ps, a)
           v == c[a]
           z == lo[a]
           u == hi[a]
<1>1. d \in {8, 32, 64}
  BY DEF StepOf
<1>2. v \in Byte /\ z \in Byte /\ u \in Byte /\ z <= v /\ v <= u
  BY DEF IsColour, Byte
<1>3. Quant(ps, c)[a] = (v \div d) * d /\ (z \div d) * d = z
  BY QuantIs
<1> HIDE DEF d, v, z, u
<1>4. (z \div d) * d <= (v \div d) * d /\ (v \div d) * d <= v
  BY <1>1, <1>2, <1>3, RoundedKeeps
<1>5. z <= (v \div d) * d /\ (v \div d) * d <= u
  <2>1. (v \div d) * d \in Int
    BY <1>1, <1>2 DEF Byte
  <2> QED BY <1>2, <1>3, <1>4, <2>1 DEF Byte
<1> QED BY <1>3, <1>5 DEF z, u

\* Offset a, in lines of `row' bytes, is byte c of the pixel in column i of the
\* line that comes h - 1 - j lines after the first.
ByteAt(a, row, w, h, i, j, c) ==
  /\ row \in Nat /\ a \in 0 .. row * h - 1 /\ i < w
  /\ a \div row = h - 1 - j
  /\ (a % row) \div 3 = i /\ (a % row) % 3 = c

LEMMA DumpedAt ==
  ASSUME NEW w, NEW h, NEW i, NEW j, NEW c, NEW row, NEW a,
         w \in Nat \ {0}, h \in Nat, i \in 0 .. w - 1, j \in 0 .. h - 1, c \in 0 .. 2,
         row = w * 3 + (w % 4), a = (h - 1 - j) * row + i * 3 + c
  PROVE  ByteAt(a, row, w, h, i, j, c)
<1>1. w % 4 \in 0 .. 3
  OBVIOUS
<1>2. row \in Nat \ {0} /\ w * 3 <= row
  BY <1>1
<1> DEFINE r == i * 3 + c
           q == h - 1 - j
<1>3. r \in Nat /\ r < w * 3 /\ q \in Nat /\ q <= h - 1
  OBVIOUS
<1>4. r \div 3 = i /\ r % 3 = c
  OBVIOUS
<1>5. r < row
  BY <1>2, <1>3
<1>6. a = q * row + r
  BY <1>2, <1>3
<1> HIDE DEF r, q
<1>7. a \div row = q /\ a % row = r
  BY <1>2, <1>3, <1>5, <1>6, DivModIs
<1>8. a \in 0 .. row * h - 1
  <2>1. PICK z \in Nat : h = q + 1 + z
    <3>1. h - q - 1 \in Nat /\ h = q + 1 + (h - q - 1)
      BY <1>3
    <3> QED BY <3>1
  <2>2. row * (q + 1 + z) = q * row + row + z * row /\ z * row \in Nat /\ q * row \in Nat
    BY <1>2, <1>3
  <2> QED BY <1>2, <1>3, <1>5, <1>6, <2>1, <2>2
<1> QED BY <1>2, <1>4, <1>7, <1>8 DEF q, ByteAt

\* The pixels the loops of bmp2fb_pixmap visit: all, when the counters go that far.
Visited(w, h) == {k \in 0 .. w * h - 1 : k % w < Columns(w) /\ k \div w < Rows(h)}

LEMMA AllVisited ==
  ASSUME NEW w \in Nat, NEW h \in Nat, Counted(w, h)
  PROVE  Columns(w) = w /\ Rows(h) = h /\ Visited(w, h) = 0 .. w * h - 1
<1>1. Columns(w) = w /\ Rows(h) = h
  BY SintAssumption DEF Columns, Rows, Counted
<1>2. ASSUME NEW k \in 0 .. w * h - 1 PROVE k % w < w /\ k \div w < h
  BY PixelPlace
<1> QED BY <1>1, <1>2 DEF Visited

\* bmp2fb_pixmap reads the bytes of pixel k where fb_pixmap2bmp has put them.
LEMMA DumpedByte ==
  ASSUME NEW pm, NEW ps, pm.w \in Nat, pm.h \in Nat, Counted(pm.w, pm.h), NEW k \in 0 .. pm.w * pm.h - 1, NEW c \in 0 .. 2
  PROVE  LET f == DumpPixels(pm, ps)
         IN  Fgetc(f.data, (f.h - 1 - k \div f.w) * RowBytes(f.w, f.bpp) + (k % f.w) * (f.bpp \div 8) + c)
               = GetPixel(ps, pm.mem, k * ps)[3 - c]
<1> DEFINE w == pm.w
           h == pm.h
           row == w * 3 + (w % 4)
           f == DumpPixels(pm, ps)
           Value(a) == LET i == (a % row) \div 3
                           j == h - 1 - (a \div row)
                       IN  IF i >= w THEN 0 ELSE GetPixel(ps, pm.mem, (i + j * w) * ps)[3 - ((a % row) % 3)]
           d == [a \in 1 .. row * h |-> Value(a - 1)]
           a0 == (h - 1 - k \div w) * row + (k % w) * 3 + c
<1>0. Columns(w) = w /\ Rows(h) = h
  BY AllVisited
<1>1. f.w = w /\ f.h = h /\ f.bpp = 24 /\ f.data = d
  BY <1>0 DEF DumpPixels, DumpRows
<1>2. RowBytes(w, 24) = row /\ 24 \div 8 = 3
  BY <1>0 DEF RowBytes
<1>3. /\ w \in Nat \ {0}
      /\ k % w \in 0 .. w - 1 /\ k \div w \in 0 .. h - 1
      /\ k = (k % w) + (k \div w) * w
  BY PixelPlace
<1>4. /\ row \in Nat /\ a0 \in 0 .. row * h - 1 /\ a0 \div row = h - 1 - k \div w
      /\ (a0 % row) \div 3 = k % w /\ (a0 % row) % 3 = c
  <2> DEFINE i == k % w
             j == k \div w
  <2>1. i \in 0 .. w - 1 /\ j \in 0 .. h - 1
    BY <1>3
  <2>2. row = w * 3 + (w % 4) /\ a0 = (h - 1 - j) * row + i * 3 + c
    OBVIOUS
  <2> HIDE DEF i, j, row, a0, w, h
  <2>3. h \in Nat
    BY DEF h
  <2>4. w \in Nat \ {0}
    BY <1>3
  <2>5. ByteAt(a0, row, w, h, i, j, c)
    BY <2>1, <2>2, <2>3, <2>4, DumpedAt, Zenon
  <2> QED BY <2>5 DEF ByteAt, i, j
<1>5. row * h \in Nat
  BY <1>4
<1>6. Len(d) = row * h
  <2> HIDE DEF Value, row
  <2> QED BY <1>5
<1>7. d[a0 + 1] = Value(a0)
  <2>1. a0 + 1 \in 1 .. row * h /\ (a0 + 1) - 1 = a0
    BY <1>4, <1>5
  <2> HIDE DEF Value, row, a0
  <2> QED BY <2>1
<1>8. Value(a0) = GetPixel(ps, pm.mem, k * ps)[3 - c]
  <2>1. h - 1 - (h - 1 - k \div w) = k \div w /\ ~(k % w >= w)
    <3> DEFINE i == k % w
               j == k \div w
    <3>1. i \in 0 .. w - 1 /\ j \in 0 .. h - 1 /\ w \in Nat /\ h \in Nat
      BY <1>3
    <3> HIDE DEF i, j, w, h
    <3>2. h - 1 - (h - 1 - j) = j /\ ~(i >= w)
      BY <3>1
    <3> QED BY <3>2 DEF i, j
  <2> HIDE DEF a0, row, h, w
  <2>2. Value(a0) = GetPixel(ps, pm.mem, ((k % w) + (k \div w) * w) * ps)[3 - c]
    BY <1>4, <2>1
  <2> QED BY <1>3, <2>2
<1>9. a0 < Len(d)
  BY <1>4, <1>5, <1>6
<1>10. Fgetc(d, a0) = d[a0 + 1]
  <2> HIDE DEF d, a0
  <2> QED BY <1>9 DEF Fgetc
<1>11. (f.h - 1 - k \div f.w) * RowBytes(f.w, f.bpp) + (k % f.w) * (f.bpp \div 8) + c = a0
  <2> HIDE DEF d, Value, row, f, w, h
  <2> QED BY <1>1, <1>2
<1> HIDE DEF d, Value, row, w, h, a0
<1> QED BY <1>1, <1>7, <1>8, <1>10, <1>11

\* A pixmap of which fb_set_pixel writes, pixel by pixel, the colours that
\* fb_get_pixel finds in a picture, is that picture.
LEMMA Reload ==
  ASSUME NEW pm, NEW ps \in {1, 2}, IsPicture(pm, ps), pm.w \in Nat, pm.h \in Nat, NEW fill,
         Counted(pm.w, pm.h)
  PROVE  LoadPixels(DumpPixels(pm, ps), ps, fill) = pm
<1> DEFINE f == DumpPixels(pm, ps)
           n == pm.w * pm.h
           At(k) == (f.h - 1 - k \div f.w) * RowBytes(f.w, f.bpp) + (k % f.w) * (f.bpp \div 8)
           colour == [k \in 0 .. n - 1 |->
                        <<Fgetc(f.data, At(k) + 2), Fgetc(f.data, At(k) + 1), Fgetc(f.data, At(k))>>]
           mem == Filled(n, ps, colour, fill)
<1>0. Columns(pm.w) = pm.w /\ Visited(pm.w, pm.h) = 0 .. n - 1
  BY AllVisited
<1>1. f.w = pm.w /\ f.h = pm.h
  BY DEF DumpPixels, DumpRows
<1>2. LoadPixels(f, ps, fill) = [w |-> pm.w, h |-> pm.h, mem |-> mem]
  <2>1. LoadPixels(f, ps, fill) =
          [w |-> f.w, h |-> f.h,
           mem |-> Filled(f.w * f.h, ps,
                     [k \in Visited(f.w, f.h) |->
                        <<Fgetc(f.data, At(k) + 2), Fgetc(f.data, At(k) + 1), Fgetc(f.data, At(k))>>], fill)]
    BY DEF LoadPixels, Visited
  <2> HIDE DEF f
  <2>2. f.w * f.h = n /\ Visited(f.w, f.h) = 0 .. n - 1
    BY <1>0, <1>1
  <2> QED BY <1>1, <2>1, <2>2
<1>3. ASSUME NEW k \in 0 .. n - 1
      PROVE  ReadAt(ps, pm.mem, k, colour[k])
  <2>1. ASSUME NEW c \in 0 .. 2
        PROVE  Fgetc(f.data, At(k) + c) = GetPixel(ps, pm.mem, k * ps)[3 - c]
    BY DumpedByte
  <2>2. At(k) \in Int
    <3>1. pm.w \in Nat \ {0} /\ k % pm.w \in 0 .. pm.w - 1 /\ k \div pm.w \in 0 .. pm.h - 1
      BY PixelPlace
    <3>2. f.bpp = 24 /\ RowBytes(pm.w, 24) \in Int /\ 24 \div 8 = 3
      BY <1>0, <3>1 DEF DumpPixels, DumpRows, RowBytes
    <3> HIDE DEF f
    <3>3. At(k) = (pm.h - 1 - k \div pm.w) * RowBytes(pm.w, 24) + (k % pm.w) * 3
      BY <1>1, <3>2
    <3> QED BY <3>1, <3>2, <3>3
  <2> HIDE DEF At, f
  <2>3. /\ Fgetc(f.data, At(k) + 2) = GetPixel(ps, pm.mem, k * ps)[1]
        /\ Fgetc(f.data, At(k) + 1) = GetPixel(ps, pm.mem, k * ps)[2]
        /\ Fgetc(f.data, At(k)) = GetPixel(ps, pm.mem, k * ps)[3]
    <3>1. 0 \in 0 .. 2 /\ 1 \in 0 .. 2 /\ 2 \in 0 .. 2 /\ 3 - 0 = 3 /\ 3 - 1 = 2 /\ 3 - 2 = 1 /\ At(k) + 0 = At(k)
      BY <2>2
    <3>2. Fgetc(f.data, At(k) + 2) = GetPixel(ps, pm.mem, k * ps)[3 - 2]
      BY <2>1, <3>1
    <3>3. Fgetc(f.data, At(k) + 1) = GetPixel(ps, pm.mem, k * ps)[3 - 1]
      BY <2>1, <3>1
    <3>4. Fgetc(f.data, At(k) + 0) = GetPixel(ps, pm.mem, k * ps)[3 - 0]
      BY <2>1, <3>1
    <3> QED BY <3>1, <3>2, <3>3, <3>4
  <2>4. colour[k] = <<Fgetc(f.data, At(k) + 2), Fgetc(f.data, At(k) + 1), Fgetc(f.data, At(k))>>
    OBVIOUS
  <2> QED BY <2>3, <2>4 DEF ReadAt
<1>4. n \in Nat /\ DOMAIN colour = 0 .. n - 1
  OBVIOUS
<1>5. ASSUME NEW k \in 0 .. n - 1 PROVE WritesBack(ps, colour[k], pm.mem, k)
  <2> DEFINE c == colour[k]
  <2>1. ReadAt(ps, pm.mem, k, c)
    BY <1>3
  <2> HIDE DEF c
  <2>2. WritesBack(ps, c, pm.mem, k)
    BY <2>1, ReadWrite
  <2> QED BY <2>2 DEF c
<1> HIDE DEF colour
<1>6. mem = [b \in DOMAIN mem |-> mem[b]]
  BY DEF Filled
<1>7. pm = [w |-> pm.w, h |-> pm.h, mem |-> pm.mem] /\ pm.mem \in [0 .. n * ps - 1 -> Byte]
  BY DEF IsPicture, IsBytes
<1> HIDE DEF n
<1>8. Written(mem, n, ps, colour) /\ DOMAIN mem = 0 .. n * ps - 1
  BY <1>4, FilledWritten, SMT
<1> HIDE DEF mem
<1>9. ASSUME NEW b \in 0 .. n * ps - 1 PROVE mem[b] = pm.mem[b]
  <2>1. PICK k \in 0 .. n - 1, o \in 0 .. ps - 1 : b = k * ps + o
    BY <1>4, Offsets
  <2> QED BY <1>5, <1>8, <2>1 DEF Written, WritesBack
<1>10. mem = pm.mem
  BY <1>6, <1>7, <1>8, <1>9
<1> QED BY <1>2, <1>7, <1>10

\* What the two codecs load is a picture, if the counters of the BMP codec reach
\* every pixel.
LEMMA BmpPicture ==
  ASSUME NEW f \in Files, NEW ps \in {1, 2}, NEW fill \in Byte, f.bpp \in {24, 32}
  PROVE  /\ IsBytes(LoadPixels(f, ps, fill), ps)
         /\ Counted(f.w, f.h) => IsPicture(LoadPixels(f, ps, fill), ps)
<1>1. f.w \in Nat /\ f.h \in Nat /\ f.data \in Seq(Byte)
  BY SizesAssumption, DataAssumption DEF Uint16
<1> DEFINE n == f.w * f.h
           At(k) == (f.h - 1 - k \div f.w) * RowBytes(f.w, f.bpp) + (k % f.w) * (f.bpp \div 8)
           colour == [k \in Visited(f.w, f.h) |->
                        <<Fgetc(f.data, At(k) + 2), Fgetc(f.data, At(k) + 1), Fgetc(f.data, At(k))>>]
<1>2. LoadPixels(f, ps, fill) = [w |-> f.w, h |-> f.h, mem |-> Filled(n, ps, colour, fill)]
  BY DEF LoadPixels, Visited
<1>3. ASSUME NEW a \in Nat PROVE Fgetc(f.data, a) \in Byte
  <2>1. Len(f.data) \in Nat /\ (a < Len(f.data) => f.data[a + 1] \in Byte)
    BY <1>1
  <2> QED BY <2>1 DEF Fgetc, Byte
<1>4. ASSUME NEW k \in Visited(f.w, f.h) PROVE IsColour(colour[k])
  <2>0. k \in 0 .. n - 1
    BY DEF Visited
  <2>1. f.w \in Nat \ {0} /\ k % f.w \in 0 .. f.w - 1 /\ k \div f.w \in 0 .. f.h - 1
    BY <1>1, <2>0, PixelPlace
  <2>2. f.bpp \div 8 \in Nat /\ RowBytes(f.w, f.bpp) \in Nat
    <3>1. f.bpp \div 8 \in Nat
      OBVIOUS
    <3>2. Columns(f.w) \in Nat /\ f.w % 4 \in Nat
      BY <2>1, SintAssumption DEF Columns
    <3>3. Columns(f.w) * (f.bpp \div 8) \in Nat
      BY <3>1, <3>2
    <3> QED BY <3>1, <3>2, <3>3 DEF RowBytes
  <2> DEFINE u == f.h - 1 - k \div f.w
             v == k % f.w
             x == RowBytes(f.w, f.bpp)
             y == f.bpp \div 8
  <2>3. u \in Nat /\ v \in Nat /\ x \in Nat /\ y \in Nat /\ At(k) = u * x + v * y
    BY <1>1, <2>1, <2>2
  <2> HIDE DEF u, v, x, y
  <2>4. u * x + v * y \in Nat
    BY <2>3
  <2> HIDE DEF At
  <2>5. At(k) \in Nat /\ At(k) + 1 \in Nat /\ At(k) + 2 \in Nat
    BY <2>3, <2>4
  <2>6. colour[k] = <<Fgetc(f.data, At(k) + 2), Fgetc(f.data, At(k) + 1), Fgetc(f.data, At(k))>>
    OBVIOUS
  <2> QED BY <1>3, <2>5, <2>6 DEF IsColour
<1>5. DOMAIN colour = Visited(f.w, f.h)
  OBVIOUS
<1> HIDE DEF colour
<1>6. IsBytes([w |-> f.w, h |-> f.h, mem |-> Filled(f.w * f.h, ps, colour, fill)], ps)
  <2>1. DOMAIN colour \subseteq Nat
    BY <1>5 DEF Visited
  <2> QED BY <1>1, <1>4, <1>5, <2>1, FilledBytes
<1>7. ASSUME Counted(f.w, f.h)
      PROVE  IsPicture([w |-> f.w, h |-> f.h, mem |-> Filled(f.w * f.h, ps, colour, fill)], ps)
  <2>1. DOMAIN colour = 0 .. f.w * f.h - 1
    BY <1>1, <1>5, <1>7, AllVisited
  <2> QED BY <1>1, <1>4, <1>5, <2>1, FilledPicture
<1> QED BY <1>2, <1>6, <1>7

LEMMA JpegPicture ==
  ASSUME NEW f \in Files, NEW ps \in {1, 2}, NEW fill,
         f.ext \in {"JPG", "JPEG"}, f.state = "good"
  PROVE  IsPicture(JpegPixels(f, ps, fill), ps)
<1> DEFINE n == f.w * f.h
           colour == [k \in 0 .. n - 1 |-> [c \in 1 .. 3 |-> f.data[3 * k + c]]]
<1>1. f.w \in Nat /\ f.h \in Nat /\ f.data \in Seq(Byte) /\ Len(f.data) = 3 * n
  BY SizesAssumption, DataAssumption DEF Uint16
<1>2. JpegPixels(f, ps, fill) = [w |-> f.w, h |-> f.h, mem |-> Filled(n, ps, colour, fill)]
  BY DEF JpegPixels
<1>3. ASSUME NEW k \in 0 .. n - 1 PROVE IsColour(colour[k])
  <2>1. n \in Nat
    BY <1>1
  <2>2. colour[k][1] = f.data[3 * k + 1] /\ colour[k][2] = f.data[3 * k + 2] /\ colour[k][3] = f.data[3 * k + 3]
    OBVIOUS
  <2> HIDE DEF n
  <2>3. 3 * k + 1 \in 1 .. 3 * n /\ 3 * k + 2 \in 1 .. 3 * n /\ 3 * k + 3 \in 1 .. 3 * n
    BY <2>1
  <2>4. \A a \in 1 .. 3 * n : f.data[a] \in Byte
    BY <1>1, ElementOfSeq
  <2> QED BY <2>2, <2>3, <2>4 DEF IsColour
<1>4. DOMAIN colour = 0 .. n - 1
  OBVIOUS
<1> HIDE DEF colour
<1> QED BY <1>1, <1>2, <1>3, <1>4, FilledPicture
----------------------------------------------------------------------------
(* Scaling *)

\* Between p and q, in parts of n
Mix(p, q, w, n) == p * n + w * (q - p)

LEMMA Between ==
  ASSUME NEW n \in Nat \ {0}, NEW w \in 0 .. n - 1, NEW lo \in Nat, NEW hi \in Nat,
         NEW p \in lo .. hi, NEW q \in lo .. hi
  PROVE  Mix(p, q, w, n) \in lo * n .. hi * n
<1> DEFINE v == n - w
<1>1. v \in Nat /\ n = v + w
  OBVIOUS
<1>2. p * (v + w) + w * (q - p) = p * v + q * w
  BY <1>1
<1>3. hi * (v + w) = hi * v + hi * w /\ lo * (v + w) = lo * v + lo * w
  BY <1>1
<1> HIDE DEF v
<1>4. ASSUME NEW c \in Nat, NEW a \in 0 .. c, NEW b \in Nat PROVE a * b \in Nat /\ a * b <= c * b
  <2>1. PICK z \in Nat : c = a + z
    <3>1. c - a \in Nat /\ c = a + (c - a)
      OBVIOUS
    <3> QED BY <3>1
  <2>2. (a + z) * b = a * b + z * b /\ z * b \in Nat /\ a * b \in Nat
    OBVIOUS
  <2> QED BY <2>1, <2>2
<1>5. p * v \in Nat /\ p * v <= hi * v /\ q * w \in Nat /\ q * w <= hi * w
  BY <1>1, <1>4
<1>6. lo * v <= p * v /\ lo * w <= q * w
  BY <1>1, <1>4
<1>7. hi * v \in Nat /\ hi * w \in Nat /\ lo * v \in Nat /\ lo * w \in Nat
  BY <1>1
<1> QED BY <1>1, <1>2, <1>3, <1>5, <1>6, <1>7 DEF Mix

\* Interpolation stays between the least and the greatest of the four.
LEMMA InterpolateRange ==
  ASSUME NEW n \in Nat \ {0}, NEW wx \in 0 .. n - 1, NEW wy \in 0 .. n - 1, NEW lo \in Nat, NEW hi \in Nat,
         NEW p1 \in lo .. hi, NEW p2 \in lo .. hi, NEW p3 \in lo .. hi, NEW p4 \in lo .. hi
  PROVE  Interpolate(p1, p2, p3, p4, wx, wy, n) \in lo .. hi
<1> DEFINE f12 == Mix(p1, p2, wx, n)
           f34 == Mix(p3, p4, wx, n)
           l == lo * n
           m == hi * n
<1>1. f12 \in l .. m /\ f34 \in l .. m
  <2>1. Mix(p1, p2, wx, n) \in lo * n .. hi * n /\ Mix(p3, p4, wx, n) \in lo * n .. hi * n
    BY Between, ZenonT(30)
  <2> QED BY <2>1
<1>2. m \in Nat /\ l \in Nat
  OBVIOUS
<1>3. Interpolate(p1, p2, p3, p4, wx, wy, n) = Mix(f12, f34, wy, n) \div (n * n)
  BY DEF Interpolate, Mix
<1>4. m * n = (n * n) * hi /\ l * n = (n * n) * lo /\ n * n \in Nat \ {0}
  OBVIOUS
<1> HIDE DEF f12, f34, m, l
<1> DEFINE t == Mix(f12, f34, wy, n)
           d == n * n
<1>5. t \in l * n .. m * n
  BY <1>1, <1>2, Between
<1> HIDE DEF t, d
<1>6. d \in Nat \ {0} /\ t \in Nat /\ t <= d * hi /\ d * lo <= t
  <2>1. d * lo \in Nat /\ d * hi \in Nat /\ l * n \in Nat
    BY <1>2, <1>4 DEF d
  <2> QED BY <1>4, <1>5, <2>1 DEF d
<1>7. t \div d \in Nat /\ t \div d <= hi /\ lo <= t \div d
  BY <1>6, DivBounds, DivLess, DivMore
<1> QED BY <1>3, <1>7 DEF t, d

\* A target column (row) comes from a column (row) of the picture.
LEMMA ScaleSource ==
  ASSUME NEW s \in Nat \X (Nat \ {0}), NEW size \in Nat, NEW new \in ScaledSizes(size, s),
         NEW i \in 0 .. new - 1
  PROVE  /\ s[1] \in Nat \ {0} /\ Weight(i, s) \in 0 .. s[1] - 1
         /\ Source1(i, s) \in 0 .. size - 1 /\ Source2(i, size, s) \in 0 .. size - 1
<1> DEFINE a == s[1]
           d == s[2]
<1>1. a \in Nat /\ d \in Nat \ {0} /\ size * a \in Nat
  OBVIOUS
<1>2. PICK n : SizeOf(n, size * a, d) /\ new = n % 65536
  BY ScaledRange
<1>3. Weight(i, s) = (i * d) % a /\ Source1(i, s) = (i * d) \div a
      /\ Source2(i, size, s) = IF Source1(i, s) + 1 >= size THEN Source1(i, s) ELSE Source1(i, s) + 1
  BY DEF Weight, Source1, Source2
<1> HIDE DEF a, d
<1>4. n \in Nat /\ (n > 0 => (n - 1) * d < size * a)
  BY <1>2 DEF SizeOf
<1>5. new \in Nat /\ new <= n
  BY <1>2, <1>4
<1>6. i * d < size * a
  <2>1. PICK z \in Nat : n - 1 = i + z
    <3>1. n - 1 - i \in Nat /\ n - 1 = i + (n - 1 - i)
      BY <1>4, <1>5
    <3> QED BY <3>1
  <2>2. (i + z) * d = i * d + z * d /\ z * d \in Nat /\ i * d \in Nat
    BY <1>1, <1>5
  <2> QED BY <1>1, <1>4, <1>5, <2>1, <2>2
<1>7. i * d \in Nat
  BY <1>1, <1>5
<1>8. a # 0
  <2> SUFFICES ASSUME a = 0 PROVE FALSE
    OBVIOUS
  <2>1. size * 0 = 0
    OBVIOUS
  <2> QED BY <1>6, <1>7, <2>1
<1> DEFINE t == i * d
           q == t \div a
<1>9. t \in Nat /\ t < size * a
  BY <1>6, <1>7
<1> HIDE DEF t
<1>10. q \in Nat /\ a * q <= t /\ t % a \in 0 .. a - 1
  BY <1>1, <1>8, <1>9
<1> HIDE DEF q
<1>11. q < size
  <2> SUFFICES ASSUME q >= size PROVE FALSE
    BY <1>10
  <2>1. PICK z \in Nat : q = size + z
    <3>1. q - size \in Nat /\ q = size + (q - size)
      BY <1>10
    <3> QED BY <3>1
  <2>2. a * (size + z) = size * a + a * z /\ a * z \in Nat
    BY <1>1
  <2> QED BY <1>1, <1>9, <1>10, <2>1, <2>2
<1>12. Source1(i, s) = q /\ Weight(i, s) = t % a
  BY <1>3 DEF q, t
<1>13. Source1(i, s) \in 0 .. size - 1 /\ Source2(i, size, s) \in 0 .. size - 1
  BY <1>3, <1>10, <1>11, <1>12
<1> QED BY <1>1, <1>8, <1>10, <1>12, <1>13 DEF a

\* The colour fb_pixmap_scale gives to column i of row j
ScaledColour(pm, s, ps, i, j) ==
  [c \in 1 .. 3 |-> Interpolate(PixelOf(pm, ps, Source1(i, s), Source1(j, s))[c],
                                PixelOf(pm, ps, Source2(i, pm.w, s), Source1(j, s))[c],
                                PixelOf(pm, ps, Source1(i, s), Source2(j, pm.h, s))[c],
                                PixelOf(pm, ps, Source2(i, pm.w, s), Source2(j, pm.h, s))[c],
                                Weight(i, s), Weight(j, s), s[1])]

LEMMA ScaleIs ==
  ASSUME NEW pm, NEW ps, NEW s, NEW fill, NEW nw, NEW nh
  PROVE  Scale(pm, nw, nh, s, ps, fill) =
           [w |-> nw, h |-> nh,
            mem |-> Filled(nw * nh, ps,
                      [k \in 0 .. nw * nh - 1 |-> ScaledColour(pm, s, ps, k % nw, k \div nw)], fill)]
BY DEF Scale, ScaledColour, PixelOf

\* It is a colour again.
LEMMA ScaledIsColour ==
  ASSUME NEW pm, NEW ps \in {1, 2}, IsBytes(pm, ps), pm.w \in Nat, pm.h \in Nat,
         NEW s \in Nat \X (Nat \ {0}),
         NEW nw \in ScaledSizes(pm.w, s), NEW nh \in ScaledSizes(pm.h, s), nw \in Nat, nh \in Nat,
         NEW i \in 0 .. nw - 1, NEW j \in 0 .. nh - 1
  PROVE  IsColour(ScaledColour(pm, s, ps, i, j))
<1> DEFINE p1 == PixelOf(pm, ps, Source1(i, s), Source1(j, s))
           p2 == PixelOf(pm, ps, Source2(i, pm.w, s), Source1(j, s))
           p3 == PixelOf(pm, ps, Source1(i, s), Source2(j, pm.h, s))
           p4 == PixelOf(pm, ps, Source2(i, pm.w, s), Source2(j, pm.h, s))
           n == s[1]
           wx == Weight(i, s)
           wy == Weight(j, s)
<1>1. /\ n \in Nat \ {0} /\ wx \in 0 .. n - 1 /\ wy \in 0 .. n - 1
      /\ Source1(i, s) \in 0 .. pm.w - 1 /\ Source2(i, pm.w, s) \in 0 .. pm.w - 1
      /\ Source1(j, s) \in 0 .. pm.h - 1 /\ Source2(j, pm.h, s) \in 0 .. pm.h - 1
  BY ScaleSource
<1>2. IsColour(p1) /\ IsColour(p2) /\ IsColour(p3) /\ IsColour(p4)
  BY <1>1, PixelFixed
<1>3. ASSUME NEW a \in 1 .. 3
      PROVE  ScaledColour(pm, s, ps, i, j)[a] = Interpolate(p1[a], p2[a], p3[a], p4[a], wx, wy, n)
  BY DEF ScaledColour
<1> HIDE DEF p1, p2, p3, p4, n, wx, wy
<1>4. ASSUME NEW a \in 1 .. 3
      PROVE  Interpolate(p1[a], p2[a], p3[a], p4[a], wx, wy, n) \in Byte
  <2> DEFINE lo == 0
             hi == 255
  <2>1. p1[a] \in lo .. hi /\ p2[a] \in lo .. hi /\ p3[a] \in lo .. hi /\ p4[a] \in lo .. hi
    BY <1>2 DEF IsColour, Byte
  <2>2. lo \in Nat /\ hi \in Nat /\ lo .. hi = Byte
    BY DEF Byte
  <2> HIDE DEF lo, hi
  <2>3. Interpolate(p1[a], p2[a], p3[a], p4[a], wx, wy, n) \in lo .. hi
    BY <1>1, <2>1, <2>2, InterpolateRange
  <2> QED BY <2>2, <2>3
<1> QED BY <1>3, <1>4 DEF IsColour

\* fb_pixmap_scale makes a picture of whatever is in the memory.
LEMMA ScalePicture ==
  ASSUME NEW pm, NEW ps \in {1, 2}, IsBytes(pm, ps), pm.w \in Nat, pm.h \in Nat,
         NEW s \in Nat \X (Nat \ {0}), NEW fill,
         NEW nw \in ScaledSizes(pm.w, s), NEW nh \in ScaledSizes(pm.h, s), nw \in Nat, nh \in Nat
  PROVE  IsPicture(Scale(pm, nw, nh, s, ps, fill), ps)
<1> DEFINE colour == [k \in 0 .. nw * nh - 1 |-> ScaledColour(pm, s, ps, k % nw, k \div nw)]
<1>1. Scale(pm, nw, nh, s, ps, fill) = [w |-> nw, h |-> nh, mem |-> Filled(nw * nh, ps, colour, fill)]
  BY ScaleIs
<1>2. ASSUME NEW k \in 0 .. nw * nh - 1 PROVE IsColour(colour[k])
  <2> DEFINE i == k % nw
             j == k \div nw
  <2>1. i \in 0 .. nw - 1 /\ j \in 0 .. nh - 1
    BY PixelPlace
  <2>2. colour[k] = ScaledColour(pm, s, ps, i, j)
    OBVIOUS
  <2> HIDE DEF i, j, colour
  <2>3. IsColour(ScaledColour(pm, s, ps, i, j))
    BY <2>1, ScaledIsColour
  <2> QED BY <2>2, <2>3
<1>3. DOMAIN colour = 0 .. nw * nh - 1
  OBVIOUS
<1> HIDE DEF colour
<1> QED BY <1>1, <1>2, <1>3, FilledPicture
----------------------------------------------------------------------------
(* A dumped file reloads *)

\* What the pixmap holds without rotation, from the codec to the end
PictureHere ==
  /\ IsBytes(pixmap, fb.pixelsize)
  /\ Counted(pixmap.w, pixmap.h) => IsPicture(pixmap, fb.pixelsize)

\* A dumped file was made from it.
PicInv ==
  /\ fb.pixelsize \in {1, 2} /\ opts.rotate = 0
     /\ pc \in {"autoscale", "scale", "rotate", "dump", "show", "exit0"} => PictureHere
  /\ pc \notin {"show", "exit0", "crash"} => dumped = {}
  /\ pc \in {"show", "exit0"} => \A d \in dumped : d.file = DumpPixels(pixmap, fb.pixelsize)

LEMMA PicInit == Init => PicInv
BY DEF Init, PicInv

\* The codecs
LEMMA PicLoad ==
  ASSUME TypeOK, Sized, PicInv, BmpLoad \/ JpegLoad
  PROVE  PicInv'
<1>1. pc = "load" /\ opts.file \in Files /\ dumped = {}
  BY DEF BmpLoad, JpegLoad, Sized, PicInv
<1>0. heap.fill \in Byte
  BY DEF TypeOK
<1>2. ASSUME NEW pm, Loaded(pm),
             fb.pixelsize \in {1, 2} =>
               IsBytes(pm, fb.pixelsize) /\ (Counted(pm.w, pm.h) => IsPicture(pm, fb.pixelsize))
      PROVE  PicInv'
  BY <1>1, <1>2 DEF Loaded, PicInv, PictureHere
<1>3. CASE pc' \in {"exit1", "crash"} /\ UNCHANGED dumped
  BY <1>1, <1>3 DEF PicInv
<1>4. CASE BmpLoad
  <2>1. CASE BmpAccepted(opts.file) /\ Loaded(LoadPixels(opts.file, fb.pixelsize, heap.fill))
    <3>1. opts.file.bpp \in {24, 32}
      BY <2>1 DEF BmpAccepted
    <3> DEFINE pm == LoadPixels(opts.file, fb.pixelsize, heap.fill)
    <3>2. pm.w = opts.file.w /\ pm.h = opts.file.h
      BY DEF LoadPixels
    <3>3. fb.pixelsize \in {1, 2} =>
            IsBytes(pm, fb.pixelsize) /\ (Counted(opts.file.w, opts.file.h) => IsPicture(pm, fb.pixelsize))
      BY <1>0, <1>1, <3>1, BmpPicture
    <3> HIDE DEF pm
    <3> QED BY <1>2, <2>1, <3>2, <3>3 DEF pm
  <2>2. CASE LoadFails
    BY <1>3, <2>2 DEF LoadFails
  <2> QED BY <1>4, <2>1, <2>2 DEF BmpLoad
<1>5. CASE JpegLoad
  <2>1. CASE opts.file.state = "good" /\ Loaded(JpegPixels(opts.file, fb.pixelsize, heap.fill))
    <3>1. opts.file.ext \in {"JPG", "JPEG"}
      BY <1>5 DEF JpegLoad
    <3>2. fb.pixelsize \in {1, 2} => IsPicture(JpegPixels(opts.file, fb.pixelsize, heap.fill), fb.pixelsize)
      BY <1>1, <2>1, <3>1, JpegPicture
    <3> QED BY <1>2, <2>1, <3>2 DEF IsPicture
  <2>2. CASE LoadFails
    BY <1>3, <2>2 DEF LoadFails
  <2>3. CASE pc' = "crash" /\ UNCHANGED <<opts, device, palette, fb, pixmap, dumped>>
    BY <1>3, <2>3
  <2> QED BY <1>5, <2>1, <2>2, <2>3 DEF JpegLoad
<1> QED BY <1>4, <1>5

LEMMA PicStep == TypeOK /\ Sized /\ PicInv /\ [Next]_vars => PicInv'
<1> SUFFICES ASSUME TypeOK, Sized, PicInv, [Next]_vars PROVE PicInv'
  OBVIOUS
<1>1. CASE Ended \/ UNCHANGED vars
  BY <1>1 DEF Ended, vars, PicInv, PictureHere
<1>2. CASE \/ HelpOrNoValue \/ OptScale \/ OptAutoscale \/ OptRotate
           \/ OptDump \/ OptQuiet \/ OptFile \/ EndOfParams
  <2>1. pc' \in {"params", "init", "load", "exit1"} /\ UNCHANGED dumped /\ pc = "params"
    BY <1>2 DEF HelpOrNoValue, OptScale, OptAutoscale, OptRotate, OptDump, OptQuiet, OptFile,
                EndOfParams, Argument, Refuse
  <2> QED BY <2>1 DEF PicInv
<1>3. CASE FbInitFails \/ FbInit \/ FbInitNoMemory \/ HeapAbort
  <2>1. pc \in {"init", "scale", "rotate", "dump"} /\ pc' \in {"load", "exit1", "crash"} /\ UNCHANGED dumped
    BY <1>3 DEF FbInitFails, FbInit, FbInitNoMemory, HeapAbort
  <2> QED BY <2>1 DEF PicInv
<1>4. CASE Autoscale
  <2>1. UNCHANGED <<fb, pixmap, dumped>> /\ pc = "autoscale" /\ pc' = "scale" /\ opts'.rotate = opts.rotate
    BY <1>4 DEF Autoscale, TypeOK
  <2> QED BY <2>1 DEF PicInv, PictureHere
<1>5. CASE ScalePixmap
  <2>1. pc = "scale" /\ pc' = "rotate" /\ UNCHANGED <<opts, fb, dumped>>
    BY <1>5 DEF ScalePixmap, Replace
  <2> SUFFICES ASSUME fb.pixelsize \in {1, 2}, opts.rotate = 0
               PROVE  PictureHere'
    BY <2>1 DEF PicInv
  <2>2. PictureHere
    BY <2>1 DEF PicInv
  <2>3. CASE pixmap' = pixmap
    BY <2>1, <2>2, <2>3 DEF PictureHere
  <2>4. CASE pixmap' # pixmap
    <3>1. PICK nw \in ScaledSizes(pixmap.w, opts.scale), nh \in ScaledSizes(pixmap.h, opts.scale) :
            pixmap' = Scale(pixmap, nw, nh, opts.scale, fb.pixelsize, heap.fill)
      BY <1>5, <2>4 DEF ScalePixmap, Replace
    <3>2. opts.scale \in Nat \X (Nat \ {0}) /\ pixmap.w \in Nat /\ pixmap.h \in Nat
      BY DEF TypeOK, Uint16
    <3>3. nw \in Nat /\ nh \in Nat
      BY <3>2, ScaledRange DEF Uint16
    <3>4. IsPicture(Scale(pixmap, nw, nh, opts.scale, fb.pixelsize, heap.fill), fb.pixelsize)
      BY <2>2, <3>2, <3>3, ScalePicture DEF PictureHere
    <3> QED BY <2>1, <3>1, <3>4 DEF PictureHere, IsPicture
  <2> QED BY <2>3, <2>4
<1>6. CASE RotatePixmap
  <2>1. pc = "rotate" /\ pc' = "dump" /\ UNCHANGED <<opts, fb, dumped>>
        /\ (opts.rotate = 0 => UNCHANGED pixmap)
    BY <1>6 DEF RotatePixmap, Replace
  <2> QED BY <2>1 DEF PicInv, PictureHere
<1>7. CASE Dump
  <2>1. pc = "dump" /\ pc' = "show" /\ UNCHANGED <<opts, fb, pixmap>> /\ dumped = {}
        /\ \A d \in dumped' : d.file = DumpPixels(pixmap, fb.pixelsize)
    BY <1>7 DEF Dump, PicInv
  <2> QED BY <2>1 DEF PicInv, PictureHere
<1>8. CASE Show
  <2>1. pc = "show" /\ (pc' = "crash" \/ (pc' = "exit0" /\ UNCHANGED dumped)) /\ UNCHANGED <<opts, fb, pixmap>>
    BY <1>8 DEF Show
  <2> QED BY <2>1 DEF PicInv, PictureHere
<1> QED
  BY <1>1, <1>2, <1>3, <1>4, <1>5, <1>6, <1>7, <1>8, PicLoad DEF Next
----------------------------------------------------------------------------
(* The codecs find the picture *)

\* The pixmap is the picture of file f.
LoadedOf(f, pm, ps) ==
  /\ pm.w = f.w /\ pm.h = f.h
  /\ \A x \in 0 .. f.w - 1, y \in 0 .. f.h - 1 : PixelOf(pm, ps, x, y) = Quant(ps, f.picture[<<x, y>>])

\* Every file the properties are about is read with the padding it has: the
\* width modulo 4 is right for 24 bits.
LEMMA RowsInStep ==
  ASSUME NEW w \in Nat, NEW bpp \in {24, 32}, bpp = 24 \/ w % 4 = 0, Columns(w) = w
  PROVE  RowBytes(w, bpp) = Padded(w * (bpp \div 8))
<1>1. CASE bpp = 24
  <2>1. bpp \div 8 = 3 /\ w * 3 + (w % 4) = ((w * 3 + 3) \div 4) * 4
    BY <1>1
  <2> QED BY <2>1 DEF RowBytes, Padded
<1>2. CASE bpp = 32
  <2>1. bpp \div 8 = 4 /\ w * 4 + (w % 4) = ((w * 4 + 3) \div 4) * 4
    BY <1>2
  <2> QED BY <2>1 DEF RowBytes, Padded
<1> QED BY <1>1, <1>2

\* A pixmap in which fb_set_pixel has written the picture of f
LEMMA FilledLoaded ==
  ASSUME NEW f, NEW ps \in {1, 2}, NEW colour, NEW fill,
         f.w \in Nat, f.h \in Nat, DOMAIN colour = 0 .. f.w * f.h - 1,
         \A x \in 0 .. f.w - 1, y \in 0 .. f.h - 1, a \in 1 .. 3 :
           colour[x + y * f.w][a] = f.picture[<<x, y>>][a]
  PROVE  LoadedOf(f, [w |-> f.w, h |-> f.h, mem |-> Filled(f.w * f.h, ps, colour, fill)], ps)
<1> DEFINE pm == [w |-> f.w, h |-> f.h, mem |-> Filled(f.w * f.h, ps, colour, fill)]
           n == f.w * f.h
           mem == Filled(n, ps, colour, fill)
<1>1. n \in Nat /\ pm.w = f.w /\ pm.h = f.h /\ pm.mem = mem /\ DOMAIN colour = 0 .. n - 1
  OBVIOUS
<1> SUFFICES ASSUME NEW x \in 0 .. f.w - 1, NEW y \in 0 .. f.h - 1
             PROVE  PixelOf(pm, ps, x, y) = Quant(ps, f.picture[<<x, y>>])
  BY <1>1 DEF LoadedOf
<1> DEFINE k == x + y * f.w
<1>2. k \in 0 .. n - 1
  BY PixelIndex
<1>3. PixelOf(pm, ps, x, y) = GetPixel(ps, mem, k * ps)
  BY <1>1 DEF PixelOf
<1> DEFINE c == f.picture[<<x, y>>]
           d == colour[k]
<1>4. d[1] = c[1] /\ d[2] = c[2] /\ d[3] = c[3]
  <2>1. 1 \in 1 .. 3 /\ 2 \in 1 .. 3 /\ 3 \in 1 .. 3
    OBVIOUS
  <2> QED BY <2>1
<1> HIDE DEF n, k, pm
<1>5. Written(mem, n, ps, colour)
  BY <1>1, FilledWritten, SMT
<1> HIDE DEF mem
<1>6. GetPixel(ps, mem, k * ps) = Quant(ps, d)
  <2>1. ReadsBack(mem, n, ps, colour)
    BY <1>1, <1>5, ReadBack
  <2> QED BY <1>2, <2>1 DEF ReadsBack
<1> HIDE DEF c, d
<1>7. Quant(ps, d) = Quant(ps, c)
  BY <1>4, QuantSame
<1> QED BY <1>3, <1>6, <1>7 DEF c, pm

\* bmp2fb_pixmap finds the picture in the file.
LEMMA BmpLoaded ==
  ASSUME NEW f \in Files, NEW ps \in {1, 2}, NEW fill, f.ext = "BMP", f.bpp \in {24, 32},
         Stores(f), InStep(f)
  PROVE  LoadedOf(f, LoadPixels(f, ps, fill), ps)
<1>1. f.w \in Nat /\ f.h \in Nat /\ f.data \in Seq(Byte)
  BY SizesAssumption, DataAssumption DEF Uint16
<1>0. Counted(f.w, f.h) /\ (f.bpp = 24 \/ f.w % 4 = 0)
  BY DEF InStep
<1> DEFINE n == f.w * f.h
           At(k) == (f.h - 1 - k \div f.w) * RowBytes(f.w, f.bpp) + (k % f.w) * (f.bpp \div 8)
           colour == [k \in 0 .. n - 1 |->
                        <<Fgetc(f.data, At(k) + 2), Fgetc(f.data, At(k) + 1), Fgetc(f.data, At(k))>>]
           pm == LoadPixels(f, ps, fill)
<1>2. pm = [w |-> f.w, h |-> f.h, mem |-> Filled(n, ps, colour, fill)]
  <2>1. pm = [w |-> f.w, h |-> f.h,
              mem |-> Filled(n, ps, [k \in Visited(f.w, f.h) |->
                        <<Fgetc(f.data, At(k) + 2), Fgetc(f.data, At(k) + 1), Fgetc(f.data, At(k))>>], fill)]
    BY DEF LoadPixels, Visited
  <2>2. Visited(f.w, f.h) = 0 .. n - 1
    BY <1>0, <1>1, AllVisited
  <2> QED BY <2>1, <2>2
<1>3. DOMAIN colour = 0 .. n - 1
  OBVIOUS
<1>4. RowBytes(f.w, f.bpp) = Padded(f.w * (f.bpp \div 8))
  BY <1>0, <1>1, AllVisited, RowsInStep
<1>5. ASSUME NEW x \in 0 .. f.w - 1, NEW y \in 0 .. f.h - 1
      PROVE  LET d == colour[x + y * f.w]
                 c == f.picture[<<x, y>>]
             IN  d[1] = c[1] /\ d[2] = c[2] /\ d[3] = c[3]
  <2> DEFINE k == x + y * f.w
             size == f.bpp \div 8
             row == Padded(f.w * size)
             at == (f.h - 1 - y) * row + x * size
             c == f.picture[<<x, y>>]
  <2>1. k \in 0 .. n - 1 /\ k % f.w = x /\ k \div f.w = y
    BY <1>1, PixelIndex
  <2>2. At(k) = at
    BY <1>4, <2>1
  <2>3. /\ at + 3 <= Len(f.data)
        /\ f.data[at + 4 - 1] = c[1] /\ f.data[at + 4 - 2] = c[2] /\ f.data[at + 4 - 3] = c[3]
    <3>1. 1 \in 1 .. 3 /\ 2 \in 1 .. 3 /\ 3 \in 1 .. 3
      OBVIOUS
    <3>2. \A a \in 1 .. 3 : at + 3 <= Len(f.data) /\ f.data[at + 4 - a] = c[a]
      BY DEF Stores
    <3> HIDE DEF at, c
    <3> QED BY <3>1, <3>2
  <2>4. at \in Nat
    <3>1. size \in Nat
      OBVIOUS
    <3>2. row \in Nat
      <4> DEFINE z == f.w * size
      <4>1. z \in Nat
        BY <1>1, <3>1
      <4> HIDE DEF z
      <4>2. Padded(z) \in Nat
        BY <4>1 DEF Padded
      <4> QED BY <4>2 DEF z
    <3> DEFINE u == f.h - 1 - y
    <3>3. u \in Nat
      BY <1>1
    <3> HIDE DEF u, row, size
    <3>4. u * row + x * size \in Nat
      BY <3>1, <3>2, <3>3
    <3> QED BY <3>4 DEF u
  <2>5. colour[k] = <<Fgetc(f.data, At(k) + 2), Fgetc(f.data, At(k) + 1), Fgetc(f.data, At(k))>>
    BY <2>1
  <2> HIDE DEF At, colour, at, k, c
  <2>6. at + 4 - 1 = (at + 2) + 1 /\ at + 4 - 2 = (at + 1) + 1 /\ at + 4 - 3 = at + 1
    BY <2>4
  <2>7. at < Len(f.data) /\ at + 1 < Len(f.data) /\ at + 2 < Len(f.data)
    BY <1>1, <2>3, <2>4
  <2>8. Fgetc(f.data, at) = c[3] /\ Fgetc(f.data, at + 1) = c[2] /\ Fgetc(f.data, at + 2) = c[1]
    BY <2>3, <2>6, <2>7 DEF Fgetc
  <2> QED BY <2>2, <2>5, <2>8 DEF k, c
<1> HIDE DEF colour, pm
<1>6. \A x \in 0 .. f.w - 1, y \in 0 .. f.h - 1, a \in 1 .. 3 :
        colour[x + y * f.w][a] = f.picture[<<x, y>>][a]
  BY <1>5
<1>7. LoadedOf(f, pm, ps)
  BY <1>1, <1>2, <1>3, <1>6, FilledLoaded
<1> QED BY <1>7 DEF pm

\* jpeg2fb_pixmap stores the lines of libjpeg.
LEMMA JpegLoaded ==
  ASSUME NEW f \in Files, NEW ps \in {1, 2}, NEW fill, f.ext \in {"JPG", "JPEG"}, Stores(f)
  PROVE  LoadedOf(f, JpegPixels(f, ps, fill), ps)
<1>1. f.w \in Nat /\ f.h \in Nat
  BY SizesAssumption DEF Uint16
<1> DEFINE n == f.w * f.h
           colour == [k \in 0 .. n - 1 |-> [c \in 1 .. 3 |-> f.data[3 * k + c]]]
           pm == JpegPixels(f, ps, fill)
<1>2. pm = [w |-> f.w, h |-> f.h, mem |-> Filled(n, ps, colour, fill)]
  BY DEF JpegPixels
<1>3. DOMAIN colour = 0 .. n - 1
  OBVIOUS
<1>4. ASSUME NEW x \in 0 .. f.w - 1, NEW y \in 0 .. f.h - 1, NEW a \in 1 .. 3
      PROVE  colour[x + y * f.w][a] = f.picture[<<x, y>>][a]
  <2>1. x + y * f.w \in 0 .. n - 1
    BY <1>1, PixelIndex
  <2>2. f.data[3 * (x + y * f.w) + a] = f.picture[<<x, y>>][a]
    BY DEF Stores
  <2> QED BY <2>1, <2>2
<1> HIDE DEF colour, pm
<1>5. LoadedOf(f, pm, ps)
  BY <1>1, <1>2, <1>3, <1>4, FilledLoaded
<1> QED BY <1>5 DEF pm
----------------------------------------------------------------------------
(* The scaled picture *)

\* Channel a of colour c lies between those of pixels of f next to the place
\* from which the pixel at x, y comes.
NearColours(f, ps, s, x, y) ==
  {Quant(ps, f.picture[<<i, j>>]) : i \in Near(x, f.w, s), j \in Near(y, f.h, s)}
Among(f, ps, s, x, y, a, v) == \E p, q \in NearColours(f, ps, s, x, y) : p[a] <= v /\ v <= q[a]

\* The pixmap is the picture of file f, scaled.
ScaledOf(f, pm, ps, s) ==
  /\ pm.w = (f.w * s[1]) \div s[2] /\ pm.h = (f.h * s[1]) \div s[2]
  /\ \A x \in 0 .. pm.w - 1, y \in 0 .. pm.h - 1, a \in 1 .. 3 :
       Among(f, ps, s, x, y, a, PixelOf(pm, ps, x, y)[a])

\* The columns (rows) that count are less than a pixel away; the second one has
\* no weight when the first is exactly the place.
Source2Used(i, size, s) == IF Weight(i, s) = 0 THEN Source1(i, s) ELSE Source2(i, size, s)

LEMMA SourceNear ==
  ASSUME NEW s \in Nat \X (Nat \ {0}), NEW size \in Nat, NEW new \in ScaledSizes(size, s),
         NEW i \in 0 .. new - 1, new \in Nat
  PROVE  Source1(i, s) \in Near(i, size, s) /\ Source2Used(i, size, s) \in Near(i, size, s)
<1> DEFINE a == s[1]
           d == s[2]
           t == i * d
           q == t \div a
           r == t % a
<1>1. /\ a \in Nat \ {0} /\ Weight(i, s) \in 0 .. a - 1
      /\ Source1(i, s) \in 0 .. size - 1 /\ Source2(i, size, s) \in 0 .. size - 1
  BY ScaleSource
<1>2. Weight(i, s) = r /\ Source1(i, s) = q /\ (Source2(i, size, s) = q \/ Source2(i, size, s) = q + 1)
  BY DEF Weight, Source1, Source2
<1>3. d \in Nat /\ t \in Nat
  OBVIOUS
<1>4. \A x \in 0 .. size - 1 : x * a - t < a /\ t - x * a < a => x \in Near(i, size, s)
  BY DEF Near
<1> HIDE DEF a, d, t
<1>5. q \in Nat /\ r \in 0 .. a - 1 /\ t = a * q + r
  BY <1>1, <1>3
<1> HIDE DEF q, r
<1>6. a * q = q * a /\ (q + 1) * a = q * a + a /\ q * a \in Nat
  BY <1>1, <1>5
<1>7. q * a - t < a /\ t - q * a < a
  BY <1>1, <1>3, <1>5, <1>6
<1>8. r # 0 => (q + 1) * a - t < a /\ t - (q + 1) * a < a
  BY <1>1, <1>3, <1>5, <1>6
<1> QED BY <1>1, <1>2, <1>4, <1>7, <1>8 DEF Source2Used

\* A pixel without weight does not count.
LEMMA InterpolateUsed ==
  ASSUME NEW n \in Nat, NEW wx \in Nat, NEW wy \in Nat,
         NEW p1 \in Int, NEW p2 \in Int, NEW p3 \in Int, NEW p4 \in Int,
         NEW q2 \in Int, NEW q3 \in Int, NEW q4 \in Int,
         q2 = p2 \/ wx = 0, wx = 0 => q2 = p1,
         wy # 0 => q3 = p3 /\ q4 = IF wx = 0 THEN p3 ELSE p4
  PROVE  Interpolate(p1, p2, p3, p4, wx, wy, n) = Interpolate(p1, q2, q3, q4, wx, wy, n)
<1>1. CASE wx = 0 /\ wy = 0
  BY <1>1 DEF Interpolate
<1>2. CASE wx = 0 /\ wy # 0
  BY <1>2 DEF Interpolate
<1>3. CASE wx # 0 /\ wy = 0
  BY <1>3 DEF Interpolate
<1>4. CASE wx # 0 /\ wy # 0
  BY <1>4 DEF Interpolate
<1> QED BY <1>1, <1>2, <1>3, <1>4

\* The least and the greatest of four
LEMMA Extremes ==
  ASSUME NEW a, NEW p1, NEW p2, NEW p3, NEW p4,
         p1[a] \in Byte, p2[a] \in Byte, p3[a] \in Byte, p4[a] \in Byte
  PROVE  \E lo, hi \in {p1, p2, p3, p4} :
           p1[a] \in lo[a] .. hi[a] /\ p2[a] \in lo[a] .. hi[a] /\ p3[a] \in lo[a] .. hi[a] /\ p4[a] \in lo[a] .. hi[a]
<1>1. ASSUME NEW u \in Byte, NEW v \in Byte, NEW x \in Byte, NEW y \in Byte
      PROVE  /\ (u <= v /\ u <= x /\ u <= y) \/ (v <= u /\ v <= x /\ v <= y)
                \/ (x <= u /\ x <= v /\ x <= y) \/ (y <= u /\ y <= v /\ y <= x)
             /\ (u >= v /\ u >= x /\ u >= y) \/ (v >= u /\ v >= x /\ v >= y)
                \/ (x >= u /\ x >= v /\ x >= y) \/ (y >= u /\ y >= v /\ y >= x)
  BY DEF Byte
<1>2. \E lo \in {p1, p2, p3, p4} : lo[a] <= p1[a] /\ lo[a] <= p2[a] /\ lo[a] <= p3[a] /\ lo[a] <= p4[a]
  <2>1. p1[a] <= p1[a] /\ p2[a] <= p2[a] /\ p3[a] <= p3[a] /\ p4[a] <= p4[a]
    BY DEF Byte
  <2>2. \/ p1[a] <= p2[a] /\ p1[a] <= p3[a] /\ p1[a] <= p4[a]
        \/ p2[a] <= p1[a] /\ p2[a] <= p3[a] /\ p2[a] <= p4[a]
        \/ p3[a] <= p1[a] /\ p3[a] <= p2[a] /\ p3[a] <= p4[a]
        \/ p4[a] <= p1[a] /\ p4[a] <= p2[a] /\ p4[a] <= p3[a]
    BY <1>1
  <2> QED BY <2>1, <2>2, Zenon
<1>3. \E hi \in {p1, p2, p3, p4} : hi[a] >= p1[a] /\ hi[a] >= p2[a] /\ hi[a] >= p3[a] /\ hi[a] >= p4[a]
  <2>1. p1[a] >= p1[a] /\ p2[a] >= p2[a] /\ p3[a] >= p3[a] /\ p4[a] >= p4[a]
    BY DEF Byte
  <2>2. \/ p1[a] >= p2[a] /\ p1[a] >= p3[a] /\ p1[a] >= p4[a]
        \/ p2[a] >= p1[a] /\ p2[a] >= p3[a] /\ p2[a] >= p4[a]
        \/ p3[a] >= p1[a] /\ p3[a] >= p2[a] /\ p3[a] >= p4[a]
        \/ p4[a] >= p1[a] /\ p4[a] >= p2[a] /\ p4[a] >= p3[a]
    BY <1>1
  <2> QED BY <2>1, <2>2, Zenon
<1>4. PICK lo \in {p1, p2, p3, p4} : lo[a] <= p1[a] /\ lo[a] <= p2[a] /\ lo[a] <= p3[a] /\ lo[a] <= p4[a]
  BY <1>2
<1>5. PICK hi \in {p1, p2, p3, p4} : hi[a] >= p1[a] /\ hi[a] >= p2[a] /\ hi[a] >= p3[a] /\ hi[a] >= p4[a]
  BY <1>3
<1>6. lo[a] \in Byte /\ hi[a] \in Byte
  BY <1>4, <1>5
<1>7. p1[a] \in lo[a] .. hi[a] /\ p2[a] \in lo[a] .. hi[a] /\ p3[a] \in lo[a] .. hi[a] /\ p4[a] \in lo[a] .. hi[a]
  <2>1. \A l, v, h \in Byte : l <= v /\ h >= v => v \in l .. h
    BY DEF Byte
  <2> QED BY <1>4, <1>5, <1>6, <2>1
<1> QED BY <1>4, <1>5, <1>7

\* The scaled colour lies between pixels of the picture next to its place.
LEMMA ScaledAmong ==
  ASSUME NEW f, NEW pm, NEW ps \in {1, 2}, IsBytes(pm, ps), LoadedOf(f, pm, ps), pm.w \in Nat, pm.h \in Nat,
         NEW s \in Nat \X (Nat \ {0}),
         NEW nw \in ScaledSizes(pm.w, s), NEW nh \in ScaledSizes(pm.h, s), nw \in Nat, nh \in Nat,
         NEW i \in 0 .. nw - 1, NEW j \in 0 .. nh - 1, NEW a \in 1 .. 3
  PROVE  Among(f, ps, s, i, j, a, Quant(ps, ScaledColour(pm, s, ps, i, j))[a])
<1> DEFINE x1 == Source1(i, s)
           x2 == Source2Used(i, pm.w, s)
           y1 == Source1(j, s)
           y2 == Source2Used(j, pm.h, s)
           c == ScaledColour(pm, s, ps, i, j)
           n == s[1]
           wx == Weight(i, s)
           wy == Weight(j, s)
           P(x, y) == PixelOf(pm, ps, x, y)
           S == NearColours(f, ps, s, i, j)
<1>1. x1 \in Near(i, f.w, s) /\ x2 \in Near(i, f.w, s) /\ y1 \in Near(j, f.h, s) /\ y2 \in Near(j, f.h, s)
  BY SourceNear DEF LoadedOf
<1>2. ASSUME NEW x \in Near(i, f.w, s), NEW y \in Near(j, f.h, s)
      PROVE  P(x, y) \in S /\ IsColour(P(x, y)) /\ Quant(ps, P(x, y)) = P(x, y)
  <2>1. x \in 0 .. f.w - 1 /\ y \in 0 .. f.h - 1
    BY DEF Near
  <2>2. P(x, y) = Quant(ps, f.picture[<<x, y>>])
    BY <2>1 DEF LoadedOf
  <2>3. x \in 0 .. pm.w - 1 /\ y \in 0 .. pm.h - 1
    BY <2>1 DEF LoadedOf
  <2>4. P(x, y) \in S
    <3> HIDE DEF P
    <3> QED BY <2>2 DEF NearColours
  <2> QED BY <2>3, <2>4, PixelFixed
<1>3. /\ n \in Nat \ {0} /\ wx \in 0 .. n - 1 /\ wy \in 0 .. n - 1
      /\ x1 \in 0 .. pm.w - 1 /\ Source2(i, pm.w, s) \in 0 .. pm.w - 1
      /\ y1 \in 0 .. pm.h - 1 /\ Source2(j, pm.h, s) \in 0 .. pm.h - 1
  BY ScaleSource
<1>4. c[a] = Interpolate(P(x1, y1)[a], P(x2, y1)[a], P(x1, y2)[a], P(x2, y2)[a], wx, wy, n)
  <2> DEFINE X2 == Source2(i, pm.w, s)
             Y2 == Source2(j, pm.h, s)
  <2>1. c[a] = Interpolate(P(x1, y1)[a], P(X2, y1)[a], P(x1, Y2)[a], P(X2, Y2)[a], wx, wy, n)
    BY DEF ScaledColour
  <2>2. x2 = (IF wx = 0 THEN x1 ELSE X2) /\ y2 = (IF wy = 0 THEN y1 ELSE Y2)
    BY DEF Source2Used
  <2>3. IsColour(P(x1, y1)) /\ IsColour(P(X2, y1)) /\ IsColour(P(x1, Y2)) /\ IsColour(P(X2, Y2))
    BY <1>3, PixelFixed
  <2>4. IsColour(P(x2, y1)) /\ IsColour(P(x1, y2)) /\ IsColour(P(x2, y2))
    BY <1>1, <1>2
  <2> HIDE DEF x1, x2, y1, y2, c, n, wx, wy, P, X2, Y2, S
  <2> DEFINE p1 == P(x1, y1)[a]
             p2 == P(X2, y1)[a]
             p3 == P(x1, Y2)[a]
             p4 == P(X2, Y2)[a]
             q2 == P(x2, y1)[a]
             q3 == P(x1, y2)[a]
             q4 == P(x2, y2)[a]
  <2>5. /\ p1 \in Int /\ p2 \in Int /\ p3 \in Int /\ p4 \in Int
        /\ q2 \in Int /\ q3 \in Int /\ q4 \in Int
    <3>1. \A p : IsColour(p) => p[a] \in Int
      BY DEF IsColour, Byte
    <3> QED BY <2>3, <2>4, <3>1
  <2>6. /\ q2 = p2 \/ wx = 0
        /\ wx = 0 => q2 = p1
        /\ wy # 0 => q3 = p3 /\ q4 = IF wx = 0 THEN p3 ELSE p4
    BY <2>2
  <2> HIDE DEF p1, p2, p3, p4, q2, q3, q4
  <2>7. n \in Nat /\ wx \in Nat /\ wy \in Nat
    BY <1>3
  <2>8. Interpolate(p1, p2, p3, p4, wx, wy, n) = Interpolate(p1, q2, q3, q4, wx, wy, n)
    BY <2>5, <2>6, <2>7, InterpolateUsed
  <2> QED BY <2>1, <2>8 DEF p1, p2, p3, p4, q2, q3, q4
<1> DEFINE p1 == P(x1, y1)
           p2 == P(x2, y1)
           p3 == P(x1, y2)
           p4 == P(x2, y2)
<1>5. ASSUME NEW p \in {p1, p2, p3, p4} PROVE p \in S /\ IsColour(p) /\ Quant(ps, p) = p
  <2> HIDE DEF P, S, x1, x2, y1, y2
  <2> QED BY <1>1, <1>2
<1>6. IsColour(c)
  BY ScaledIsColour
<1>7. c[a] = Interpolate(p1[a], p2[a], p3[a], p4[a], wx, wy, n)
  BY <1>4
<1>8. \A v : (\E p, q \in S : p[a] <= v /\ v <= q[a]) => Among(f, ps, s, i, j, a, v)
  BY DEF Among
<1> HIDE DEF x1, x2, y1, y2, c, n, wx, wy, P, S, p1, p2, p3, p4
<1>9. p1[a] \in Byte /\ p2[a] \in Byte /\ p3[a] \in Byte /\ p4[a] \in Byte
  BY <1>5 DEF IsColour
<1>10. PICK lo \in {p1, p2, p3, p4}, hi \in {p1, p2, p3, p4} :
         p1[a] \in lo[a] .. hi[a] /\ p2[a] \in lo[a] .. hi[a] /\ p3[a] \in lo[a] .. hi[a] /\ p4[a] \in lo[a] .. hi[a]
  BY <1>9, Extremes
<1>11. lo[a] \in Nat /\ hi[a] \in Nat
  <2>1. lo[a] \in Byte /\ hi[a] \in Byte
    BY <1>9, <1>10
  <2> QED BY <2>1 DEF Byte
<1>12. Interpolate(p1[a], p2[a], p3[a], p4[a], wx, wy, n) \in lo[a] .. hi[a]
  BY <1>3, <1>10, <1>11, InterpolateRange
<1>13. lo[a] <= Quant(ps, c)[a] /\ Quant(ps, c)[a] <= hi[a]
  BY <1>5, <1>6, <1>7, <1>12, QuantBetween
<1>14. Among(f, ps, s, i, j, a, Quant(ps, c)[a])
  BY <1>5, <1>8, <1>13
<1> QED BY <1>14 DEF c

\* A scale that is a short binary fraction gives one size.
LEMMA ExactSize ==
  ASSUME NEW size \in Nat, NEW s \in Nat \X (Nat \ {0}), Exact(s),
         (size * s[1]) \div s[2] \in Uint16, NEW r \in ScaledSizes(size, s)
  PROVE  r = (size * s[1]) \div s[2]
<1> DEFINE e == (size * s[1]) \div s[2]
<1>1. r = e % 65536
  <2>1. IsPowerOf2(s[2]) /\ s[1] < 256
    BY DEF Exact, IsPowerOf2
  <2> QED BY <2>1 DEF ScaledSizes
<1> HIDE DEF e
<1>2. e % 65536 = e
  BY DEF Uint16, e
<1> QED BY <1>1, <1>2 DEF e

\* fb_pixmap_scale makes the scaled picture of the loaded one.
LEMMA ScaleScaled ==
  ASSUME NEW f, NEW pm, NEW ps \in {1, 2}, IsBytes(pm, ps), LoadedOf(f, pm, ps), pm.w \in Nat, pm.h \in Nat,
         NEW s \in Nat \X (Nat \ {0}), Exact(s), ScaledIn16(f, s), NEW fill,
         NEW nw \in ScaledSizes(pm.w, s), NEW nh \in ScaledSizes(pm.h, s), nw \in Nat, nh \in Nat
  PROVE  ScaledOf(f, Scale(pm, nw, nh, s, ps, fill), ps, s)
<1> DEFINE n == nw * nh
           colour == [k \in 0 .. n - 1 |-> ScaledColour(pm, s, ps, k % nw, k \div nw)]
           mem == Filled(n, ps, colour, fill)
           new == Scale(pm, nw, nh, s, ps, fill)
<1>1. new = [w |-> nw, h |-> nh, mem |-> mem]
  BY ScaleIs
<1>2. nw = (f.w * s[1]) \div s[2] /\ nh = (f.h * s[1]) \div s[2]
  BY ExactSize DEF LoadedOf, ScaledIn16
<1>3. n \in Nat /\ DOMAIN colour = 0 .. n - 1
  OBVIOUS
<1>4. ASSUME NEW x \in 0 .. nw - 1, NEW y \in 0 .. nh - 1, NEW a \in 1 .. 3
      PROVE  Among(f, ps, s, x, y, a, PixelOf(new, ps, x, y)[a])
  <2> DEFINE k == x + y * nw
  <2>1. k \in 0 .. n - 1 /\ k % nw = x /\ k \div nw = y
    BY PixelIndex
  <2>2. colour[k] = ScaledColour(pm, s, ps, x, y)
    BY <2>1
  <2>3. PixelOf(new, ps, x, y) = GetPixel(ps, mem, k * ps)
    <3> HIDE DEF new, mem
    <3> QED BY <1>1 DEF PixelOf
  <2> HIDE DEF k, n, colour
  <2>4. Written(mem, n, ps, colour)
    BY <1>3, FilledWritten, SMT
  <2> HIDE DEF mem
  <2>5. ReadsBack(mem, n, ps, colour)
    BY <1>3, <2>4, ReadBack
  <2>6. GetPixel(ps, mem, k * ps) = Quant(ps, ScaledColour(pm, s, ps, x, y))
    BY <2>1, <2>2, <2>5 DEF ReadsBack
  <2> HIDE DEF new
  <2>7. Among(f, ps, s, x, y, a, Quant(ps, ScaledColour(pm, s, ps, x, y))[a])
    BY ScaledAmong
  <2> QED BY <2>3, <2>6, <2>7
<1>5. new.w = nw /\ new.h = nh
  BY <1>1
<1> HIDE DEF new
<1>6. ScaledOf(f, new, ps, s)
  BY <1>2, <1>4, <1>5 DEF ScaledOf
<1> QED BY <1>6 DEF new

\* A scale of 1 leaves the picture as it is.
LEMMA UnscaledScaled ==
  ASSUME NEW f, NEW pm, NEW ps \in {1, 2}, IsBytes(pm, ps), LoadedOf(f, pm, ps), pm.w \in Nat, pm.h \in Nat,
         NEW s \in Nat \X (Nat \ {0}), s[1] = s[2]
  PROVE  ScaledOf(f, pm, ps, s)
<1>1. pm.w = f.w /\ pm.h = f.h
  BY DEF LoadedOf
<1>2. pm.w = (f.w * s[1]) \div s[2] /\ pm.h = (f.h * s[1]) \div s[2]
  <2>1. ASSUME NEW b \in Nat, NEW d \in Nat \ {0} PROVE (b * d) \div d = b
    <3>1. b * d = d * b
      OBVIOUS
    <3> QED BY <3>1, DivExact
  <2> QED BY <1>1, <2>1
<1>3. ASSUME NEW x \in 0 .. pm.w - 1, NEW y \in 0 .. pm.h - 1, NEW a \in 1 .. 3
      PROVE  Among(f, ps, s, x, y, a, PixelOf(pm, ps, x, y)[a])
  <2>1. ASSUME NEW i \in Nat, NEW size \in Nat, i \in 0 .. size - 1 PROVE i \in Near(i, size, s)
    <3>1. i * s[1] \in Nat /\ i * s[1] - i * s[2] = 0 /\ i * s[2] - i * s[1] = 0 /\ 0 < s[1]
      OBVIOUS
    <3> QED BY <2>1, <3>1 DEF Near
  <2>2. x \in Near(x, f.w, s) /\ y \in Near(y, f.h, s)
    BY <1>1, <2>1
  <2> DEFINE c == PixelOf(pm, ps, x, y)
  <2>3. c = Quant(ps, f.picture[<<x, y>>]) /\ IsColour(c)
    BY <1>1, PixelFixed DEF LoadedOf
  <2> HIDE DEF c
  <2>4. c[a] <= c[a]
    <3>1. c[a] \in Byte
      BY <2>3 DEF IsColour
    <3> QED BY <3>1 DEF Byte
  <2>5. Among(f, ps, s, x, y, a, c[a])
    BY <2>2, <2>3, <2>4 DEF Among, NearColours
  <2> QED BY <2>5 DEF c
<1> QED BY <1>2, <1>3 DEF ScaledOf
----------------------------------------------------------------------------
(* The screen *)

\* The memory of the screen after fb_clear_screen and fb_pixmap_render
Shown(pm, xres, yres, ps) == Render([b \in 0 .. (xres * yres) * ps - 1 |-> 0], pm, xres, yres, ps)

\* Byte o of the pixel at x, y of the screen
RenderedAt(mem, pm, xres, ps, x, y, o) ==
  mem[(x + y * xres) * ps + o] =
    IF x < pm.w /\ y < pm.h THEN pm.mem[(x + y * pm.w) * ps + o] ELSE 0

LEMMA RenderAt ==
  ASSUME NEW pm, NEW ps, NEW xres, NEW yres, NEW x, NEW y, NEW o,
         ps \in {1, 2}, pm.w \in Nat, pm.h \in Nat, xres \in Nat, yres \in Nat,
         x \in 0 .. xres - 1, y \in 0 .. yres - 1, o \in 0 .. ps - 1
  PROVE  RenderedAt(Shown(pm, xres, yres, ps), pm, xres, ps, x, y, o)
<1> DEFINE N == (xres * yres) * ps
           mem0 == [b \in 0 .. N - 1 |-> 0]
           rows == IF yres > pm.h THEN pm.h ELSE yres
           line == (IF xres > pm.w THEN pm.w ELSE xres) * ps
           d == xres * ps
           r == x * ps + o
           b == (x + y * xres) * ps + o
           mem == Render(mem0, pm, xres, yres, ps)
<1>1. b \in 0 .. N - 1
  <2> DEFINE k == x + y * xres
             n == xres * yres
  <2>1. k \in 0 .. n - 1 /\ n \in Nat
    BY PixelIndex
  <2> HIDE DEF k, n
  <2>2. k * ps + o \in 0 .. n * ps - 1
    BY <2>1
  <2> QED BY <2>2 DEF k, n
<1>2. mem[b] = LET j == b \div d
                   k == b % d
               IN  IF j < rows /\ k < line THEN pm.mem[j * pm.w * ps + k] ELSE mem0[b]
  <2> HIDE DEF N, b
  <2> QED BY <1>1 DEF Render
<1>3. d \in Nat \ {0} /\ y \in Nat /\ r \in Nat /\ r < d /\ b = y * d + r
  <2>1. CASE ps = 1
    BY <2>1
  <2>2. CASE ps = 2
    BY <2>2
  <2> QED BY <2>1, <2>2
<1>4. b \div d = y /\ b % d = r
  <2> HIDE DEF d, r, b
  <2>1. (y * d + r) \div d = y /\ (y * d + r) % d = r
    BY <1>3, DivModIs
  <2> QED BY <1>3, <2>1
<1>5. (y < rows <=> y < pm.h) /\ (r < line <=> x < pm.w)
  OBVIOUS
<1>6. y * pm.w * ps + r = (x + y * pm.w) * ps + o
  <2> DEFINE p == y * pm.w
  <2>1. p \in Nat
    OBVIOUS
  <2> HIDE DEF p
  <2>2. p * ps + (x * ps + o) = (x + p) * ps + o
    BY <2>1
  <2> QED BY <2>2 DEF p
<1>7. mem0[b] = 0
  <2> HIDE DEF b, N
  <2> QED BY <1>1
<1>8. mem[b] = IF y < rows /\ r < line THEN pm.mem[y * pm.w * ps + r] ELSE 0
  <2> HIDE DEF mem, mem0, b, r, d, rows, line
  <2> QED BY <1>2, <1>4, <1>7
<1>9. mem[b] = IF x < pm.w /\ y < pm.h THEN pm.mem[(x + y * pm.w) * ps + o] ELSE 0
  <2> HIDE DEF mem, mem0, b, r, d, rows, line
  <2> QED BY <1>5, <1>6, <1>8
<1> HIDE DEF mem
<1>10. RenderedAt(mem, pm, xres, ps, x, y, o)
  BY <1>9 DEF RenderedAt
<1> QED BY <1>10 DEF mem, Shown

\* The pixel at x, y of the screen
PixelShown(pm, ps, xres, yres, x, y) ==
  GetPixel(ps, Shown(pm, xres, yres, ps), (x + y * xres) * ps) =
    IF x < pm.w /\ y < pm.h THEN PixelOf(pm, ps, x, y) ELSE <<0, 0, 0>>

LEMMA RenderedPixel ==
  ASSUME NEW pm, NEW ps, NEW xres, NEW yres, NEW x, NEW y,
         ps \in {1, 2}, pm.w \in Nat, pm.h \in Nat, xres \in Nat, yres \in Nat,
         x \in 0 .. xres - 1, y \in 0 .. yres - 1
  PROVE  PixelShown(pm, ps, xres, yres, x, y)
<1> DEFINE mem == Shown(pm, xres, yres, ps)
<1>1. ASSUME NEW o, o \in 0 .. ps - 1 PROVE RenderedAt(mem, pm, xres, ps, x, y, o)
  BY <1>1, RenderAt
<1> HIDE DEF mem
<1> DEFINE at == (x + y * xres) * ps
           k == (x + y * pm.w) * ps
<1>2. at \in Nat /\ k \in Nat
  <2> DEFINE u == x + y * xres
             v == x + y * pm.w
  <2>1. u \in Nat /\ v \in Nat
    OBVIOUS
  <2> HIDE DEF u, v
  <2>2. u * ps \in Nat /\ v * ps \in Nat
    BY <2>1
  <2> QED BY <2>2 DEF u, v
<1>3. mem[at] = IF x < pm.w /\ y < pm.h THEN pm.mem[k] ELSE 0
  <2>1. 0 \in 0 .. ps - 1
    OBVIOUS
  <2>2. mem[at + 0] = IF x < pm.w /\ y < pm.h THEN pm.mem[k + 0] ELSE 0
    BY <1>1, <2>1 DEF RenderedAt
  <2> HIDE DEF at, k
  <2> QED BY <1>2, <2>2
<1>4. ps = 2 => mem[at + 1] = IF x < pm.w /\ y < pm.h THEN pm.mem[k + 1] ELSE 0
  <2>1. ps = 2 => 1 \in 0 .. ps - 1
    OBVIOUS
  <2> QED BY <1>1, <2>1 DEF RenderedAt
<1>5. PixelOf(pm, ps, x, y) = GetPixel(ps, pm.mem, k)
  BY DEF PixelOf
<1> HIDE DEF at, k
<1>6. CASE x < pm.w /\ y < pm.h
  <2>1. mem[at] = pm.mem[k] /\ (ps = 2 => mem[at + 1] = pm.mem[k + 1])
    BY <1>3, <1>4, <1>6
  <2>2. GetPixel(ps, mem, at) = GetPixel(ps, pm.mem, k)
    BY <2>1 DEF GetPixel
  <2> QED BY <1>5, <1>6, <2>2 DEF at, mem, PixelShown
<1>7. CASE ~(x < pm.w /\ y < pm.h)
  <2>1. mem[at] = 0 /\ (ps = 2 => mem[at + 1] = 0)
    BY <1>3, <1>4, <1>7
  <2>2. /\ (0 \div 32) * 32 = 0 /\ ((0 \div 4) % 8) * 32 = 0 /\ (0 % 4) * 64 = 0
        /\ (0 % 32) * 8 = 0 /\ (0 % 4) * 64 + (0 \div 32) * 8 = 0 /\ ((0 \div 4) % 32) * 8 = 0
    OBVIOUS
  <2>3. GetPixel(ps, mem, at) = <<0, 0, 0>>
    <3>1. CASE ps = 1
      BY <2>1, <2>2, <3>1 DEF GetPixel
    <3>2. CASE ps = 2
      BY <2>1, <2>2, <3>2 DEF GetPixel
    <3> QED BY <3>1, <3>2
  <2> QED BY <1>7, <2>3 DEF at, mem, PixelShown
<1> QED BY <1>6, <1>7

\* The palette of 8 bits shows the colour that fb_get_pixel reads.
LEMMA PaletteShows ==
  ASSUME NEW m \in Byte
  PROVE  LET p == PaletteEntry(8, m)
         IN  <<(p[1] \div 9362) * 32, (p[2] \div 9362) * 32, (p[3] \div 21845) * 64>> =
             <<(m \div 32) * 32, ((m \div 4) % 8) * 32, (m % 4) * 64>>
<1> DEFINE u == (m \div 32) % 8
           v == (m \div 4) % 8
           w == m % 4
<1>1. 65535 \div 7 = 9362 /\ 65535 \div 3 = 21845
  OBVIOUS
<1>2. PaletteEntry(8, m) = <<u * 9362, v * 9362, w * 21845>>
  BY <1>1 DEF PaletteEntry
<1>3. u \in 0 .. 7 /\ v \in 0 .. 7 /\ w \in 0 .. 3 /\ u = m \div 32
  BY DEF Byte
<1>4. ASSUME NEW q \in 0 .. 7 PROVE (q * 9362) \div 9362 = q /\ (q * 21845) \div 21845 = q
  OBVIOUS
<1> HIDE DEF u, v, w
<1>5. (u * 9362) \div 9362 = u /\ (v * 9362) \div 9362 = v /\ (w * 21845) \div 21845 = w
  BY <1>3, <1>4
<1>6. PaletteEntry(8, m)[1] = u * 9362 /\ PaletteEntry(8, m)[2] = v * 9362 /\ PaletteEntry(8, m)[3] = w * 21845
  BY <1>2
<1> QED BY <1>3, <1>5, <1>6 DEF v, w

\* So does a screen of 5-5-5 words whose low byte comes first.
LEMMA FormatShows ==
  ASSUME NEW mem, NEW at, mem[at] \in Byte, mem[at + 1] \in Byte,
         NEW word, word = mem[at] + 256 * mem[at + 1]
  PROVE  GetPixel(2, mem, at) = <<(word % 32) * 8, ((word \div 32) % 32) * 8, ((word \div 1024) % 32) * 8>>
<1> DEFINE lo == mem[at]
           hi == mem[at + 1]
<1>1. GetPixel(2, mem, at) = <<(lo % 32) * 8, (hi % 4) * 64 + (lo \div 32) * 8, ((hi \div 4) % 32) * 8>>
  BY DEF GetPixel
<1>2. lo \in 0 .. 255 /\ hi \in 0 .. 255 /\ word = lo + 256 * hi
  BY DEF Byte
<1> HIDE DEF lo, hi
<1>3. word % 32 = lo % 32
  BY <1>2
<1>4. (word \div 32) % 32 = (hi % 4) * 8 + lo \div 32
  BY <1>2
<1>5. (word \div 1024) % 32 = (hi \div 4) % 32
  BY <1>2
<1>6. ((hi % 4) * 8 + lo \div 32) * 8 = (hi % 4) * 64 + (lo \div 32) * 8
  BY <1>2
<1> QED BY <1>1, <1>3, <1>4, <1>5, <1>6

\* A byte of the screen is a byte of the pixmap or 0.
LEMMA RenderedByte ==
  ASSUME NEW pm, NEW ps \in {1, 2}, NEW xres, NEW yres, NEW x, NEW y, NEW o \in 0 .. ps - 1,
         pm.w \in Nat, pm.h \in Nat, IsBytes(pm, ps), xres \in Nat, yres \in Nat,
         x \in 0 .. xres - 1, y \in 0 .. yres - 1
  PROVE  Shown(pm, xres, yres, ps)[(x + y * xres) * ps + o] \in Byte
<1> DEFINE mem == Shown(pm, xres, yres, ps)
<1>1. RenderedAt(mem, pm, xres, ps, x, y, o)
  BY RenderAt
<1> HIDE DEF mem
<1> DEFINE at == x + y * xres
           k == x + y * pm.w
           n == pm.w * pm.h
<1>2. mem[at * ps + o] = IF x < pm.w /\ y < pm.h THEN pm.mem[k * ps + o] ELSE 0
  BY <1>1 DEF RenderedAt
<1>3. x < pm.w /\ y < pm.h => pm.mem[k * ps + o] \in Byte
  <2> SUFFICES ASSUME x < pm.w, y < pm.h PROVE pm.mem[k * ps + o] \in Byte
    OBVIOUS
  <2>1. k \in 0 .. n - 1 /\ n \in Nat
    <3>1. x \in 0 .. pm.w - 1 /\ y \in 0 .. pm.h - 1
      OBVIOUS
    <3> QED BY <3>1, PixelIndex
  <2>2. pm.mem \in [0 .. n * ps - 1 -> Byte]
    BY DEF IsBytes
  <2> HIDE DEF k, n
  <2>3. k * ps + o \in 0 .. n * ps - 1
    BY <2>1
  <2> QED BY <2>2, <2>3
<1>4. 0 \in Byte
  BY DEF Byte
<1> HIDE DEF at, k
<1>5. mem[at * ps + o] \in Byte
  BY <1>2, <1>3, <1>4
<1> QED BY <1>5 DEF mem, at
----------------------------------------------------------------------------
(* What is on the screen is the picture in the file *)

\* From the codec to the scaling the pixmap is the picture of the file, then
\* the scaled one.
FaithInv ==
  /\ pc \in {"autoscale", "scale"} /\ fb.pixelsize \in {1, 2} /\ Stores(opts.file) /\ InStep(opts.file) =>
       LoadedOf(opts.file, pixmap, fb.pixelsize)
  /\ pc \in {"rotate", "dump", "show", "exit0"} /\ fb.pixelsize \in {1, 2} /\ opts.rotate = 0 /\ ~heap.short
     /\ Showable(opts.file, opts.scale) =>
       ScaledOf(opts.file, pixmap, fb.pixelsize, opts.scale)

LEMMA FaithInit == Init => FaithInv
BY DEF Init, FaithInv

\* The codecs
LEMMA FaithLoad ==
  ASSUME TypeOK, Sized, FaithInv, BmpLoad \/ JpegLoad
  PROVE  FaithInv'
<1>1. pc = "load" /\ opts.file \in Files
  BY DEF BmpLoad, JpegLoad, Sized
<1>2. ASSUME NEW pm, Loaded(pm),
             fb.pixelsize \in {1, 2} /\ Stores(opts.file) /\ InStep(opts.file) => LoadedOf(opts.file, pm, fb.pixelsize)
      PROVE  FaithInv'
  BY <1>2 DEF Loaded, FaithInv
<1>3. CASE pc' \in {"exit1", "crash"}
  BY <1>3 DEF FaithInv
<1>4. CASE BmpLoad
  <2>1. CASE BmpAccepted(opts.file) /\ Loaded(LoadPixels(opts.file, fb.pixelsize, heap.fill))
    <3>1. opts.file.bpp \in {24, 32} /\ opts.file.ext = "BMP"
      BY <1>4, <2>1 DEF BmpAccepted, BmpLoad
    <3>2. fb.pixelsize \in {1, 2} /\ Stores(opts.file) /\ InStep(opts.file) =>
            LoadedOf(opts.file, LoadPixels(opts.file, fb.pixelsize, heap.fill), fb.pixelsize)
      BY <1>1, <3>1, BmpLoaded
    <3> QED BY <1>2, <2>1, <3>2
  <2>2. CASE LoadFails
    BY <1>3, <2>2 DEF LoadFails
  <2> QED BY <1>4, <2>1, <2>2 DEF BmpLoad
<1>5. CASE JpegLoad
  <2>1. CASE opts.file.state = "good" /\ Loaded(JpegPixels(opts.file, fb.pixelsize, heap.fill))
    <3>1. opts.file.ext \in {"JPG", "JPEG"}
      BY <1>5 DEF JpegLoad
    <3>2. fb.pixelsize \in {1, 2} /\ Stores(opts.file) /\ InStep(opts.file) =>
            LoadedOf(opts.file, JpegPixels(opts.file, fb.pixelsize, heap.fill), fb.pixelsize)
      BY <1>1, <3>1, JpegLoaded
    <3> QED BY <1>2, <2>1, <3>2
  <2>2. CASE LoadFails
    BY <1>3, <2>2 DEF LoadFails
  <2>3. CASE pc' = "crash"
    BY <1>3, <2>3
  <2> QED BY <1>5, <2>1, <2>2, <2>3 DEF JpegLoad
<1> QED BY <1>4, <1>5

\* fb_pixmap_scale
LEMMA FaithScale ==
  ASSUME TypeOK, PicInv, FaithInv, ScalePixmap
  PROVE  FaithInv'
<1>1. pc = "scale" /\ pc' = "rotate" /\ UNCHANGED <<opts, fb>>
  BY DEF ScalePixmap, Replace
<1> DEFINE f == opts.file
           s == opts.scale
           ps == fb.pixelsize
<1> SUFFICES ASSUME ps \in {1, 2}, opts.rotate = 0, ~heap'.short, Showable(f, s)
             PROVE  ScaledOf(f, pixmap', ps, s)
  BY <1>1 DEF FaithInv
<1>2. IsBytes(pixmap, ps) /\ LoadedOf(f, pixmap, ps)
  BY <1>1 DEF PicInv, PictureHere, FaithInv, Showable
<1>3. s \in Nat \X (Nat \ {0}) /\ pixmap.w \in Nat /\ pixmap.h \in Nat
  BY DEF TypeOK, Uint16
<1>4. CASE s[1] = s[2]
  <2>1. pixmap' = pixmap
    BY <1>4 DEF ScalePixmap
  <2> HIDE DEF f, s, ps
  <2>2. ScaledOf(f, pixmap, ps, s)
    BY <1>2, <1>3, <1>4, UnscaledScaled
  <2> QED BY <2>1, <2>2
<1>5. CASE s[1] # s[2]
  <2>1. PICK nw \in ScaledSizes(pixmap.w, s), nh \in ScaledSizes(pixmap.h, s) :
          Replace("rotate", Scale(pixmap, nw, nh, s, ps, heap.fill))
    BY <1>5 DEF ScalePixmap
  <2>2. pixmap' = Scale(pixmap, nw, nh, s, ps, heap.fill)
    <3>1. heap' = [heap EXCEPT !.short = TRUE] => heap'.short
      BY DEF TypeOK
    <3> QED BY <2>1, <3>1 DEF Replace
  <2>3. nw \in Nat /\ nh \in Nat
    BY <1>3, ScaledRange DEF Uint16
  <2>4. Exact(s) /\ ScaledIn16(f, s)
    BY DEF Showable
  <2> HIDE DEF f, s, ps
  <2>5. ScaledOf(f, Scale(pixmap, nw, nh, s, ps, heap.fill), ps, s)
    BY <1>2, <1>3, <2>3, <2>4, ScaleScaled
  <2> QED BY <2>2, <2>5
<1> QED BY <1>4, <1>5

LEMMA FaithStep == TypeOK /\ Sized /\ PicInv /\ FaithInv /\ [Next]_vars => FaithInv'
<1> SUFFICES ASSUME TypeOK, Sized, PicInv, FaithInv, [Next]_vars PROVE FaithInv'
  OBVIOUS
<1>1. CASE Ended \/ UNCHANGED vars
  BY <1>1 DEF Ended, vars, FaithInv
<1>2. CASE \/ HelpOrNoValue \/ OptScale \/ OptAutoscale \/ OptRotate
           \/ OptDump \/ OptQuiet \/ OptFile \/ EndOfParams
  <2>1. pc' \in {"params", "init", "load", "exit1"}
    BY <1>2 DEF HelpOrNoValue, OptScale, OptAutoscale, OptRotate, OptDump, OptQuiet, OptFile,
                EndOfParams, Argument, Refuse
  <2> QED BY <2>1 DEF FaithInv
<1>3. CASE FbInitFails \/ FbInit \/ FbInitNoMemory \/ HeapAbort
  <2>1. pc' \in {"load", "exit1", "crash"}
    BY <1>3 DEF FbInitFails, FbInit, FbInitNoMemory, HeapAbort
  <2> QED BY <2>1 DEF FaithInv
<1>4. CASE Autoscale
  <2>1. UNCHANGED <<fb, pixmap>> /\ pc = "autoscale" /\ pc' = "scale" /\ opts'.file = opts.file
    BY <1>4 DEF Autoscale, TypeOK
  <2> QED BY <2>1 DEF FaithInv
<1>5. CASE RotatePixmap
  <2>1. pc = "rotate" /\ pc' = "dump" /\ UNCHANGED <<opts, fb>>
        /\ (opts.rotate = 0 => UNCHANGED <<pixmap, heap>>)
    BY <1>5 DEF RotatePixmap, Replace
  <2> QED BY <2>1 DEF FaithInv
<1>6. CASE Dump
  <2>1. pc = "dump" /\ pc' = "show" /\ UNCHANGED <<opts, fb, pixmap, heap>>
    BY <1>6 DEF Dump
  <2> QED BY <2>1 DEF FaithInv
<1>7. CASE Show
  <2>1. pc = "show" /\ pc' \in {"crash", "exit0"} /\ UNCHANGED <<opts, fb, pixmap, heap>>
    BY <1>7 DEF Show
  <2> QED BY <2>1 DEF FaithInv
<1> QED
  BY <1>1, <1>2, <1>3, <1>4, <1>5, <1>6, <1>7, FaithLoad, FaithScale DEF Next

\* What the screen holds in the end, and that fb_init has its mode
ScreenInv ==
  LET m == device.mode
      bytes == 0 .. (m.xres * m.yres * m.bpp) \div 8 - 1
  IN  /\ DOMAIN device.mem = bytes
      /\ pc \notin {"params", "init", "exit1", "crash"} /\ ~opts.quiet =>
           /\ fb.pixelsize = PixelSize(m.bpp) /\ fb.xres = m.xres /\ fb.yres = m.yres
           /\ device.offset = 0 /\ (m.cmap => palette = "fbview")
      /\ pc = "exit0" /\ ~opts.quiet =>
           device.mem = Render([b \in bytes |-> 0], pixmap, fb.xres, fb.yres, fb.pixelsize)

LEMMA ScreenInit == Init => ScreenInv
BY DEF Init, ScreenInv

LEMMA ScreenStep == TypeOK /\ ScreenInv /\ ConsoleInv /\ [Next]_vars => ScreenInv'
<1> SUFFICES ASSUME TypeOK, ScreenInv, ConsoleInv, [Next]_vars PROVE ScreenInv'
  OBVIOUS
<1>1. CASE Ended \/ UNCHANGED vars
  BY <1>1 DEF Ended, vars, ScreenInv
<1>0. ASSUME UNCHANGED device \/ ScreenAtStart
      PROVE  device'.mode = device.mode /\ device'.mem = device.mem /\ (ScreenAtStart => device'.offset = 0)
  BY <1>0 DEF ScreenAtStart, TypeOK
<1>2. ASSUME UNCHANGED device \/ ScreenAtStart,
             pc' \in {"params", "init", "exit1", "crash"} \/ (pc' = "load" /\ opts'.quiet)
      PROVE  ScreenInv'
  BY <1>0, <1>2 DEF ScreenInv
<1>3. CASE \/ HelpOrNoValue \/ OptScale \/ OptAutoscale \/ OptRotate
           \/ OptDump \/ OptQuiet \/ OptFile \/ EndOfParams
  <2>1. UNCHANGED device /\ (pc' \in {"params", "init", "exit1"} \/ (pc' = "load" /\ opts'.quiet))
    BY <1>3 DEF HelpOrNoValue, OptScale, OptAutoscale, OptRotate, OptDump, OptQuiet, OptFile,
                EndOfParams, Argument, Refuse
  <2> QED BY <1>2, <2>1
<1>4. CASE FbInitFails \/ FbInitNoMemory \/ HeapAbort
  <2>1. (UNCHANGED device \/ ScreenAtStart) /\ pc' \in {"exit1", "crash"}
    BY <1>4 DEF FbInitFails, FbInitNoMemory, HeapAbort
  <2> QED BY <1>2, <2>1
<1>5. CASE FbInit
  <2>1. ScreenAtStart /\ pc' = "load" /\ (device.mode.cmap => palette' = "fbview")
        /\ fb'.pixelsize = PixelSize(device.mode.bpp) /\ fb'.xres = device.mode.xres /\ fb'.yres = device.mode.yres
    BY <1>5 DEF FbInit
  <2> QED BY <1>0, <2>1 DEF ScreenInv
<1>6. ASSUME UNCHANGED <<device, fb, palette>>, opts'.quiet = opts.quiet, pc \notin {"params", "init", "exit1", "crash"},
             pc' # "exit0"
      PROVE  ScreenInv'
  BY <1>6 DEF ScreenInv
<1>7. CASE BmpLoad \/ JpegLoad
  <2>1. UNCHANGED <<device, opts>> /\ pc = "load"
        /\ (pc' \in {"exit1", "crash"} \/ (pc' = "autoscale" /\ UNCHANGED <<fb, palette>>))
    BY <1>7 DEF BmpLoad, JpegLoad, Loaded, LoadFails
  <2> QED BY <1>2, <1>6, <2>1
<1>8. CASE Autoscale \/ ScalePixmap \/ RotatePixmap \/ Dump
  <2>1. UNCHANGED <<device, fb, palette>> /\ opts'.quiet = opts.quiet /\ pc \in {"autoscale", "scale", "rotate", "dump"}
        /\ pc' \in {"scale", "rotate", "dump", "show"}
    BY <1>8 DEF Autoscale, ScalePixmap, RotatePixmap, Dump, Replace, TypeOK
  <2> QED BY <1>6, <2>1
<1>9. CASE Show
  <2> DEFINE m == device.mode
             bytes == 0 .. (m.xres * m.yres * m.bpp) \div 8 - 1
             new == Render([b \in bytes |-> 0], pixmap, fb.xres, fb.yres, fb.pixelsize)
  <2>1. pc = "show" /\ UNCHANGED <<opts, fb, pixmap, palette>> /\ DOMAIN device.mem = bytes
    BY <1>9 DEF Show, ScreenInv
  <2>2. CASE UNCHANGED device /\ (opts.quiet \/ pc' = "crash")
    BY <2>1, <2>2 DEF ScreenInv
  <2>3. CASE device' = [device EXCEPT !.mem = new]
    <3>1. DOMAIN new = bytes
      BY DEF Render
    <3> HIDE DEF new
    <3>2. device'.mode = device.mode /\ device'.mem = new /\ device'.offset = device.offset
      BY <2>3 DEF TypeOK
    <3> QED BY <2>1, <3>1, <3>2 DEF ScreenInv, new
  <2>4. \/ UNCHANGED device /\ (opts.quiet \/ pc' = "crash")
        \/ device' = [device EXCEPT !.mem = new]
    BY <1>9, <2>1 DEF Show
  <2> QED BY <2>2, <2>3, <2>4
<1> QED
  BY <1>1, <1>3, <1>4, <1>5, <1>7, <1>8, <1>9 DEF Next

\* What the eye sees is the pixmap.
LEMMA SeenIs ==
  ASSUME TypeOK, PicInv, ScreenInv, Clean, ~opts.quiet, opts.rotate = 0, Formatted(device.mode),
         NEW x \in 0 .. fb.xres - 1, NEW y \in 0 .. fb.yres - 1
  PROVE  SeenAt(x, y) =
           IF x < pixmap.w /\ y < pixmap.h THEN PixelOf(pixmap, fb.pixelsize, x, y) ELSE <<0, 0, 0>>
<1> DEFINE bpp == device.mode.bpp
           xres == fb.xres
           yres == fb.yres
           ps == fb.pixelsize
           mem == device.mem
           at == (x + y * xres) * ps
<1>1. xres \in Nat /\ yres \in Nat /\ pixmap.w \in Nat /\ pixmap.h \in Nat
  BY DEF TypeOK, Uint16
<1>2. /\ pc = "exit0" /\ ps = PixelSize(bpp) /\ xres = device.mode.xres /\ yres = device.mode.yres
      /\ mem = Render([b \in 0 .. (xres * yres * bpp) \div 8 - 1 |-> 0], pixmap, xres, yres, ps)
  BY DEF Clean, ScreenInv
<1>3. bpp \in {8, 16} /\ ps \in {1, 2} /\ (bpp = 8 => ps = 1) /\ (bpp = 16 => ps = 2)
  BY <1>2 DEF PixelSize, Formatted
<1>4. IsBytes(pixmap, ps)
  BY <1>2, <1>3 DEF PicInv, PictureHere
<1>5. (xres * yres * bpp) \div 8 = (xres * yres) * ps
  <2> DEFINE n == xres * yres
  <2>1. n \in Nat
    BY <1>1
  <2> HIDE DEF n, bpp, ps
  <2>2. (n * bpp) \div 8 = n * ps
    <3>1. CASE bpp = 8
      BY <1>3, <2>1, <3>1
    <3>2. CASE bpp = 16
      BY <1>3, <2>1, <3>2
    <3> QED BY <1>3, <3>1, <3>2
  <2> QED BY <2>2 DEF n
<1>6. mem = Shown(pixmap, xres, yres, ps)
  <2> HIDE DEF mem, xres, yres, bpp, ps
  <2> QED BY <1>2, <1>5 DEF Shown
<1>7. /\ bpp = 8 => Seen(at) = LET p == PaletteEntry(8, mem[at])
                               IN  <<(p[1] \div 9362) * 32, (p[2] \div 9362) * 32, (p[3] \div 21845) * 64>>
      /\ bpp # 8 => /\ Word(at) = mem[at] + 256 * mem[at + 1]
                    /\ Seen(at) = <<(Word(at) % 32) * 8, ((Word(at) \div 32) % 32) * 8,
                                    ((Word(at) \div 1024) % 32) * 8>>
  <2> HIDE DEF at
  <2>1. bpp = 8 => Seen(at) = LET p == PaletteEntry(8, mem[at])
                              IN  <<(p[1] \div 9362) * 32, (p[2] \div 9362) * 32, (p[3] \div 21845) * 64>>
    BY DEF Seen
  <2>2. ASSUME bpp # 8
        PROVE  device.mode.bpp # 8 /\ device.mode.format = "555" /\ ~device.mode.big
    BY <2>2 DEF Formatted
  <2>3. bpp # 8 => Word(at) = mem[at] + 256 * mem[at + 1]
    BY <2>2 DEF Word
  <2>4. bpp # 8 => Seen(at) = <<(Word(at) % 32) * 8, ((Word(at) \div 32) % 32) * 8,
                                ((Word(at) \div 1024) % 32) * 8>>
    <3> HIDE DEF Word
    <3>1. "555" # "565"
      OBVIOUS
    <3> QED BY <2>2, <3>1 DEF Seen
  <2> QED BY <2>1, <2>3, <2>4
<1>8. x \in 0 .. xres - 1 /\ y \in 0 .. yres - 1
  OBVIOUS
<1>9. Seen(at) = GetPixel(ps, mem, at)
  <2>1. CASE bpp = 8
    <3>1. ps = 1
      BY <1>3, <2>1
    <3> HIDE DEF mem, xres, yres, bpp
    <3>2. Shown(pixmap, xres, yres, 1)[(x + y * xres) * 1 + 0] \in Byte
      <4>1. IsBytes(pixmap, 1) /\ 0 \in 0 .. 1 - 1 /\ 1 \in {1, 2}
        BY <1>4, <3>1
      <4> QED BY <1>1, <1>8, <4>1, RenderedByte
    <3>3. mem[at] \in Byte
      <4>1. at + 0 = at
        BY <1>1, <1>8, <3>1
      <4> QED BY <1>6, <3>1, <3>2, <4>1
    <3> HIDE DEF at, ps
    <3> DEFINE b == mem[at]
    <3>4. GetPixel(ps, mem, at) = <<(b \div 32) * 32, ((b \div 4) % 8) * 32, (b % 4) * 64>>
      BY <3>1 DEF GetPixel
    <3>5. b \in Byte
      BY <3>3
    <3>6. Seen(at) = LET p == PaletteEntry(8, b)
                     IN  <<(p[1] \div 9362) * 32, (p[2] \div 9362) * 32, (p[3] \div 21845) * 64>>
      BY <1>7, <2>1
    <3> HIDE DEF b
    <3> QED BY <3>4, <3>5, <3>6, PaletteShows
  <2>2. CASE bpp = 16
    <3>1. ps = 2
      BY <1>3, <2>2
    <3> HIDE DEF mem, xres, yres, bpp
    <3>a. IsBytes(pixmap, 2) /\ 0 \in 0 .. 2 - 1 /\ 1 \in 0 .. 2 - 1 /\ 2 \in {1, 2}
      BY <1>4, <3>1
    <3>2. Shown(pixmap, xres, yres, 2)[(x + y * xres) * 2 + 0] \in Byte
      BY <1>1, <1>8, <3>a, RenderedByte
    <3>3. Shown(pixmap, xres, yres, 2)[(x + y * xres) * 2 + 1] \in Byte
      BY <1>1, <1>8, <3>a, RenderedByte
    <3>4. at + 0 = at
      BY <1>1, <1>8, <3>1
    <3>5. mem[at] \in Byte /\ mem[at + 1] \in Byte
      BY <1>6, <3>1, <3>2, <3>3, <3>4
    <3> HIDE DEF at, ps
    <3>6. GetPixel(ps, mem, at) = <<(Word(at) % 32) * 8, ((Word(at) \div 32) % 32) * 8,
                                    ((Word(at) \div 1024) % 32) * 8>>
      BY <1>7, <2>2, <3>1, <3>5, FormatShows
    <3> QED BY <1>7, <2>2, <3>6
  <2> QED BY <1>3, <2>1, <2>2
<1> HIDE DEF mem, xres, yres, bpp, ps
<1>10. PixelShown(pixmap, ps, xres, yres, x, y)
  BY <1>1, <1>3, <1>8, RenderedPixel
<1>11. SeenAt(x, y) = Seen(at)
  <2>1. device.offset = 0
    BY <1>2 DEF ScreenInv
  <2>2. device.offset + x + y * fb.xres = x + y * fb.xres
    BY <1>1, <2>1 DEF xres
  <2> QED BY <2>2 DEF SeenAt, xres, ps
<1> QED BY <1>6, <1>9, <1>10, <1>11 DEF PixelShown, xres, ps
----------------------------------------------------------------------------
(* Theorems *)

Inv == TypeOK /\ Sized /\ ConsoleInv /\ FitInv /\ PicInv /\ FaithInv /\ ScreenInv

LEMMA Invariance == Spec => []Inv
<1>1. Init => Inv
  BY TypeInit, ConsoleInit, FitInit, PicInit, FaithInit, ScreenInit DEF Inv
<1>2. Inv /\ [Next]_vars => Inv'
  BY TypeStep, ConsoleStep, FitStep, PicStep, FaithStep, ScreenStep DEF Inv
<1> QED
  BY <1>1, <1>2, PTL DEF Spec

\* The variables of fbview keep their types, whatever files, screens and
\* options there are; no size leaves Uint16.
THEOREM TypeCorrect == Spec => []TypeOK
BY Invariance, PTL DEF Inv

\* A run that ends with status 1 has given the palette back and has written
\* neither to the screen nor to a file (main's error paths, fbview.c:256-291); all
\* it may have changed is the panning of the screen (framebuffer.c:303-306).
THEOREM FailureKeepsPictureHolds == Spec => []FailureKeepsPicture
<1>1. Inv => FailureKeepsPicture
  BY DEF Inv, ConsoleInv, FailureKeepsPicture
<1> QED
  BY <1>1, Invariance, PTL

\* For every picture and every screen the scale of fbview.c:294 gives a picture
\* that lies on the screen and reaches one of its sides, rounding included.
THEOREM AutoscaleFitsHolds == Spec => []AutoscaleFits
<1>1. Inv => AutoscaleFits
  BY DEF Inv, FitInv, Fits, AutoscaleFits
<1> QED
  BY <1>1, Invariance, PTL

\* At 8 and 16 bits bmp2fb_pixmap reads what fb_pixmap2bmp has dumped back to the
\* same bytes, for every dump that is complete, that the size test of ds_bmp.c:139
\* lets pass and whose sides the Sint16 counters reach: the offsets, the padding
\* (the width modulo 4 on both sides), the order of the lines and the pixel
\* format agree.
THEOREM DumpReloadsHolds == Spec => []DumpReloads
<1>1. Inv => DumpReloads
  <2> SUFFICES ASSUME Inv, Clean, opts.rotate = 0, NEW d \in dumped, Counted(d.file.w, d.file.h)
               PROVE  LoadPixels(d.file, fb.pixelsize, heap.fill) = pixmap
    BY DEF DumpReloads
  <2>1. pc = "exit0" /\ fb.pixelsize \in {1, 2} /\ pixmap.w \in Nat /\ pixmap.h \in Nat
    BY DEF Clean, Inv, TypeOK, Uint16
  <2>2. d.file = DumpPixels(pixmap, fb.pixelsize)
    BY <2>1 DEF Inv, PicInv
  <2>3. d.file.w = pixmap.w /\ d.file.h = pixmap.h
    BY <2>2 DEF DumpPixels, DumpRows
  <2>4. IsPicture(pixmap, fb.pixelsize)
    BY <2>1, <2>3 DEF Inv, PicInv, PictureHere
  <2> QED BY <2>1, <2>2, <2>3, <2>4, Reload
<1> QED
  BY <1>1, Invariance, PTL

\* On screens of 8 bits with a palette and of 16 bits in the format fb_set_pixel
\* writes, for every screen size, every binary scale and files of every size that
\* the counters of the BMP codec reach, each pixel the eye sees lies between the
\* pixels of the file next to the place it comes from, and the rest of the screen
\* is black: the offsets of the codec, the words of the screen, bilinear scaling
\* with its border (pixmap.c:54-91), the palette, the panning (framebuffer.c:303)
\* and the lines of fb_pixmap_render (framebuffer.c:406-429) agree.
THEOREM ShownFaithfulHolds == Spec => []ShownFaithful
<1>1. Inv => ShownFaithful
  <2> DEFINE f == opts.file
             s == opts.scale
             ps == fb.pixelsize
  <2> SUFFICES ASSUME Inv, Clean, ~opts.quiet, opts.rotate = 0, Formatted(device.mode), Showable(f, s),
                      NEW x \in 0 .. fb.xres - 1, NEW y \in 0 .. fb.yres - 1
               PROVE  IF Covered(x, y)
                      THEN \A c \in 1 .. 3 : \E p, q \in Source(x, y) :
                             p[c] <= SeenAt(x, y)[c] /\ SeenAt(x, y)[c] <= q[c]
                      ELSE SeenAt(x, y) = <<0, 0, 0>>
    <3>1. ASSUME Inv, Clean, ~opts.quiet, Formatted(device.mode)
          PROVE  device.mode.bpp = 8 => palette = "fbview"
      BY <3>1 DEF Inv, ScreenInv, Clean, Formatted
    <3> QED BY <3>1 DEF ShownFaithful
  <2>1. SeenAt(x, y) = IF x < pixmap.w /\ y < pixmap.h THEN PixelOf(pixmap, ps, x, y) ELSE <<0, 0, 0>>
    BY SeenIs DEF Inv
  <2>2. ScaledOf(f, pixmap, ps, s)
    BY DEF Inv, FaithInv, Clean
  <2>3. Covered(x, y) <=> x < pixmap.w /\ y < pixmap.h
    BY <2>2 DEF ScaledOf, Covered
  <2>4. CASE Covered(x, y)
    <3>1. x \in 0 .. pixmap.w - 1 /\ y \in 0 .. pixmap.h - 1
      <4>1. pixmap.w \in Nat /\ pixmap.h \in Nat /\ fb.xres \in Nat /\ fb.yres \in Nat
        BY DEF Inv, TypeOK, Uint16
      <4> QED BY <2>3, <2>4, <4>1
    <3>2. SeenAt(x, y) = PixelOf(pixmap, ps, x, y)
      BY <2>1, <2>3, <2>4
    <3>3. ASSUME NEW c \in 1 .. 3
          PROVE  \E p, q \in Source(x, y) : p[c] <= SeenAt(x, y)[c] /\ SeenAt(x, y)[c] <= q[c]
      <4>1. Among(f, ps, s, x, y, c, PixelOf(pixmap, ps, x, y)[c])
        BY <2>2, <3>1 DEF ScaledOf
      <4>2. Source(x, y) = {Quant(ps, f.picture[<<i, j>>]) : i \in Near(x, f.w, s), j \in Near(y, f.h, s)}
        BY DEF Source, Quantised, Quant
      <4>3. \E p, q \in Source(x, y) : p[c] <= PixelOf(pixmap, ps, x, y)[c] /\ PixelOf(pixmap, ps, x, y)[c] <= q[c]
        BY <4>1, <4>2 DEF Among, NearColours
      <4> QED BY <3>2, <4>3
    <3> QED BY <2>4, <3>3
  <2>5. CASE ~Covered(x, y)
    BY <2>1, <2>3, <2>5
  <2> QED BY <2>4, <2>5
<1> QED
  BY <1>1, Invariance, PTL
=============================================================================
