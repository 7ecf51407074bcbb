------------------------------- MODULE Fbview -------------------------------
(***************************************************************************)
(* fbview (patches/code/fbview/fbview.c): the options, the frame buffer,   *)
(* one of the two codecs that are compiled in (BMP, JPEG), scaling and     *)
(* rotation, the dump to a file and the copy to the screen.  GPM and PNG   *)
(* are not compiled in.                                                    *)
(*                                                                         *)
(* A file is a record: ext is its extension ("" for none), opens says      *)
(* whether fopen succeeds, state is "good" or how it is damaged, w, h, bpp *)
(* and data are what the codec reads, and picture[<<x, y>>] is the image    *)
(* that was stored in it (only the properties use it).  Allocations       *)
(* whose result the code tests may fail.                                   *)
(*                                                                         *)
(* A screen of 16 bits has a pixel format of its own: format "555" has red *)
(* in the five low bits of a word, then green and blue; "565" has six bits *)
(* of green, as the words of patches/code/fbdemo.c.  big tells that the    *)
(* high byte of a word comes first.  A line of the screen is xres pixels   *)
(* long, and offset is the pixel the screen starts with (panning).         *)
(***************************************************************************)
EXTENDS Pixmap, FiniteSets

CONSTANTS
  Files,      \* what may be named on the command line
  Screens,    \* modes of /dev/fb0: [xres, yres, bpp, cmap, format, big, offset]
  Scales,     \* values after -s, as fractions
  Rotations,  \* values after -r
  HeapBytes,  \* what fresh memory may hold
  MEMSIZE     \* the largest picture the BMP codec takes, in pixels

VARIABLES
  pc,         \* where main is
  opts,       \* filename, scale, autoscale, rotate, dump_filename, quiet
  device,     \* the mode of the screen, its memory and where in it the screen starts
  palette,    \* whose colours the device uses: "console" or "fbview"
  fb,         \* screen, pixelsize, fb_xres, fb_yres
  pixmap,     \* fb_pixmap, width, height
  dumped,     \* the files written, and whether to the end
  heap        \* fill: fresh bytes; short: an allocation failed; overrun: written behind a buffer

vars == <<pc, opts, device, palette, fb, pixmap, dumped, heap>>

\* What the memory of the screen holds before
ConsoleByte == 90
NoFile == [ext |-> "none"]
NoPixmap == [w |-> 0, h |-> 0, mem |-> <<>>]

Sint16(n) == ((n + 32768) % 65536) - 32768
\* The remainder of C: it has the sign of n.
CRem(n, d) == IF n >= 0 THEN n % d ELSE -((-n) % d)

\* rotate = atoi(...), made positive and cut to a circle.
NormRotate(r) ==
  LET s == Sint16(r)
  IN  CRem(IF s < 0 THEN Sint16(-s + 180) ELSE s, 360)

\* The loops never meet a rotation for which fb_pixmap_rotate has no case.
ASSUME RotationsAssumption == \A r \in Rotations : r \in Int /\ NormRotate(r) >= 0
ASSUME ScalesAssumption == \A s \in Scales : s \in Nat \X (Nat \ {0})
\* The sizes fit in the Uint16 variables of the code, and none is zero.
ASSUME SizesAssumption ==
  /\ \A m \in Screens : {m.xres, m.yres} \subseteq Uint16 \ {0}
  /\ \A f \in Files : {f.w, f.h} \subseteq Uint16 \ {0}
ASSUME MemoryAssumption == HeapBytes \subseteq Byte /\ MEMSIZE \in Nat
\* A file is bytes, and libjpeg makes three of them for each pixel.
ASSUME DataAssumption ==
  \A f \in Files : /\ f.data \in Seq(Byte)
                   /\ f.ext \in {"JPG", "JPEG"} /\ f.state = "good" => Len(f.data) = 3 * (f.w * f.h)

Init ==
  /\ pc = "params"
  /\ opts = [file |-> NoFile, scale |-> <<1, 1>>, autoscale |-> FALSE, rotate |-> 0,
             dump |-> FALSE, quiet |-> FALSE]
  /\ \E m \in Screens :
       device = [mode |-> m, offset |-> m.offset,
                 mem |-> [b \in 0 .. (m.xres * m.yres * m.bpp) \div 8 - 1 |-> ConsoleByte]]
  /\ palette = "console"
  /\ fb = [screen |-> "none", pixelsize |-> 2, xres |-> 0, yres |-> 0]
  /\ pixmap = NoPixmap
  /\ dumped = {}
  /\ \E f \in HeapBytes : heap = [fill |-> f, short |-> FALSE, overrun |-> FALSE]
----------------------------------------------------------------------------
(* decode_params: one action for each option *)

Argument(new) ==
  /\ pc = "params"
  /\ opts' = new
  /\ UNCHANGED <<pc, device, palette, fb, pixmap, dumped, heap>>

Refuse ==
  /\ pc = "params"
  /\ pc' = "exit1"
  /\ UNCHANGED <<opts, device, palette, fb, pixmap, dumped, heap>>

\* --help, or an option that needs a value is the last argument
HelpOrNoValue == Refuse

\* 0.01 as a float is less than the double it is compared with.
InRange(s) == s[1] * 100 > s[2] /\ s[1] <= 10 * s[2]
OptScale == \E s \in Scales :
  IF InRange(s) THEN Argument([opts EXCEPT !.scale = s]) ELSE Refuse

OptAutoscale == Argument([opts EXCEPT !.autoscale = TRUE])

OptRotate == \E r \in Rotations :
  IF NormRotate(r) % 90 = 0 THEN Argument([opts EXCEPT !.rotate = NormRotate(r)]) ELSE Refuse

OptDump == Argument([opts EXCEPT !.dump = TRUE])
OptQuiet == Argument([opts EXCEPT !.quiet = TRUE])
\* any other parameter is source file
OptFile == \E f \in Files : Argument([opts EXCEPT !.file = f])

\* After the loop: there must be a file name, with an extension a codec is for.
EndOfParams ==
  IF opts.file.ext \in {"BMP", "JPG", "JPEG"}
  THEN /\ pc = "params"
       /\ pc' = IF opts.quiet THEN "load" ELSE "init"
       /\ UNCHANGED <<opts, device, palette, fb, pixmap, dumped, heap>>
  ELSE Refuse
----------------------------------------------------------------------------
(* fb_init *)

PixelSize(bpp) ==
  CASE bpp \in {4, 8}       -> 1
    [] bpp \in {5, 15, 16}  -> 2
    [] bpp = 24             -> 3
    [] bpp = 32             -> 4
    [] OTHER                -> 0

\* FBIOPUT_VSCREENINFO with both offsets 0; nothing puts them back.
ScreenAtStart == device' = [device EXCEPT !.offset = 0]

\* open and both ioctls; the depth is looked at when the offsets are set
FbInitFails ==
  /\ pc = "init"
  /\ pc' = "exit1"
  /\ \/ UNCHANGED device
     \/ PixelSize(device.mode.bpp) = 0 /\ ScreenAtStart
  /\ UNCHANGED <<opts, palette, fb, pixmap, dumped, heap>>

\* The result of mmap is compared with NULL: MAP_FAILED passes.  The palette is
\* saved and replaced whatever the depth; without a colour map both ioctls fail.
FbInit ==
  /\ pc = "init"
  /\ PixelSize(device.mode.bpp) # 0
  /\ ScreenAtStart
  /\ \E s \in {"mapped", "failed"} :
       fb' = [screen |-> s, pixelsize |-> PixelSize(device.mode.bpp),
              xres |-> device.mode.xres, yres |-> device.mode.yres]
  /\ palette' = IF device.mode.cmap THEN "fbview" ELSE palette
  /\ pc' = "load"
  /\ UNCHANGED <<opts, pixmap, dumped, heap>>

\* alloc_palette, get_palette and set_palette write through what malloc gave them.
FbInitNoMemory ==
  /\ pc = "init"
  /\ PixelSize(device.mode.bpp) # 0
  /\ ScreenAtStart
  /\ pc' = "crash"
  /\ heap' = [heap EXCEPT !.short = TRUE]
  /\ UNCHANGED <<opts, palette, fb, pixmap, dumped>>

\* Mutant: the old palette is freed, not restored.
FbUninitKeepsPalette ==
  IF opts.quiet THEN UNCHANGED <<fb, palette>>
  ELSE /\ fb' = [fb EXCEPT !.screen = "none"]
       /\ UNCHANGED palette
\* fb_uninit, which main calls when it is not quiet
FbUninit ==
  IF opts.quiet THEN UNCHANGED <<fb, palette>>
  ELSE /\ fb' = [fb EXCEPT !.screen = "none"]
       /\ palette' = "console"
----------------------------------------------------------------------------
(* The codecs *)

\* Headers that cannot be read, another signature, compression, size and depth.
BmpAccepted(f) == f.opens /\ f.state = "good" /\ f.w * f.h <= MEMSIZE /\ f.bpp \in {24, 32}

LoadFails ==
  /\ pc = "load"
  /\ pc' = "exit1"
  /\ FbUninit
  /\ UNCHANGED <<opts, device, pixmap, dumped>>

\* With three bytes a pixel fb_set_pixel writes one byte behind the last one.
Loaded(pm) ==
  /\ pc = "load"
  /\ pc' = "autoscale"
  /\ pixmap' = pm
  /\ heap' = [heap EXCEPT !.overrun = fb.pixelsize = 3]
  /\ UNCHANGED <<opts, device, palette, fb, dumped>>

BmpLoad ==
  /\ pc = "load"
  /\ opts.file.ext = "BMP"
  /\ \/ BmpAccepted(opts.file) /\ Loaded(LoadPixels(opts.file, fb.pixelsize, heap.fill))
     \/ ~BmpAccepted(opts.file) /\ LoadFails /\ UNCHANGED heap
     \/ BmpAccepted(opts.file) /\ LoadFails /\ heap' = [heap EXCEPT !.short = TRUE]

\* jpeg2fb_pixmap: rows from the top, bytes R, G, B.
JpegPixels(f, ps, fill) ==
  [w |-> f.w, h |-> f.h,
   mem |-> Filled(f.w * f.h, ps,
             [k \in 0 .. f.w * f.h - 1 |-> [c \in 1 .. 3 |-> f.data[3 * k + c]]], fill)]

\* error_exit is NULL: an error of the library is a call of address 0; so is
\* jpeg_finish_decompress before all lines are read, when malloc has failed.
JpegLoad ==
  /\ pc = "load"
  /\ opts.file.ext \in {"JPG", "JPEG"}
  /\ \/ ~opts.file.opens /\ LoadFails /\ UNCHANGED heap
     \/ /\ opts.file.opens /\ opts.file.state = "good"
        /\ Loaded(JpegPixels(opts.file, fb.pixelsize, heap.fill))
     \/ /\ opts.file.opens
        /\ pc' = "crash"
        /\ heap' = [heap EXCEPT !.short = opts.file.state = "good"]
        /\ UNCHANGED <<opts, device, palette, fb, pixmap, dumped>>
----------------------------------------------------------------------------
(* The picture *)

\* Mutant: the smaller ratio is taken for the larger one.
FitScaleOther(w, h) == IF fb.xres * h > w * fb.yres THEN <<fb.xres, w>> ELSE <<fb.yres, h>>
\* In quiet mode the screen has size 0 (0 / 0 is not greater than anything).
FitScale(w, h) == IF fb.xres * h > w * fb.yres THEN <<fb.yres, h>> ELSE <<fb.xres, w>>

Autoscale ==
  /\ pc = "autoscale"
  /\ opts' = IF opts.autoscale THEN [opts EXCEPT !.scale = FitScale(pixmap.w, pixmap.h)] ELSE opts
  /\ pc' = "scale"
  /\ UNCHANGED <<device, palette, fb, pixmap, dumped, heap>>

\* A step that replaces the pixmap, or finds no memory and leaves it as it is
Replace(to, new) ==
  /\ pc' = to
  /\ \/ pixmap' = new /\ heap' = [heap EXCEPT !.overrun = @ \/ fb.pixelsize = 3 \/ to = "dump"]
     \/ UNCHANGED pixmap /\ heap' = [heap EXCEPT !.short = TRUE]
  /\ UNCHANGED <<opts, device, palette, fb, dumped>>

ScalePixmap ==
  /\ pc = "scale"
  /\ IF opts.scale[1] = opts.scale[2]
     THEN pc' = "rotate" /\ UNCHANGED <<opts, device, palette, fb, pixmap, dumped, heap>>
     ELSE \E nw \in ScaledSizes(pixmap.w, opts.scale), nh \in ScaledSizes(pixmap.h, opts.scale) :
            Replace("rotate", Scale(pixmap, nw, nh, opts.scale, fb.pixelsize, heap.fill))

\* All three rotations write behind the new buffer.
RotatePixmap ==
  /\ pc = "rotate"
  /\ IF opts.rotate = 0
     THEN pc' = "dump" /\ UNCHANGED <<opts, device, palette, fb, pixmap, dumped, heap>>
     ELSE Replace("dump", Rotate(pixmap, opts.rotate, fb.pixelsize, heap.fill))

\* A damaged heap may stop the program when memory is next taken or given back.
HeapAbort ==
  /\ pc \in {"scale", "rotate", "dump"}
  /\ heap.overrun
  /\ pc' = "crash"
  /\ UNCHANGED <<opts, device, palette, fb, pixmap, dumped, heap>>

\* The result of fb_pixmap2bmp is not looked at: fopen, a header or any fputc
\* may fail, and bytes may be missing in the file.
Dump ==
  /\ pc = "dump"
  /\ \/ UNCHANGED dumped
     \/ /\ opts.dump
        /\ \E whole \in BOOLEAN :
             dumped' = {[file |-> DumpPixels(pixmap, fb.pixelsize), whole |-> whole]}
  /\ pc' = "show"
  /\ UNCHANGED <<opts, device, palette, fb, pixmap, heap>>

\* fb_clear_screen and fb_pixmap_render, in quiet mode too (of no bytes).  The
\* dumped file is not closed: what is still buffered is lost in a crash.
Show ==
  /\ pc = "show"
  /\ IF fb.screen = "failed"
     THEN /\ pc' = "crash"
          /\ dumped' = {[d EXCEPT !.whole = FALSE] : d \in dumped}
          /\ UNCHANGED device
     ELSE /\ pc' = "exit0"
          /\ device' = IF opts.quiet THEN device
                       ELSE [device EXCEPT !.mem = Render([b \in DOMAIN @ |-> 0], pixmap,
                                                          fb.xres, fb.yres, fb.pixelsize)]
          /\ UNCHANGED dumped
  /\ UNCHANGED <<opts, palette, fb, pixmap, heap>>

Ended ==
  /\ pc \in {"exit0", "exit1", "crash"}
  /\ UNCHANGED vars

Next ==
  \/ HelpOrNoValue \/ OptScale \/ OptAutoscale \/ OptRotate \/ OptDump \/ OptQuiet \/ OptFile
  \/ EndOfParams \/ FbInitFails \/ FbInit \/ FbInitNoMemory \/ BmpLoad \/ JpegLoad
  \/ Autoscale \/ ScalePixmap \/ RotatePixmap \/ HeapAbort \/ Dump \/ Show \/ Ended

Spec == Init /\ [][Next]_vars
----------------------------------------------------------------------------
(* Properties *)

TypeOK ==
  /\ pc \in {"params", "init", "load", "autoscale", "scale", "rotate", "dump", "show",
             "exit0", "exit1", "crash"}
  /\ opts \in [file : Files \cup {NoFile}, scale : Nat \X (Nat \ {0}), autoscale : BOOLEAN,
               rotate : Int, dump : BOOLEAN, quiet : BOOLEAN]
  /\ DOMAIN device = {"mode", "mem", "offset"} /\ device.mode \in Screens
  /\ palette \in {"console", "fbview"}
  /\ fb \in [screen : {"none", "mapped", "failed"}, pixelsize : 1 .. 4, xres : Uint16, yres : Uint16]
  /\ pixmap.w \in Uint16 /\ pixmap.h \in Uint16
  /\ heap \in [fill : Byte, short : BOOLEAN, overrun : BOOLEAN]

\* A run that ended well and had the memory it asked for, at a depth whose
\* pixels fb_get_pixel reads the way fb_set_pixel has written them
Clean == pc = "exit0" /\ ~heap.short /\ fb.pixelsize \in {1, 2}

Padded(n) == ((n + 3) \div 4) * 4

\* The picture is in the data as its format says: the lines of a BMP file come
\* from the bottom, are padded to four bytes and hold B, G, R; those of libjpeg
\* come from the top and hold R, G, B.
Stores(f) ==
  \A x \in 0 .. f.w - 1, y \in 0 .. f.h - 1, a \in 1 .. 3 :
    LET size == f.bpp \div 8
        at == (f.h - 1 - y) * Padded(f.w * size) + x * size
    IN  IF f.ext = "BMP"
        THEN at + 3 <= Len(f.data) /\ f.data[at + 4 - a] = f.picture[<<x, y>>][a]
        ELSE f.data[3 * (x + y * f.w) + a] = f.picture[<<x, y>>][a]

\* The files the BMP codec reads in step: its padding is right for 24 bits, and
\* its counters reach every pixel.
InStep(f) == f.ext # "BMP" \/ (Counted(f.w, f.h) /\ (f.bpp = 24 \/ f.w % 4 = 0))

\* The scales at which the float arithmetic is exact
Exact(s) == IsPowerOf2(s[1]) /\ IsPowerOf2(s[2])

\* Both sides of the scaled picture fit in Uint16.
ScaledIn16(f, s) == (f.w * s[1]) \div s[2] \in Uint16 /\ (f.h * s[1]) \div s[2] \in Uint16

\* The files and scales whose picture the screen should show
Showable(f, s) == InStep(f) /\ Stores(f) /\ Exact(s) /\ ScaledIn16(f, s)

Quantised(c) == GetPixel(fb.pixelsize, SetPixel(fb.pixelsize, c), 0)

\* The word the screen takes from two bytes
Word(b) == IF device.mode.big THEN 256 * device.mem[b] + device.mem[b + 1]
           ELSE device.mem[b] + 256 * device.mem[b + 1]

\* What the eye sees at a byte offset of the screen: through the palette if
\* there is one, else by the format of the screen
Seen(b) ==
  IF device.mode.bpp = 8
  THEN LET p == PaletteEntry(8, device.mem[b])
       IN  <<(p[1] \div 9362) * 32, (p[2] \div 9362) * 32, (p[3] \div 21845) * 64>>
  ELSE IF device.mode.format = "565"
  THEN <<(Word(b) % 32) * 8, ((Word(b) \div 32) % 64) * 4, (Word(b) \div 2048) * 8>>
  ELSE <<(Word(b) % 32) * 8, ((Word(b) \div 32) % 32) * 8, ((Word(b) \div 1024) % 32) * 8>>

\* The screens whose pixels are what fb_set_pixel takes them for
Formatted(m) == (m.bpp = 8 /\ m.cmap) \/ (m.bpp = 16 /\ m.format = "555" /\ ~m.big)

\* Columns (rows) of the file less than one pixel away from where i comes from
Near(i, size, s) == {x \in 0 .. size - 1 : x * s[1] - i * s[2] < s[1] /\ i * s[2] - x * s[1] < s[1]}

\* What the eye sees in column x of row y, whether the scaled picture reaches
\* that far, and the colours of the pixels of the file next to its place
SeenAt(x, y) == Seen((device.offset + x + y * fb.xres) * fb.pixelsize)
Covered(x, y) ==
  LET s == opts.scale IN x < (opts.file.w * s[1]) \div s[2] /\ y < (opts.file.h * s[1]) \div s[2]
Source(x, y) ==
  {Quantised(opts.file.picture[<<i, j>>]) : i \in Near(x, opts.file.w, opts.scale),
                                            j \in Near(y, opts.file.h, opts.scale)}

\* What is on the screen is the picture in the file: every pixel of the screen,
\* as the palette or the format of the screen shows it, lies between the colours
\* of the pixels of the file next to its place, and what the picture does not
\* cover is black.  It takes the codec, the pixel format, bilinear scaling, the
\* palette, the panning and the copy to the screen together (without rotation).
\* fbview never asks for the format of the screen: of the 16-bit ones it suits
\* only 5-5-5 words with red in the low bits and the low byte first.
ShownFaithful ==
  Clean /\ ~opts.quiet /\ opts.rotate = 0 /\ Formatted(device.mode) /\ Showable(opts.file, opts.scale) =>
    /\ device.mode.bpp = 8 => palette = "fbview"
    /\ \A x \in 0 .. fb.xres - 1, y \in 0 .. fb.yres - 1 :
         IF Covered(x, y)
         THEN \A c \in 1 .. 3 : \E p, q \in Source(x, y) : p[c] <= SeenAt(x, y)[c] /\ SeenAt(x, y)[c] <= q[c]
         ELSE SeenAt(x, y) = <<0, 0, 0>>

\* "fit size of bitmap to screen size" (fbview.c:108): without rotation an
\* autoscaled picture is inside the screen and reaches one of its sides.
AutoscaleFits ==
  pc = "exit0" /\ ~heap.short /\ opts.autoscale /\ ~opts.quiet /\ opts.rotate = 0 =>
    /\ pixmap.w <= fb.xres /\ pixmap.h <= fb.yres
    /\ pixmap.w >= fb.xres - 1 \/ pixmap.h >= fb.yres - 1

\* A dump that was written to the end and that fbview accepts is what was shown:
\* bmp2fb_pixmap reads it back to the same bytes, padding, order of the lines and
\* pixel format included.  fbview itself refuses a dump of more than MEMSIZE
\* pixels (ds_bmp.c:139), and one with more rows or columns than its counters
\* reach does not come back.
DumpReloads ==
  Clean /\ opts.rotate = 0 =>
    \A d \in dumped :
      d.whole /\ BmpAccepted(d.file) /\ Counted(d.file.w, d.file.h) =>
        LoadPixels(d.file, fb.pixelsize, heap.fill) = pixmap

\* A run that reports a failure leaves the picture of the console as it was: the
\* old palette is back on every error path, no pixel has been written and no file
\* dumped.  Its panning is not put back: the screen starts where it did, or at 0.
FailureKeepsPicture ==
  pc = "exit1" => /\ palette = "console"
                  /\ dumped = {}
                  /\ \A b \in DOMAIN device.mem : device.mem[b] = ConsoleByte
                  /\ device.offset \in {device.mode.offset, 0}

\* "Function is rotating an image" (pixmap.c:94): the pixmap is the picture
\* turned by the angle, to the right or to the left.
RotatedRight ==
  LET f == opts.file
      Pixel(x, y) == GetPixel(fb.pixelsize, pixmap.mem, (x + y * pixmap.w) * fb.pixelsize)
      Turned(At(_, _)) ==
        \A x \in 0 .. f.w - 1, y \in 0 .. f.h - 1 :
          Pixel(At(x, y)[1], At(x, y)[2]) = Quantised(f.picture[<<x, y>>])
      Right(x, y) == <<f.h - 1 - y, x>>
      Left(x, y) == <<y, f.w - 1 - x>>
      Over(x, y) == <<f.w - 1 - x, f.h - 1 - y>>
  IN  Clean /\ opts.rotate # 0 /\ InStep(f) /\ opts.scale = <<1, 1>> =>
        IF opts.rotate = 180 THEN Turned(Over) ELSE Turned(Right) \/ Turned(Left)
=============================================================================
