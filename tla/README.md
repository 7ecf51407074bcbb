# A TLA+ model of the or1k toolchain builder

The repository builds a Linux system for the or1k processor of the jor1k
emulator.  Most of it is recipes (`Makefile`, `scripts/*.make`) and patches to
other programs.  What it contributes itself, and what is modelled here, is the
code of its own: two kernel drivers, tools that build the root file system, and
demo programs for the frame buffer.

## The system

| Part | Source | State | Operations | What is hard |
| --- | --- | --- | --- | --- |
| starfield threads | `patches/code/starfield/main.c`, `fader.c` | flag `running`, two arrays of semaphores, frame buffer mapping, colour map | set-up, frame loop, workers, SIGINT, shutdown | four workers and main share the frame buffer; SIGINT at any moment |
| starfield stars | `patches/code/starfield/starfield.c` | position and depth of a star, index into the random table | `init_starfield`, `calc_starfield`, `update_star` | recursion, division by zero, truncation |
| sound driver, PCM | `patches/linux/dummy_sound.c` | `dummy_systimer_pcm` per substream, one register block | ALSA operations, timer callback | timer against operations, late timers, wrapping jiffies, fractions |
| sound driver, card and mixer | `patches/linux/dummy_sound.c` | cards, platform devices, mixer values | init, exit, probe, remove, controls | partial failure, users who bind and unbind, change events |
| keyboard driver | `patches/linux/opencores-kbd.c` | six kernel resources, key bits | probe, remove, interrupt | unwinding, interrupts during probe and remove |
| fs2xml | `tools/fs2xml.c` | table of inodes, tree below `fs` | read archives, merge headers, write files and listing | order of archives, hidden and packed names |
| mke2img | `tools/mke2img.c` | inodes, entries and blocks of an ext2 image, the working directory | recursive walk of a directory tree | errors at every call, full directories |
| fbview | `patches/code/fbview/fbview.c`, `framebuffer.c`, `pixmap.c`, `ds_bmp.c`, `ds_jpeg.c` | options, frame buffer, palette, pixmap | parse options, load, scale, rotate, dump, show | rounding, sizes, padding, error paths after the palette was replaced |
| penguins | `patches/code/fbview2/df_andi.c` | linked list of penguins, formation points, DirectFB interfaces | set-up, move, draw, keys, release | an empty list and its stale last pointer, steps that pass a point |
| fsi sound driver | `patches/linux/fsi.c` | substream pointer, registers | open, trigger, interrupt | not in the default build |

The parts hardly touch: the drivers talk to the kernel and the emulated device,
fs2xml writes what the emulator's 9p server reads, the starfield workers fade
what the stars draw.  Two interactions are checked: `Stars` bounds where a star
is drawn and `StarfieldProofs` shows these rows are faded; and `Fs2xmlTool`
runs the loop over the archives together with the merge it calls.

`PROJECT.json` lists the components, the hazards at their lines, the map from
definitions to source lines, the runs, mutants, findings and theorems.

## Modules

**`FadeThreads`** - main and the workers of the starfield demo.  `mpc` and `wpc`
are control points; one action is one statement another thread can observe (a
semaphore call, a read of `running`, one row of `fade()`).  `running` is a plain
`int`, re-read in every loop because the loop bodies call into other translation
units.  `signal()` restarts `sem_wait`.  `pending` is a history variable: rows of
a released strip not yet faded.  `pthread_create` is assumed to succeed.

**`StripBarrier`** - what the semaphores are for, without them: strips are released
in turn, a released strip is faded completely before its worker is idle again, and
the screen goes away when all workers have returned.  `FadeThreads` implements it
(`ImplementsBarrier`): a worker is *released* when it waits with a post in `sem`,
*fading* inside `fade()`, *idle* otherwise; what is *left* is `pending`.

**`Stars`**, `MCStars` - one star through `update_star` with its recursion, over the real
table of `rndtable.h`, in C arithmetic (division truncates, a table entry is a
signed char).  A division by zero yields an arbitrary coordinate, as on or1k.

**`DummyPcm`**, `MCDummyPcm` - the PCM operations and the system timer of the sound driver.
`dpcm[s]` is `struct dummy_systimer_pcm`, in fractions of 1/HZ sample; the two
loops of `dummy_systimer_update` are written in closed form.  The ALSA core is
external: `pstate` says which operation it may call.  The kernels here are
uniprocessor and without preemption and the core calls with interrupts off, so
an operation and a callback do not overlap, and each is one action.  `played` and `owed` are
history variables computed from the totals, not from the driver's remainders.

**`OpencoresKbd`** - probe with its error labels, remove, and the interrupt handler
between any two statements.  A kernel resource is a name in `held`.

**`Untar`** - the loop of fs2xml over the blocks of an archive.  An archive is a
sequence of sizes; the last, partial block of a file may look like a header.

**`Fs2xml`** - `MergeFile` per header, then `WalkDir` step by step with the
call stack explicit.  A name is a mark (`.`, `_` or `__`), a base and a number of
`.bz2` suffixes.  `disk` is the tree below `fs`.

**`Fs2xmlTool`**, `MCFs2xml` - main of fs2xml, the composition of the two: each header
`Untar` meets is a call of `MergeFile`, which ends before `Untar` goes on; archives
follow one another, an archive that cannot be opened ends the program, one that
cannot be unpacked is like an archive without entries, and the walk starts after the last.  A block
that only looks like a header hands `MergeFile` any header.

**`Mke2img`**, `MCMke2img` - `trawl_dir` over a source tree: the calls of the recursion, the
working directory, the inode at hand, and an image of inodes, entries and blocks.
An I/O error may hit any call; a doubly closed handle kills the program or not.
Names are looked up in the working directory (`Found`), wherever the unchecked
`chdir(argv[2])` (`EnterTree`, line 276) and `chdir("..")` (`Return`, line 91) have left it; different
directories may use the same names, so after a failure a name may lead to another entry or to none.
`Start` is the directory the program is started in, which may have entries too.  After a failed
`ext2fs_read_bitmaps`, which is only printed, no block can be taken and `bitmap` says whether
inodes can.  An error of `readdir` looks like the end of the directory; such directories are in `cut`.
`listed` and `stray` are history variables too: which source directory each directory of
the image was read from, and whether a `chdir("..")` has failed.

**`DummyCard`** - init and exit of the sound driver, probe and remove of each card, and
users who bind and unbind devices.  `registered` is what the kernel knows,
`devices` the pointers the driver keeps.  The limits of the card models are in
`dummy_models` and `PcmHw`.  `mappings` counts how often a probe has mapped the registers (line 939)
and `virt_io_base` says whether the one pointer that all cards share is not NULL.

**`DummyMixer`**, `MCDummyMixer` - the controls and the events their changes lead to; `seen` is
what a watcher has read last, it reads a control again when it gets an event.

**`Penguins`**, `MCPenguins` - the penguin demo.  The list is nodes on a heap with the two
pointers and the count of the code; `number` is the counter of the loops that add
and remove penguins, `j`, `p` and `drawn` are the drawing loop.  A random number is any
member of `Walks` or `Jitters`.  Formation points are in thousandths of the screen and
the way to one is a float cut off towards zero.  Animation frames are left out.

**`Pixmap`** - the pictures of fbview as pure operators: the bytes of a pixel at each depth
(`SetPixel`, `GetPixel`), the palette, bilinear scaling in fractions, the index
arithmetic of rotation as the code has it, reading and writing the pixels of a BMP
file, and the copy to the screen.  `Byte` and `Uint16` keep their width, and the loops over rows and columns of
the BMP code stop where their `Sint16` counters do (`Rows`, `Columns`).

**`Fbview`**, `MCFbview` - one run of the viewer: every option, `fb_init`, the BMP and
JPEG codecs, autoscale, scaling, rotation, dump and show.  libjpeg is external: it
delivers the lines of a good file and calls `error_exit`, which is NULL, for a bad
one.  `heap` records an allocation that failed and a write behind a buffer, after
which `free` or `malloc` may stop the program; fresh memory holds any of `HeapBytes`.
A screen of 16 bits has a format and a byte order of its own, which fbview never asks for, and `Seen` takes the
words of the screen apart by that format and not by `fb_get_pixel`; `offset` is the panning of
the screen, which `fb_init` sets to 0 for good.  A dumped file may miss bytes (`whole`): nobody looks at
the results of `fputc` and of `fb_pixmap2bmp`.

**`Screen`** - the size of the screen, shared by `FadeThreads` and `Stars`.

**`StarfieldProofs`**, **`DummyPcmProofs`**, **`DummyDriverProofs`** (card and mixer),
**`OpencoresKbdProofs`**, **`Fs2xmlProofs`**, **`Mke2imgProofs`**, **`PenguinsProofs`**,
**`FbviewProofs`** - theorems and proofs.

## Runs

| Run | Shows |
| --- | --- |
| `fade` | no access after `munmap` or off screen (`AccessMapped`), no release before the previous strip is faded (`Lockstep`), one writer per row; the semaphores implement `StripBarrier` (`ImplementsBarrier`); a SIGINT always ends the program (`SigintStops`); without one every worker keeps fading (`KeepsFading`) |
| `stars` | stars are drawn where workers fade, recursion has depth one, every star is renewed |
| `pcm` | position inside the buffer, accounting exact against the totals, the timer expires in the tick the period ends, ended periods are reported; a timer pends exactly while its stream runs |
| `kbd_probe_remove` | handler safe at every moment; every failure path gives back exactly what was taken |
| `untar_round_up` | *violation*: the comment says "round up", the code rounds down into the file's own data |
| `fs2xml` | across several archives every header is merged, once and in order (`AllHeadersMerged`); the table stays a tree, the first archive wins, listed files can be loaded |
| `mke2img_copy` | no inode is used twice; no directory of the image has a name twice or an entry from outside the source directory it is filled from, and without a failed `chdir("..")` each entry is where the source has it (`SameShape`); every name listed is there or in a message (`NothingLost`); a full directory is no error |
| `card_life_cycle` | what clients see has all its devices, controls, limits and pages (`VisibleComplete`), failure and exit leave nothing behind but the mappings of the registers (`OnlyMappingsLeft`), limits of every model are possible |
| `mixer_events` | a watcher without events knows volumes, I/O box and the state of the CD controls |
| `penguins` | list, pointers and count agree after any keys; every frame draws every penguin once and on the screen; a penguin sent into formation is on its way to a point and gets there; the interfaces that set-up takes and the penguins are given back |
| `fbview` | on screens whose pixels are what `fb_set_pixel` takes them for (`Formatted`), what is on the screen is the picture in the file (`ShownFaithful`); autoscaling fits it; a whole dump that the reader accepts reads back to the same pixels; a failing run leaves the palette and the pixels of the console as they were, but not its panning (`FailureKeepsPicture`) |
| `fbview_rotate` | *violation*: a rotated picture is shifted by a pixel or a line, its end is written behind the buffer and its start is what `malloc` left |

Every property of a passing run has a mutant: a changed definition (next to the
original, marked "Mutant") under which TLC finds that property violated.

### Bounds

- `FadeThreads`: three workers (`main.c` has four) and 12 rows, so that there is a
  first, a middle and a last strip and rows to fade in each; two frames between
  fades rather than four, the counter only delays.  The safety properties are
  proved for any number of workers, rows and frames.
- `DummyPcm`: `JMOD` 16 makes jiffies wrap many times; `MaxLate` 3 lets a late
  timer jump over periods and whole buffers; the parameters have ticks shorter
  and longer than a period.  `MaxOwed` bounds unreported periods over repeated
  suspends, which otherwise grow without end.  One substream: what several do to
  their timers (`TimerIffRunning`) and to the one register block (`DevicePlaysRunning`) is proved for
  any number of them.
- `Stars`: the real table and a 640 x 400 screen; nothing is scaled.
  `MaxDepth` only limits a runaway recursion; `DrawnInside` shows that it is not met.
- `Untar` alone: blocks of four bytes; sizes 0, below, equal to and above a block.
- `Fs2xmlTool`: up to four headers in archives of up to two entries, out of twelve headers: a directory, a marked twin,
  files in both, a name that is another's packed form, links, unknown types.  Sizes
  with no, one partial, and a full and a partial block, the last one looking like a header.
- `Mke2img`: four entries of all kinds in two shapes with two names.  In one `usr/lib`, its entry
  `lib` and a `lib` in the root can be taken for each other; in the other a
  directory fills up and the directory the program was started in has an entry of a name the tree has as well.
  Five inodes, images from no blocks to nine, which is enough, one entry to a directory block so that every second
  link expands, and two I/O errors, enough to make both attempts of a link fail or two `chdir`.
- `DummyCard`: two enabled cards out of three, all models, two PCM devices and two
  controls each; more only lengthens the loops.  `IoSpace` 2: there is room for two mappings, a third probe gets NULL.
- `DummyMixer`: one address (addresses do not interact), values that are clamped
  at both ends and the initial one between.
- `Penguins`: up to two penguins on a screen of 7 x 4, one penguin per blit, so that a
  frame needs two; three keys, enough to empty the list, add one again and send it
  off.  Penguins do not influence each other.  Of the random walks one is shorter
  than a step on one axis; points lie between pixels and behind the edge.
- `Fbview`: pictures of up to 5 x 4 pixels, with widths that need every kind of
  padding and colours that differ from their neighbours in each channel; seven
  screens: 8, 24 and 32 bits, 16 bits in the two formats and both byte orders, and a depth that is refused, two of
  them panned; `SintMax` 8, so that a picture of ten columns or ten rows is beyond the counters; scales that halve and double, which are
  exact in a float, and for autoscale the fractions that follow from the sizes, for
  which `ScaledSizes` allows both sides of a rounding.  `MEMSIZE` 30 makes one file too large, and a
  doubled picture one that fbview dumps and would refuse to read.

### Fairness

`FadeThreads` assumes weak fairness of main and of each worker: each is a thread
the scheduler runs when it can run.  No SIGINT is promised.  `DummyPcm` assumes
that time passes and that the timer softirq runs, nothing of clients.  `Stars`
assumes main keeps calling `calc_starfield`.  `Penguins` assumes that main goes on,
and as `MaxKeys` bounds the keys that the user stops pressing them: a user who
never stops keeps main in its key loop.

## Proofs

`StarfieldProofs` proves, for any number of workers, rows and frames:
`TypeCorrect`, `LockstepHolds`, `AccessMappedHolds`,
`OneWriterPerRowHolds`.  None of the properties is inductive.  The invariant is
`TypeOK /\ TokenInv /\ PhaseInv /\ PendingInv`: `TokenInv` counts, for each
worker, the one token that passes between `sem`, `sem_main`, main between wait
and post, and the worker itself (two after the shutdown post); `PhaseInv` says
which workers exist and have returned at each point of main; `PendingInv` that
rows are faded first to last.  `FourStripsCoverStars` is about the geometry: with four
workers and a height divisible by four the strips cover all rows stars reach.
The assumption is `ThreadsAssumption`: at least one worker and one row each.

It also proves `BarrierImplemented`: every behaviour of `FadeThreads` is one of
`StripBarrier`.  It adds `StopInv`, the order of the shutdown, to the
invariant above: main and the workers leave their loops only after the SIGINT, and
a worker that does not fade and has no post has nothing left.  Each
action then maps to one barrier step or to none; the post of main maps to `Release`, or to
`Skip` for a worker that has returned, because main holds the worker's only token there (`HeldToken`).

For the stars it proves `DrawnInsideHolds`, for any table of signed chars (`StarsAssumption`) and any screen of
at least 262 x 262 pixels (`StarScreen`: a new star is projected up to 128 pixels from the centre and must
stay clear of the border; the demo runs at 640 x 400).  The invariant `StarInv` says that the
inner call finds a star at `ZMAX` and on the screen (`ProjectNew`), so `update_star` calls itself once
at most and the outer call draws the same star 24 nearer.  `StarsFadedHolds` joins the two halves of the demo: with four
workers and a height they can share, a star is only ever drawn on a row that a worker fades.
`FadeDarkens` is about the image: fading is done in place, on rows that another worker may be writing, and still
no pixel becomes brighter than the brightest was and a pass over the image makes the brightest darker.

`DummyPcmProofs` proves, for any rates, sizes, HZ and number of substreams:
`TypeCorrect` (the unsigned remainders never go below zero),
`PointerInBufferHolds`, `TimerIffRunningHolds`, and
`DevicePlaysRunningHolds`: the registers are shared, so a stop turns the device off under any other
substream that runs and a start redirects it, but an enabled device always plays one that is running.  The
invariant adds `StructInv`: a prepared struct carries sizes that are those of the
current parameters times HZ.  The arithmetic of the two loops is in lemmas.
`AccountingHolds` follows because reducing a total step by step leaves the same remainder as
reducing it once.  `TimerOnPeriodEndHolds` and `CallbackReportsHolds` need the clock: `ClockInv` says
that the timer of a running substream expires as many ticks after `base_time` as the rest of its
period takes, and is at most `MaxLate` ticks overdue.  They rest on `PeriodAssumption`: the longest
period, in ticks, and `MaxLate` are together less than half a turn of jiffies, beyond which the kernel's own
`time_after` does not work.

`OpencoresKbdProofs` proves `IsrSafeHolds`, `AllOrNothingHolds` and
`ReleasesHeldHolds` for every set of scancodes and any number of probes and
removes.  The invariant is an exact account of what is held at every point
(`HeldInv`) and of what is filled in before the irq is requested (`FilledInv`).

`DummyDriverProofs` proves for the card, for any number of cards, PCM devices, controls and any set of
model names, `TypeCorrect`, `VisibleCompleteHolds`, `OnlyMappingsLeftHolds`, `DevicesKnownHolds`
and `LimitsPossibleHolds`.  The invariant says what a card has at each point of its
probe (`Built`), what init and exit hold at each of theirs (`Held`: a registered device
is one of the pointers or the one at hand) and that only a registered device
has a driver (`Bound`).  A step of a device leaves the others alone (`LocalStep`), a step
of init or exit all of them, or all but the one it unregisters (`QuietStep`, `UnregisterStep`).
From `CardAssumption`.

For the mixer it proves `MixerTypeCorrect`, `ViewFreshHolds` and `CdSeenHolds` for any addresses and any
written values (`MixerAssumption`).  The invariant ties the access flags to the box
and the watcher's copy to the flags wherever no event is pending.

`FbviewProofs` proves `TypeCorrect`, `FailureKeepsPictureHolds` and `AutoscaleFitsHolds` for all files,
screens and options whose sizes fit in a `Uint16` (`SizesAssumption`) and any range of the counters (`SintAssumption`), and
`PixelRoundTrip` for all colours.  `ConsoleInv` says that the palette is replaced only between `fb_init`
and `fb_uninit` and the screen written only by the last step; `FitInv` carries the size of the
autoscaled picture from the choice of the fraction to the end, by the division lemmas
at the head of the module.

`DumpReloadsHolds`, at 8 and 16 bits, for files that were dumped to the end, that the reader's size test
accepts (`BmpAccepted`) and whose sides the loop counters reach (`Counted`): `PicInv` says that the pixmap is
a picture (`IsPicture`: every byte of it has been written by `fb_set_pixel`, so at 16 bits every second one has its
top bit set) from the codec to the end, and that the dumped file was made from it.  The codecs and bilinear
scaling make pictures (`BmpPicture`, `JpegPicture`, `ScalePicture`: a target pixel only comes from pixels of the
source, and interpolation stays among the bytes); of a picture, `fb_get_pixel` and `fb_set_pixel` give back the
same bytes (`ReadWrite`), and reader and writer put byte c of pixel k at the same offset (`DumpedByte`).
`DataAssumption`: a file is bytes, and libjpeg makes three for each pixel of a good file.

`ShownFaithfulHolds`, at 8 bits with a colour map and at 16 bits in the format 5-5-5, for screens and binary scales of any size: `FaithInv` says that the pixmap is the picture
of the file, pixel by pixel, from the codec to scaling and the scaled one after it, `ScreenInv` which byte of it
is where in the memory of the screen.  The codec puts pixel (x, y) of the format at its place in the pixmap
(`BmpLoaded`, `JpegLoaded`); quantising rounds down to a step, so between two colours it stays
between their quantised ones (`QuantBetween`); interpolation stays between those of its four pixels that have weight,
and all of these are `Near` the place (`ScaledAmong`, `InterpolateUsed`); `fb_pixmap_render` copies each row to its own line
(`RenderedPixel`) and the palette of 8 bits, or the format of the word, shows the colour that was packed (`PaletteShows`).
The theorem is about `Showable` files: the data holds the picture as its format says (`Stores`), the codec
reads its padding in step and reaches all its rows and columns (`InStep`), the scale is exact in a float (`Exact`) and the scaled sides fit in 16 bits (`ScaledIn16`).
`MCStoresAssumption` makes TLC check that the files of the run that the codecs accept are such files.

`Fs2xmlProofs` proves the four properties of fs2xml for any archives, headers, names, sizes and block size
(`FsAssumption`, `ArchivesAssumption`).
`AllHeadersMergedHolds`: `Between` says that the loop is, on a multiple of the block size,
behind the last header merged and not behind the next, so rounding down into the data of a
file costs a few blocks more and never a header.  `ParentsFirstHolds` and `FirstArchiveWinsHolds`:
`TreeInv` ties every inode to the header it was made from.  Its path is its parent's
and its name, no earlier header has it, no two inodes share one, and every merged
header's path is some inode's; that `Walk` finds exactly the inode with a path
(`WalkSound`, `WalkComplete`) and `FullPath` gives it back (`FullPathIs`) follows.
`FilesLoadableHolds`: `DiskInv` says that everything below `fs` is in a directory and every
directory some inode's, so nothing blocks bzip2 on a file with names of its own; `CoverInv` that
such a file is either there under its listed name or still ahead of a call of `WalkDir`
that stands at or before one of its ancestors.

`Mke2imgProofs` proves `ImgTypeOK`, `NoSharedInodeHolds`, `SameShapeHolds`, `NothingLostHolds` and
`CompleteCopyHolds`, for every source tree (`IsTree`, from `ImgAssumption`), any image and any I/O errors.  Names may
occur in several directories, and any `chdir` may fail.  `StackInv` says that each call was made for a
link in the directory its caller fills, and that no name a call has still to look at is in its directory or in a message;
`CwdInv` that the working directory never leaves
what lies below the directory of the call at hand and is that directory itself unless a `chdir("..")`
has failed, `CurInv` the same of the entry at hand.  `ShapeInv` carries this to the entries of the image,
`LinkInv`, `ListInv`, `MadeInv` and `InfoInv` tie entries, inodes, directories and blocks to each other, and `CoverInv` says that every name
listed is linked, reported, or still on a list.  `CountInv` counts messages and lost inodes; `FaultInv` and
`TroubleInv` say what must have gone wrong before a message can name an entry of a known kind or a directory can be cut short.

`PenguinsProofs` proves `ListShapeHolds`, `OnCourseHolds`, `FrameCompleteHolds` and `AllReleasedHolds`
for any number of penguins, keys and batches and any screen that two pictures fit on in each direction (`PenguinsAssumption`).  `IsList` says
that a sequence without repetition is what the next pointers lead through, `ShapeInv` that there is one
at every point until the resources are released, `IsDrawn` how far the drawing loop is in it,
`CourseInv` that live penguins are on the screen and that the way of a marching one ends at its point on both axes, and
`HeldInv` which interfaces are held at each point of main.

Induction over data is done by hand where it is needed: a nonempty set of naturals has a
least member (`LeastNumber`, from the library's `WFMin`), so the set of counterexamples
is empty.  In this way the recursive functions (`Offset`, `Walk`, `FullPath`, `Chain`) are first shown to exist
and then to compute what they should.

Only model-checked: liveness (`SigintStops`, `KeepsFading`, `PeriodsReported`,
`StarsRenewed`, `MarchEnds`), out of the prover's reach.  Every safety property of the
passing runs is also a theorem.

## Not modelled

The kernel patches (their context is not in the repository), the DirectFB viewer
that only calls a library, straight-line demos, build scripts and
configuration.  `patches/linux/fsi.c` is not built: the line that copies it into the
kernel tree is commented out (`Makefile:146`).  See `components` in `PROJECT.json`.

Weaknesses met on the way that no property is about:

- `starfield.c:148` says `(0-4096)` of a depth that starts at -16 for a table entry 128.
- `dummy_sound.c:282` stops the stream with `del_timer`: on an SMP kernel a callback
  on another CPU could arm the timer again.  The kernels built here are uniprocessor.
- `dummy_sound.c:939` maps the registers in every probe and no path unmaps them; the result is not compared with NULL,
  and as the pointer is shared, the probe of one card may replace it by NULL under the others, whose
  next start then writes through it.  `OnlyMappingsLeft` says that this is all that is left.
- `dummy_sound.c:390` disables the device when any substream stops; no document says what should happen to the others.
- `dummy_sound.c:697` reports a changed capture switch only if both channels differ;
  `ViewFresh` is about volumes and the I/O box.
- `fs2xml.c:200` has room for 10000 inodes and 12 names of a path, without a test;
  `fs2xml.c:545`: `.x`, `_x` and `x`, or a packed `x` beside `x.bz2`, are one file below
  `fs` and the later one wins.
- `fs2xml.c:115` reads at most 60 MB of an archive and takes an error of `BZ2_bzread` for an empty one; neither is
  reported.
- `mke2img.c:276` does not look at the result of `chdir(argv[2])`: if it fails the image gets a copy of the
  directory the program was started in, without a message and with exit status 0.  After a failed `chdir("..")`
  (`mke2img.c:91`) an entry of the same name from a deeper directory may be copied for the one listed.  A failure of
  `ext2fs_read_bitmaps` (`mke2img.c:271`) is printed and the walk goes on.  `SameShape` and `NothingLost` say what
  still holds.
- `df_andi.c:421` never frees the animation frames (`FIXME: leak`).
- `df_andi.c:385` allocates one number per pixel of the mask and stores two for every
  black one; `df_andi.c:498` does not look at the result of the first `CreateSurface`.
- `framebuffer.c:438` packs 16-bit pixels as 5-5-5 words with red in the low bits, low byte first, whatever the screen
  takes.  `fbdemo.c:87` packs the same device as 5-6-5: on such a screen, or where the high byte of a word comes first
  as on or1k, the colours are wrong.  `ShownFaithful` is about `Formatted` screens; the run has the others as well.
- `framebuffer.c:303` resets the panning of the screen and nothing puts it back.
- `ds_bmp.c:89` and `ds_bmp.c:205` count rows and columns in `Sint16`: of a picture with more than 32768
  rows none is read or written; in one with more than 32768 columns the comparison with the unsigned width ends
  the loop when the counter wraps.  The model does the same; `ShownFaithful` and `DumpReloads` leave such pictures out.
- `ds_bmp.c:238`: a dump that fails half way leaves a partial file, the loop over the pixels looks at no result, a
  finished file is not closed, and `fbview.c:297` ignores what `fb_pixmap2bmp` returns: the exit status is 0 all the same.
  `ds_bmp.c:139` refuses pictures the dump writes without complaint.
- `fbview.c:131` compares a float with the double 0.01: `-s 0.01` is refused though the help (`fbview.c:107`)
  allows it (`InRange`).
- The comparison of the two ratios in `fbview.c:294` is taken exactly, the products are rounded (`ScaledSizes`).  A line of
  the screen is assumed to be `xres` pixels long, as `framebuffer.c:361` does.
- With `-q` or a rotation an autoscaled picture does not fit: the screen has size 0 when quiet, and the size
  before the rotation is used.  `AutoscaleFits` is about neither.
- At 24 and 32 bits `fb_set_pixel` writes bytes 1 to 3 and `fb_get_pixel` reads 0 to 2
  (`framebuffer.c:449`): the model does the same, `ShownFaithful` and `DumpReloads` are about 8 and 16 bits.
- `pixmap.c:45` stores the scaled sides in 16 bits and wraps above 65535 (`ScaledIn16` leaves such scales out).
- `framebuffer.c:335` maps `xres * yres * bpp / 8` bytes, which is less than `fb_pixmap_render` writes at 4, 5 and 15
  bits; `ShownFaithful` is about screens of 8 and 16 bits.
- `ds_bmp.c:181` pads 32-bit rows as if they had three bytes a pixel (`InStep` leaves such files out).
- `fbview.c:148` turns -180 into 0, and a rotation below -32767 wraps to a value no case
  exists for (`RotationsAssumption`).  `ds_jpeg.c` has no error handler.
- `bitmap.c`, `ds_png.c`, `ds_gpm.c` and `rgb2yuv420.c` are not compiled into fbview.

## Plan

Built so far, in this order: `FadeThreads`, `DummyPcm` and `OpencoresKbd` with their first
proofs, `Untar`, `Fs2xml`, `Stars`, `Mke2img`, `DummyCard`, `DummyMixer`, `Penguins`; then the abstract
barrier and its refinement, `Pixmap` and `Fbview`, the composition `Fs2xmlTool`, and the
proofs of `Fbview`, `DummyCard` and `DummyMixer`; then the proofs of all remaining safety properties: the
accounting of `DummyPcm`, `Stars` with the workers, `Penguins`, `Mke2img`, fs2xml, the dumped file of `Fbview` and, last,
`ShownFaithful` and `FadeDarkens`.  The plan is done; liveness stays with TLC.
