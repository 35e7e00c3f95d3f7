# A verification of qnxprobe in TLA+

qnxprobe reads disk images for forensic work: it finds the volumes in an image (or puts them
together from the members of a RAID set, the segments of a split image, the copies of a flash
chip), walks their filesystems, lists and extracts files, and says what it could not read. Nobody
can check its output against the truth, so two things must hold in all circumstances: **what it
shows as evidence is what is in the image**, and **what it could not read is said, never made up**.
The properties here are about those two, and about the desktop window that runs the tool and shows
its report.

The specifications are TLA+; TLC checks them on small instances, and the modules `*_proof.tla` hold
proofs for all instances, checked by TLAPS. Line numbers are those of `qnxprobe.py` unless a file is
named. `PROJECT.json` lists the components, the runs, the mutants each property is known to reject,
the lines each definition stands for, the findings, the hazards and the theorems.

## The system

Everything is in four files. `qnxprobe.py` is the program with its self-tests, `ewfprobe.py` reads
containers (and holds the decompressors), `qnxprobe_gui.py` is the window,
`tools/make_raid_fixtures.sh` makes test arrays.

| Component | State | Operations | Works with |
|---|---|---|---|
| Image layer: `open_image`, `SegmentedImage`, `read_at` (118-830) | handle, position, pool of open segments, `EOF_SHORTFALL` tally | seek, read | everything reads through `read_at`, which pads past the end and adds to the tally |
| Evidence containers: EWF, AFF, AFF4, AD1, DMG (`ewfprobe.py`) | chunk tables, chunk cache, list of padded chunks | seek, read, verify | stand in for a file under the image layer |
| Virtual disks: VHD, VHDX, VMDK, QCOW (`ewfprobe.py` 5660-6990) | block tables, parent disks, VHDX log held in memory | open, find the parent, seek, read | stand in for a file; a differencing disk reads through its parent |
| RAID: `RaidGeometry`, `RaidReader`, md, DDF, LVM RAID (19690-22990) | superblocks, members by role, bad ranges, last error | discover, assemble, judge, read, rebuild | reads members directly; is an image to all above it |
| LVM (18996-19600, 21603-21880) | metadata, segments of each volume | map, read | an image to all above it |
| Locks: BitLocker, LUKS, APFS (17623-18900) | unlocked key, sector map | unlock, read | wraps the image of a volume |
| Partition tables and `volumes()` (1053-1310, 29006-29940) | list of volumes | identify, list | makes the walkers |
| Walkers: QNX6, QNX4, ext, F2FS, FAT, exFAT, NTFS, APFS, HFS+, Squashfs, XFS, Btrfs, ReFS, JFFS2, UBI/UBIFS, YAFFS, ETFS, EFS, IFS (1417-19000) | superblock in use, block cache | inode, listdir, read_file | called by the listing, extraction and free space code |
| Listing and extraction: `collect`, `walk_all`, `extract_to_zip` (12095-12740) | seen inodes, entries, tally, zip | walk, store | walker, tally, progress |
| Free space: `write_unallocated` (29959-30113) | runs, map of offsets | write | walker |
| Report and command line: `main` (30134-30875) | options, manifest | run | all of the above |
| Window: `run_window` (`qnxprobe_gui.py` 111-728) | child process, queues, buttons, open image | start, poll, finish, cancel, load, close | runs the command line as a child; reads images itself for the Contents pane |

The program is sequential but for the window, which has a main thread, one pump thread for each
pipe of its child, and a worker for the Contents pane. What is hard elsewhere is not concurrency
but the state in which things are found: an image cut at any byte, blocks that do not read, a zip
that cannot be written halfway, an array or a flash chip left by a power cut between two writes.
Such a state is the work of another program (a driver, a filesystem), so the models that need it
have an environment which makes those states in the ways the code takes for granted, and then
the program on whatever it left.

What makes each part correct:

* **Extraction.** Every entry of a volume ends in one outcome, counted once; a file that is stored
  under its own name is wholly in the image; a cut file says it is cut; a file that raises leaves
  nothing in the zip; the progress a consumer sees ends with the final counts.
* **Window.** When the window says a run is over it has taken every line the child wrote, in order,
  and none of an earlier run; a child is never left on a full pipe; a run or a load that has ended
  is reported; loads never overlap.
* **RAID geometry.** No byte of a member is read for two bytes of the array; a piece read at once is
  what would be read byte by byte; each stripe has its data and parity on members of their own;
  the search for what no copy supplies leaves out no chunk.
* **md arrays.** Whatever step the driver had come to, and whichever members are given: no read is
  stale, none is made up by a rebuild from parity out of step, and what can be read is read.
* **Flash filesystems, journals.** Of several copies of a node, superblock or checkpoint, the one
  read is the newest whole one, so that a file reads as the device held it; a deleted file that is
  given back is one file, as it was.
* **Logs, copies.** A store that its writer may stop writing at any moment is read as one state of it,
  whole, never older than one that was safe or that was read before; and a log that is not replayed
  is called clean only if nothing is owed from it.
* **Virtual disks.** Each sector is what the guest last saw, or is refused; a disk whose files are
  all there is read.
* **LVM and free space.** A volume is read from where the device mapper has it; what is written out
  as free space is what no volume holds, and each byte of it can be traced to the image.
* **Image layer, containers.** The bytes read do not depend on the order of earlier reads, on the
  number of handles kept or on what the cache holds; each padded chunk is said.

## The modules

| Module | Of | Run |
|---|---|---|
| `Extraction` | `collect`, `extract_to_zip`, `read_at`'s tally, `ProgressEmitter`, with `read_file` of QNX6 and F2FS | `extraction`, `extraction_links`, `extraction_failed` |
| `ZipPromise` | what the documentation says of `extract_to_zip`, the abstract specification each step of `Extraction` implements but a copy that fails | `extraction` |
| `Window` | `qnxprobe_gui.py` | `window` |
| `Output_proof` | theorems about `Extraction` and `Window` | |
| `RaidStripe` | `RaidGeometry.stripe`, `_raid6_slots` | `raid_geometry` |
| `RaidGeometry_proof` | theorems about `RaidStripe` and `RaidGeometry` | |
| `RaidGeometry` | the rest of `RaidGeometry`, the loop of `RaidReader._read`, RAID10's search in `unreadable`; the loop of `LvmImage.read` | `raid_geometry` |
| `LvmLayout` | `_lvm_layout`, `_lvm_copy`, `LvmMap`, the spare extents of `_lvm_group` | `raid_geometry` |
| `FreeSpace` | `write_unallocated` over an LVM group, after `RaidGeometry` | `raid_geometry` |
| `MdMembers` | the md driver (environment) | `md` |
| `MdArray` | `_md_assemble`, `_md_roles`, `_md_judge`, `RaidReader` over what `MdMembers` left | `md` |
| `MdArray_proof` | theorems about `MdArray` | |
| `YaffsFlash` | the YAFFS2 driver (environment) | `yaffs` |
| `Yaffs` | `YaffsWalker` on YAFFS2, with deleted files | `yaffs` |
| `Yaffs_proof` | theorems about `Yaffs` | |
| `Jffs2Flash` | the JFFS2 driver (environment) | `jffs2` |
| `Jffs2` | `Jffs2Walker`, with deleted files | `jffs2` |
| `Jffs2_proof` | theorems about `Jffs2` | |
| `Numbers` | running sums and sets of numbers in order, as `Extraction` and `RaidGeometry` use them | |
| `Numbers_proof` | what they are, and the least and the greatest of a set, for the proofs of the components | |
| `AtomicStore` | what a reader of a store that is being written promises, an abstract specification | `virtual_disks`, `newest_copy` |
| `VhdxDisk` | a program that writes a VHDX file (environment) | `virtual_disks` |
| `VhdxLog` | `_index_vhdx`'s choice of header, `_vhdx_replay`, `_vhdx_read`; implements `AtomicStore` | `virtual_disks` |
| `CopyWriter` | the writers of eleven formats (environment) | `newest_copy`, `newest_copy_torn` |
| `NewestCopy` | which copy each of their readers takes; implements `AtomicStore` | `newest_copy`, `newest_copy_torn` |
| `NewestCopy_proof` | theorems about `NewestCopy` | |
| `LogWriter` | XFS's log and md's write journal as Linux writes them (environment) | `pending_log` |
| `PendingLog` | `_xfs_log_state`, `_md_journal_pending` | `pending_log` |
| `DiskHost` | the host of a virtual machine, and who copies its files (environment) | `virtual_disks` |
| `DiskChain` | opening and reading a differencing VHD, VHDX, VMDK or QCOW | `virtual_disks` |
| `VirtualDisks_proof` | theorems about `DiskHost` and `DiskChain`, and about `VhdxDisk` and `VhdxLog` | |
| `MC*` | instances for TLC | |

`RaidGeometry` extends `RaidStripe` and `LvmLayout`, and `FreeSpace` extends it; each reader extends
the environment it reads after.

A definition named after a mutant (its comment says so) is not part of a model: it is the plausible
bug that shows a property can be violated.

### Extraction

The volume (constant `Layout`) gives each inode the block it is in, how much of that block must be
here, its size and, for each chunk of it, the pointer blocks on the way and the data block, or a
hole. The image is cut at any byte (`len`) and any `MaxBad` blocks are unreadable (`bad`); `kind`
is the walker. `Collect` is `collect()`; `Begin` opens the zip; then for each entry `Skip` (not a
regular file, or an inode that is not here), or `Open` followed by one step for each chunk
(`FollowPointer`, `ReadData`, `YieldHole`), and `Store`, `ReadRaises` or `StoreRaises`; `Return`
ends. `tally` is `EOF_SHORTFALL`, `before` what it was when the file was opened. `spool` is the
spooled file, `last` the last progress line sent; the throttle's clock is a free choice.

F2FS reads blocks through a cache that stops growing at `CacheMax` (4,096 in the code, 4 here, so
that both sides of the limit occur). The lookup of a node's address in the NAT is folded into the
chain of pointer blocks of the inode.

A hole is zeros. Where it is said by the unused pointer in a pointer block nothing is read; where QNX6's
inode itself holds that pointer, `_map()` does not look for it (1446-1456), the block of that number is
read past the end of the image and counted, so a whole sparse file is stored with a SHORT name.

Checked (`extraction`): `WholeIsWhole` (QNX6) and `FirstLinkIsWhole` (F2FS): the member of a file counted
among the whole ones has every chunk of the file in full, compared with what was written into the
member, and what is padding in it is a block that does not read (`Holds`); `Accounted`: the tally is what
became of the entries; `KeepsThePromiseButForCopies`: each step is one of `ZipPromise` (one outcome for each
entry, in order, a member for each file stored and none for any other), or a copy into the zip that
failed (`CopyFails`).

Bounds: four inodes in seven two-byte blocks, one file with direct blocks and a hard link, one
behind a pointer block with a hole, one that is a hole in the inode's own pointers, a symlink; every cut,
every set of at most two bad blocks. A second link is what it takes to reach the cache; a pointer block
is what it takes to cut a file without touching its data. The extraction ends, so deadlock is not checked.

Two runs of the same instance end in a violation. `extraction_links`, of `EveryLinkIsHonest`: on F2FS a
second hard link to a cut file is stored whole, since `block()` keeps the short block and does not count it
again (2005). README.md 319-321 says every cut file has a SHORT name. `extraction_failed`, of
`FailedAreLeftOut`: a spool that fails to copy into the zip (12716) leaves a part of the file as a member,
under the file's own name, and the file is counted as failed (12735). README.md 248-249 and 317 say
files that failed are not in the zip. That is why `ZipPromise`, which is as documented, is implemented
by all steps but that one.

Two smaller disagreements between the code and what it says came up while modelling and are not
checked by a run. The number in a SHORT name is the size less every byte *asked for* past the end,
slack and pointer blocks included, so it is not the number of bytes that are here (12675-12676 says
it is). With a short or failed file in the volume the last progress line is left to the throttle (12610),
where 12598-12599 promises a final line whatever the timing.

Proved, for every layout, cut, set of bad blocks, cache size and listing (`Output_proof`), from
the assumption that the layout has the shape `LayoutOK` gives it: `TypeCorrect`;
`CutFilesNeverPassForWhole`: `Spec => []WholeIsWhole`; `PromiseKeptUnlessACopyFails`:
`Spec => KeepsThePromiseButForCopies`. `WholeIsWhole` is not inductive, because a member's content comes from
chunks read many steps before it is stored. The invariant behind it (`HInv`) says that of the file
being read each chunk in the spool either is wholly in the image (or unreadable, or a hole) or has
moved the tally above `before` (`ReadSoFar`), that the pointer blocks passed for the next chunk
are likewise (`PointersFollowed`), and that members in the zip keep it. `PInv` ties the number of
outcomes to the entry at hand, which is what makes each step a step of `ZipPromise`, a copy that fails
or a stutter.

`FirstLinksNeverPassForWhole` is `Spec => []FirstLinkIsWhole` for F2FS under the hypothesis
`Unshared`, which the run's volume meets: no block is of two inodes. It is needed: the cache
answers a short block without counting it, so a damaged volume in which two inodes claim one block
has the fault of a second link at the first link of the other. What makes it inductive is that the
cache holds no block of an inode that has not been opened (`NoneCached`), so that of the file being
read each block answered from the cache was read, and counted, for this file (`FirstRead`).

`TallyIsWhatHappened` is `Spec => []Accounted`. The sum of bytes (`SumTo` of `Numbers`) is a recursive
function, and the library's induction theorems cannot be used for it; `SumsExist` and `SumsAgree` in
`Numbers_proof` show that one function meets its equation by the least number for which none, or two,
would (`LeastOf`, from well-foundedness), and `SumToNext` that a member more adds its own bytes.

### Window

Each thread's step between two points where another may act is an action. The main thread is in
`idle` (the event loop), `drain` (in `poll()`'s loop over `q_out`) or `check` (after it found the
queue empty, before it looks at the child): so lines and end marks arrive between any two
`get_nowait()` calls and between the last of them and the test of the child. A password prompt is
modal but runs the event loop: `poll()` and `poll_contents()` are called back while `start()` or
`load_contents()` waits (`dialog`). `Write`, `Exit` and `Killed` are the child and the operating
system; a child that has filled a pipe waits. `text` is the lines taken: progress lines in JSON go
to the bar and the others to the pane, and the window's own lines (the command, a note when
cancelled) are left out. The message box of a launch that fails is a step with it. `Close` stops
the pumps with the process, which are daemon threads.

`PollRaises` is a line of stderr that is JSON and not an object, on which `j.get` raises out of `poll()` (506-512):
Tk reports it and goes on, `poll()` is not called again (`main` is `lost`), and what is left in the queue
stays there. It may happen at any line of a stream in `Parsed`.

Checked (`window`): `NothingStale`, `InOrder`, `CompleteWhenFinished` (README.md 117-126: the report
in the window is that of the command line), `OneLoad`, and as liveness `RunEnds` (a run whose child ended
or was cancelled is reported, unless `poll()` raised), `NeverStuckOnAPipe`, `LoadEnds`.

Fairness: threads that can run do run, a signal sent arrives, a callback that is due is called
(weak). `PollContents` is strong, because it is not enabled while the main thread is in `poll()`:
both callbacks are due 50 ms after their last call, and Tk calls first the one due first. Nothing is
assumed of the child (it may write or wait for ever) or of the examiner.

Bounds: two runs, the first of two lines of report and one of progress, the second of none; pipes of one
line, one image, any number of loads. A second run is what it takes to meet what the first left in the
queue; a second line is what it takes to disorder them; a pipe of one line makes the child wait. The
window may be closed, so deadlock is not checked.

Proved (`Output_proof`), for any number of runs, streams, lines and images: `WindowTypeOK`,
`NothingStale`, `InOrder`, `CompleteWhenFinished` and `OneLoad` are invariants. The inductive
invariant `WindowInv` adds to the type: `LineInv`, the numbers of the lines in `text` and then in
`q_out` of each stream are 1, 2, ... to what its pump has taken, all of the present run;
`ReportInv`, the number of open streams is the number whose end mark has not been taken, and an end
mark is behind all lines; `LoadInv`, of prompt, worker, answer and box just one is there while the
button is disabled. Liveness is only model-checked: fairness and ENABLED are out of the prover's
reach.

### RAID geometry

`RaidStripe` and `RaidGeometry` are the arithmetic, as operators: `LinearPlace`, `Raid0Place` over
`Zones`, `Copies10`, `Stripe`, `Slots6`, `Size` and what `_setup()` accepts. The machine is
`RaidReader._read()` reading an array from end to end with all members in place: `off` is the byte it
has come to, `piece` the bytes of the members it took last, `seen` those before; `ReadPlace`,
`ReadStripe` and `ReadRun` take a piece of the array, of a stripe of it, or of an LVM volume. The unit
is the sector, so the refusal of a chunk that is not whole sectors does not arise; a level or number of
members that does not exist is left out of the instances; of mixed near and offset copies, which mdadm
makes none of, those whose near copies do not divide the members are too. 4,096 bytes, the least chunk
of RAID10, is the constant `Page`.

Checked (`raid_geometry`): `NoByteTwice`; `PiecesAreStraight`, within what a member gives the array;
`StripesAreWhole` (of the bytes at one offset of the members, one is P, one Q, and the rest are data
of the stripe, which is what a rebuild takes for granted; the coefficients of the data in Q are
different, and follow the data where the layout says so); `CandidatesSuffice` (a bad range on a
RAID10 member: the chunks `unreadable()` reads include all that have a copy in it); `EnoughCopies`
(the first n chunks do show every pattern of lost copies); `ReadWhereMapped` and `GroupIsAccountedFor`,
below.

Bounds: RAID5 over 1 to 5 members and RAID6 over 2 to 6, in every layout number up to the last and
the one after, with chunks of one and two sectors; RAID10 with up to 5 members and all near, far
and offset copies; linear and RAID0 over members of all orders of sizes, empty ones among them.
The arrays are long enough for more than a full turn of the parity round the members. Every array
ends, so deadlock is not checked.

Proved (`RaidGeometry_proof`), for any number of members, stripe and layout: `StripeApart5` and
`StripeApart6`, P, Q and the data chunks of a stripe are on members of the array, each on its own.
`StripeFull5` and `StripeFull6` say that no member is left over: each that is not parity has one of
the chunks. The proofs bring every layout to the same shape: P in closed form, and `% n` of a number
below twice n as the number or the number less n (`ModOnce`), after which each layout is linear
arithmetic.

Proved there too, for any number of members, chunk, size and layout of every md level, linear, RAID0, 1,
4, 5, 6 and 10, and for LVM volumes of any segments: `NoByteTwice`, `PiecesAreStraight`,
`StripesAreWhole`, `EnoughCopies`, `CandidatesSuffice` and `ReadWhereMapped`. Assumed
(`GeometriesAssumption`): numbers are natural numbers, offset copies have near copies that divide the
members, and a volume group is one lvm2 makes (`GroupOK`, below). The state is a record of what was
read, so the invariant says just that: `seen` and `piece` are the places of the bytes before `off`, and
`parities` the parity members of their stripes (`HasRead`, `HasParities`). The work is in the operators:
two bytes of the array are brought to one stripe by the quotient and remainder of their places
(`DivModUnique`), and in it kept apart by `StripeApart5` and `StripeApart6`; RAID10 by which copy of
which chunk is on a place. In `StripesAreWhole` the coefficients of Q in the Linux layouts count the
data members before one, and cardinalities of nested sets keep them apart (`CountApart`). Linear and
RAID0 are parts, members or zones, one after the other: running sums (`SumTo`) grow, so a byte is in one
part only (`PartsApart`). In RAID0 the zones are those of the heights upwards (`HeightsAre`), a byte of
a member is between the heights of one zone (`Inside0`), and there the row and the column of a chunk
give its number back (`ColumnsApart`), also where the original layout counts columns from the first
sector of the array and not of the zone (`Base`).

An LVM volume that is read is segments one after the other, their counts running sums too (`VolumeOK`,
`LaidIs`). A segment is rows of stripes (`StripesOf`), a byte of it is in one area (`SpotIs`) and no
other byte of the volume is there (`SpotsApart`). Its map is made one segment at a time (`JoinedKeeps`,
`RunsAre`), and at each its runs are as long as the segments so far, and each segment is a run or part
of one that goes straight on (`Covers`); so the run a sector is in has it where the segment has
(`RunsPlace`). A copy of a mirror is such a map up to the mirror's size (`CutOf`), in which every sector
has the place it has in the whole (`PlaceIs`).

### LVM volumes and free space

`LvmLayout` is a volume group as its metadata has it: physical volumes, each in this image or not, and logical volumes of segments. `Laid` is what `_lvm_layout()` refuses, `Runs` the runs it makes,
those that touch made one; a mirror is read from its first copy that can be (`Legs`), cut to the
mirror's size (`LvmMap`). `LvmPlace`, `ImageRuns` and `Missing` are `LvmMap`'s `locate()`,
`image_runs()` and `missing()`, and `Spare` the sweep over the extents in use that gives those of no
volume. `FreeSpace` goes on where the volume has been read to its end: `Begin` asks for the free
space of a physical volume or of the filesystem on the volume, whose runs go through the map, and
cuts them at the end of the image; `WriteChunk`, `EndRun` and `Finish` write the file and its map,
and a run ends at the first read that fails.

Checked (`raid_geometry`): `ReadWhereMapped`: each sector of each piece that is read at once, those after
a joint of segments made one run among them, is read from where the device mapper has it, computed
segment by segment from the metadata; and `GroupIsAccountedFor`, of two parts. `CutIsCounted`:
for every end of the image, what `missing()` counts is what lies past it. `WrittenIsFree`: what is
written is sectors no volume holds (hidden volumes and one being moved among them), each once, all of
them but what the image lacks and, in a run with a sector that does not read, what is from its chunk on;
the map leads back to the image, and sectors reported are those written, past the end and not read.

Bounds: two physical volumes of three and four extents of two sectors, the second in the image or
not; every linear and striped volume over them of one segment, those of two segments, mirrors of two
copies, beside a small volume or a `pvmove` under way; chunks of two sectors; the image whole or cut
inside the first physical volume, with at most one sector that does not read. Left out: raid1 legs
and LVM RAID with their dm-raid superblocks, thin volumes and snapshots (which are refused), what
each filesystem says is free (an input here), and the counts for chunks that are rebuilt.

Assumed of lvm2 (`GroupOK`): a segment has areas, a physical volume extents (of one of which the metadata
gives none the code checks no bound, and neither does `Laid`), no two areas of one volume have a sector in common,
and a physical volume that is here lies in the image to its end. `ReadWhereMapped` is proved from that
(above). `GroupIsAccountedFor` is not: `missing()` and `Spare` add up over sets in no order, and sort
the extents in use, by operators of the community modules that the provers cannot expand.

### md arrays

`MdMembers` is the environment: the md driver with its superblock in memory (`mem`), the one on
each device (`sb`), the devices that do not have the last one yet (`todo`), the data and parity on
each (`disk`), the write under way. Its steps are those the comments of the code cite md.c for:
superblocks are written one device at a time and a write is reported done only when they all are;
the array is marked not clean before it is written to; a write reaches its data, P and Q in any
order; a member fails at any time and its superblock is never written again; a member lists a bad
block; a spare joins, is rebuilt, and is then in sync. One stripe stands for the array. The content
of a chunk is the number of the write it came from; what parity holds is the number of each write
it was made from, and a rebuild gives back the chunk only if the other chunks still agree with
those numbers, and `Garbage` if not.

`MdArray` adds the program. `Stop` may come after any step: the machine stops, and images are made
of any of the devices, some cut short, some that do not read. `Assemble` is `_md_assemble()` with
all it calls: the freshest superblock (`Freshest`), each member's role, from that superblock when
one event behind (`Role`), which are taken (`Taken`), of two for a role the fresher (`Fillings`),
and whether the array is refused (`Refused`) or incomplete (`Incomplete`). The order in which images are
given counts only between equals, and is a free choice. `Read` is `RaidReader.read()` of a chunk:
from its member, another copy, or rebuilt from P or Q. A member that fails to read fails at both
attempts of `_member()`; one that reads at the second does not fail. Loops of `_rebuild()` that
leave out a failed member and try again are in closed form: what is rebuilt from those that read.

Checked (`md`): `NothingStale`: given one member that was in sync when the machine stopped, each
chunk is read as the last write reported done, or the one under way, whatever others are given with
it. `NothingMadeUp`: no read gives `Garbage`. `AllThereIsIsRead`: an array whose superblocks were all
written, and that is clean if it has parity, is not refused and reads in full, when the members not
given, cut, failing or bad are within what its level can lose. `IncompleteIsRefused`: an array that
says more images are wanted is never one that is read.

Bounds: RAID0 and RAID1 of two members, RAID5 of three, RAID6 of four, on four devices, so that
RAID1 has two spares and RAID5 one; event counts up to five (three for RAID6); one write, one image
at fault. Five events are what it takes for a member to fail, a spare to join and be rebuilt, and
the array to be marked not clean again; two in a row are what it takes for a stale member to be one
event behind. After `Stop`, `MCView` merges states that differ only in devices that were not given
or in how far back a stale member is beyond three events, which neither the program nor the
properties see. The machine stops, so deadlock is not checked.

Proved (`MdArray_proof`), for any arrays of these levels, devices, writes and faults: `TypeOK`,
`NothingStale`, `NothingMadeUp`, `AllThereIsIsRead` and `IncompleteIsRefused`. Assumed
(`MembersAssumption`): RAID5 has at least two members and RAID6 three. The inductive invariant of the
driver (`DriveInv`) orders what is on the devices: of two superblocks the one with more events knows
of each failure the other knew (`Earlier`, `History`); what a device says of itself is its role or
that it is being rebuilt (`Owns`); while a write is under way all devices of the array have a later
superblock than any that says clean (`UnderWay`); a device in sync has the last writes (`UpToDate`); one
that says it is up to date is, unless every device of the array says it failed (`FreshOrTold`); and
two that would be counted under one clean superblock are in step (`InStepWhenClean`, which is what the
one event of tolerance needs). After `Stop` nothing changes on the devices, and the four properties
follow from `DriveInv` and what `_md_assemble()` does with any choice of them (`Assembled`).

Left out of this module: RAID10 (its places and its count of copies are in `RaidGeometry`), linear,
0.90 superblocks (whose role table says "in sync" where 1.x has a flag on the member), members whose
superblock has another geometry, reshape and clusters (which are refused). The write journal is in
`PendingLog`.

### YAFFS2 and JFFS2

Both have the same form. The environment (`YaffsFlash`, `Jffs2Flash`) is the driver: it writes,
truncates, renames and deletes, collects garbage and erases blocks, and may leave one page or node
cut short. It keeps what the device held (`Held`) and, of each file that was deleted, what it held
and where. Its rules are those the comments of the code cite of YAFFS and Linux, at the lines the
comments name. A value is the file and the number of the write it came from, so stale or mixed
data shows. The reader (`Yaffs`, `Jffs2`) has no state of its own: it is what the scan makes of the chip, as
operators, and the invariants look at it in every state, which is a device that may stop after
any step. Sizes are counted in whole pages or ranges; names, modes and times are left out.

`Yaffs`: one object id, given to one file after another. The loop of `_take2()` over the chunks,
newest first, is in closed form: a page has its newest chunk (`Newest`, by sequence number of the
block and then by place, `Older`), if no newer header cut it off (`CutOff`: the newest header, and any
that shrinks the file or files it as deleted), and the size is the newest header's or
that of data written after it (`Stored`). `recover_deleted()` cuts the headers at each one that files
the object as deleted (`Life`), takes a last header of size 0 for the one that deleting wrote
(`CutByDelete`), and rebuilds from the chunks before that.

`Jffs2`: one inode number, given to one file after another, under any of the names of one directory. A
name says what its newest dirent says (`Target`), a file is cut to the size of its newest node (`Size`),
and each range is the newest node's that covers it (`Content`). `recover_deleted()` puts together the
nodes, marked obsolete or not, of a number no name reaches (`Left`), and refuses one with a gap or with
two nodes of one version.

Checked (`yaffs`): `ReadsAsHeld` (a file that is there reads as the device held it, and one that was
deleted is not listed), `OneLifeEach` (a file given back has no page of
another that had its id), `WholeIsGivenBack` (one whose chunks are all still there is given back,
if a header told its size: one deleted before its first header with a size, or whose deletion header
was collected before the next one came, is found only as empty). Checked (`jffs2`): `ReadsAsHeld`
(each name leads to the file the device had under it, with its contents), `WholeIsGivenBack`, and
`OneFileEach`: of whichever files have had the number, on NOR as on NAND, what is given back is one, as it
was when it was deleted, as long as no node of a file left under the number has been erased.

Proved (`Yaffs_proof`), for a flash, files and histories of any size: `TypeOK`, `ReadsAsHeld`,
`OneLifeEach` and `WholeIsGivenBack` of YAFFS2. Assumed (`FlashBounds`): the bounds are numbers, and
there is a block, a page of one and a page of a file. Here erased chunks cannot be kept in the
invariant: that a chunk may still be read depends on the headers that cut it off being still there,
so `IInv` speaks of the chunks on the chip and each erasure has to show what it takes away.

* `ChipType`: blocks in use differ in sequence number and the one being filled has the last, so
  `Older` is a total order and a new chunk is newer than all others; `LivesInOrder`: that order
  never goes back from one file to the one before.
* `FileKept`, `FileTold`: the driver's header is the newest, its chunks the newest of their pages
  with no newer header that cuts them off, and the size is in the header or in the last page.
* `HolesCut`: whatever chunk there is of a page that is a hole now, a header that shrinks the file
  comes after it and is on the chip; `EndsKept`: so is a header that ended a file, while a chunk of
  that file is. Both hold after an erasure only because `Collectable` keeps a shrinking header while
  the chip has anything older than it.
* `DeadTold`: for each file deleted, while its chunks are all there, they are among those of one life
  and tell what it held, whatever else of that life is erased or moved (`Tells`). Chunks are named by
  sequence number and place (`Mark`), and a name once past (`Past`) is never given to another chunk.

`ReadsAsHeld` is `ContentTold` with all the chunks of the chip, `WholeIsGivenBack` the same with those
before the header that deleting wrote, and `OneLifeEach` follows from the order of lives: what
`recover_deleted()` puts together stands between two ends, and `EndsKept` has each end of a life there.

Proved (`Jffs2_proof`), for any names, sizes of the file, nodes and files: `TypeOK`, `ReadsAsHeld`,
`WholeIsGivenBack` and `OneFileEach` of JFFS2 (the type is not checked by the run as well: the theorem
holds for its constants too). Assumed (`FlashBounds`): the bounds are numbers. The driver erases any
node it does not need, so an invariant about what the reader can see is not inductive. `IInv` speaks of
every node ever written, erased or not: the dirent the driver goes by is newer than all others of the
name that are left (`NamesKept`); of the file's nodes the newest tells its size, and the one the driver
goes by in each range supersedes all others (`FileKept`); the nodes of a file that was deleted go on
telling what it held (`DeadKept`, `Tells`). A scan of any subset that has the needed nodes then gives
one answer (`ContentTold`): that is `ReadsAsHeld`, with the nodes that are there for the subset, and
`WholeIsGivenBack`, with those that are left.

`OneFileEach` is of nodes that are all there (`LifeCounted`): a file that got the number later starts its
versions at 1 as the one before did, so two files whose nodes are all left have a version twice, and
`recover_deleted()` refuses them (10292). What that needs of the history is `Begun`: a file of which a node
is on the flash had its first.

One thing the code does otherwise than it says, not checked by a run. A file cut to 0, written again
and unlinked while it is open, before its header is written, is given back with the pages from before
the cut: the size-0 header was the file's own, and chunks after it say so, but `recover_deleted()`
takes it for the deletion's (11988), where README.md 2296 says the file is rebuilt from the chunks
written before its deletion. `OneLifeEach` leaves it out.

And one limit of what the code says and does. Two nodes of one number with one version are what 10247-10249
promises to refuse, and it does. Two deleted files that had one number can still be given back as one once
garbage collection has left no two nodes of them with one version; it takes NOR, where a number is free once
its nodes are marked. The promise does not speak of that case, and `OneFileEach` says exactly that no
other is left: until a node is erased, no two files are mixed.

Bounds: YAFFS2 with four blocks of two pages, five blocks taken into use, a file of two pages, two
files, two writes. A fifth block is what it takes to fill a block again and so for place to contradict
sequence; the second file is what it takes to reuse an id. JFFS2 with six nodes, each in an erase block
of its own, so that any node may go before any other; two ranges, two names, two files. Two names are
what it takes to rename or link. When the bounds are used up the driver stops, so deadlock is not
checked.

### Stores read as their writer left them

`AtomicStore` is the promise: a store goes through states 1, 2, ..., some of them known to be safe;
each opening shows one, whole, not older than the last that was safe then nor than one shown before.
A reader here has no state on the medium: it is an operator on what the medium holds, and `OpenCopy`
looks at it in any state of the writer and records what was `shown`, which is what the refinement
needs.

**VHDX log** (`VhdxDisk`, `VhdxLog`). The writer puts an entry into the ring, flushes, then writes the
table in place, and only then lets a later entry name a tail past it; what is not flushed reaches the
medium in any order or not at all, and the second session's log lies over what is left of the first.
The reader takes the current header (`Current`), checks entries (`ValidEntry`), finds sequences
(`Chains`, `Tails`), replays the active one (`FromTail`, `Overlay`) and refuses a file that is
shorter than it says (`Read`). Checked (`virtual_disks`): `IsAtomic`, that this implements `AtomicStore`, and
`RefusedOnlyBeforeFirstEntry`: a file the writer left is refused only between the header that opens a
log and the log's first entry. Bounds: two blocks, a log of four sectors, four entries of one or two
sectors, two sessions: the ring wraps, and entries of the old log stand between those of the new.

Proved (`VirtualDisks_proof`), for a log of any length, any blocks, entries and sessions: both,
`IsAtomic` step by step (`LogIsAtomic`). Neither is inductive: what is read depends on which writes have
landed. The invariant (`LogInv`, `LogIsKept`) is of the writer and the medium. Of the log: the entries
follow one another without a gap (`InOrder`), those from `Kept`, the tail of the last entry flushed,
have room in the ring (`Room`), and each of their sectors is on the medium or still pending
(`LogLanded`); any head the ring holds is of an older session or that of an entry of this one, in
its place (`RingKept`), so that nothing else can be taken for an entry of this log. Each entry says what it makes
of the table before it (`EntryKept`). Of the table: it has what is done, and of the entry being applied
any part (`BatKept`). Of the headers: one is whole and newer than the other, and what is written over
the other is decided by the phase (`PhaseKept`). `LogKeeps`, `LandKeeps`, `ApplyKeeps`, `FlushKeeps` and
the like: every step keeps it.

Of the reader: in such a state one number `l` is that of the last entry that can be reached (`Reached`),
all those from `Kept` to it being there and the next one not. A chain of the ring runs on to where the
next entry is not there (`ChainsAre`: the recursive function `chain` is what such chains satisfy, whose
numbers grow, so that it is well founded though the ring is not); the walk round the ring comes upon a
complete one that ends at `l` (`WalkFinds`), and none that ends elsewhere has a greater number
(`ActiveIs`); from its tail it tells entries `first` to `l` (`FromTailIs`), and over the table they make
the table that entry `l` made (`OverlayIs`). That table is in the file as `Extent` counts it, and the
file is as long as `l` says (`ReadLog`). `LookIs` puts it together.

**The newest copy** (`CopyWriter`, `NewestCopy`). QNX6's and ReFS's superblock or checkpoint, F2FS's and
APFS's checkpoint, Btrfs's superblock, LUKS2's header, LVM's metadata, the GPT, and of UBI and UBIFS an
erase block, the volume table and the master node: a writer makes a state as a plan of steps (`Plan`),
with a flush between two steps; the writes of a step reach the medium in any order, one may be torn,
with the version number of the old contents or of the new; after a power failure the writer goes on from
what it takes to be newest, and mends stale copies first. Each `Read...` is the choice of one reader.
Checked (`newest_copy`): `IsAtomic` and `IsAlwaysFound`. Bounds: five states after the first, three power failures:
enough for a copy to be torn twice between two that are whole. Assumed of the writers: GPT writes its
backup first (UEFI 5.3.2); a sector (LVM's header, the magic and versions of APFS's block zero) and an
erase are atomic; a tear of Btrfs's primary leaves its magic; the two copies of UBI's table are
rewritten one after the other; APFS's block zero is read by its magic without a checksum (6750). Ten formats
are checked with any block torn, F2FS (`Untorn`) only where a block is written at once.

With F2FS's blocks torn, `newest_copy_torn` ends in a violation of `PackWrittenWhole`: a pack that is taken
was written whole, which 2016-2017 says of one whose first and last block have one version. The reader
checks the versions alone (2013-2030), where Linux also checks both blocks' CRCs. Power fails as the last
block of a pack is written, which has the new version in its first half; Linux goes back to the other
pack by the CRC and makes the same version again, power fails once more with that version at the first
block and an older body under it, and the two blocks agree. Four states and two power failures are
what it takes.

Proved (`NewestCopy_proof`), for any of the eleven formats, any number of states and of power
failures: `IsAlwaysFound`, and `IsAtomic`, step by step. Assumed (`WriterAssumption`): formats are
those named and the bounds are numbers. Hypothesis of both (`TearsNoPack`): where the format is F2FS its blocks
are not torn, without which `IsAtomic` is false, as said; of the other ten nothing is assumed about
tears. Neither property is inductive: what a reader takes is a choice among copies
some of which are being written, and what the writer does next is decided by what it found.
`IInv` has a part that all formats share and one for each way of writing. `Common`: parts with one
id are one record, and the state being made is newer than any part but its own. Then, with `Known` a
part no older than what was safe or shown:

* `SerialInv` (QNX6, ReFS, APFS, LUKS2): one copy is known, whole and the newest, and the block being
  written is not it, or has the same state.
* `BtrfsInv`: of the copies still to be written one at most is torn. While that is the primary and no
  copy is new, the others are the known state; if one is new, the state made is known.
* `TableInv`, `GptInv`: the second copy is whole, and known, as long as the first is not; a GPT
  whose primary is a table by header and array is known by it.
* `F2fsInv`: one pack is whole and known, and the tail of the other is older until its head and body
  are new: that is what a torn tail breaks.
* `LvmInv`: each header names one of its two texts, only the other is written, and the first area is
  never behind the second.
* `UbiInv`: one erase block is whole and known, and the other is older or has data that does not match.
* `UbifsInv`: each block is a log whose last node counts; while the first is being written the second
  ends with a known state, and while the second is, the first ends with one and is not behind.

Each says what its reader takes (`SerialReads`, `UbifsFound` and the like), and that a writer that
starts again takes the same (`Found`), from which the rest of the plan follows; `Finish` is `Sync` of the
abstract store because with nothing under way the state made last is known (`MadeIsKnown`).

**Logs that are not replayed** (`LogWriter`, `PendingLog`). XFS's log and the write journal of md RAID5
in both its modes, as rings of blocks; several records are on their way at once, and their blocks land
in any order; what a record owes must be done in place before it is overwritten. The readers say whether
the log is clean: `XfsHead` by halving over the cycle numbers, `Found` and `XfsTail`; and the walk of
the journal (`Walk`, `Told`, `JournalDone`). Checked: `QuietOwesNothing`: a log of which nothing is said
holds no committed change that is not done in place; `StoppedIsQuiet`: one that was left in order is not
called dirty. Only what is safe is claimed: a clean log may be called dirty after a crash. Bounds: rings of
18 blocks for XFS and 12 for md, six records, two at once, one crash, two stripes. XFS may so have two
records on their way, or torn, behind one that is written and owed, with the eight blocks it keeps
free; both rings wrap. Assumed: XFS
leaves room before its tail (`Spare`; Linux leaves two records' worth). Without it a torn record can
make the head it finds equal the tail of the last whole one: the docstring (13104-13119) says the head
can be later than the kernel's, and the kernel's search for torn records (`xlog_verify_head`) is not in
the reader. Not modelled: the bounds of the searches (8192 blocks, `RAID_JOURNAL_WALK_MAX`), recovery,
which is one step, and RAID6's journal.

### Chains of virtual disks

`DiskHost` is a host that writes to a disk, zeroes a block, makes a snapshot over it (a file with
another for its base) or writes to a base that should not change any more; then files are copied into
two folders, some under another's name, one cut short. `DiskChain` is how a disk is opened and read:
what each format checks of a file (`HoldsVhd` and the like), where the base is looked for
(`Candidates`), whether a file is it (`IsBase`: by a VHD's identifier, a VHDX's DataWriteGuid or a
VMDK's content id), the search (`Open`, over one file `OpenOver`, of a candidate `Given`), and whence a
sector comes (`From`, `ReadFile`, `ReadSector`). QCOWX is QCOW with subclusters.

Checked (`virtual_disks`): `ReadsAsTheGuestLeft`: whatever lies in reach under a base's name and wherever
one was cut, a sector is as the guest left it or is refused, unless the format cannot tell (`Unsaid`: a
VHD keeps its identifier when written to, a QCOW names its base and no more, a raw file does not say how
long it is). `WhatIsThereIsRead`: a disk whose files are all in reach and whole is opened and read,
whatever lies beside them.

A candidate that is the wrong file is passed over; one that is of the right kind and cannot itself be
opened ends the search (5852), though the base may lie at the next place. `WhatIsThereIsRead` leaves
that out. Bounds: two blocks of two sectors, three disks, two writes, three files copied, one under a
wrong name or cut; `MaxParents` 2 (32 in the code), so that a chain can be too deep. One run has both a chain and a
VHDX log (`MCVirtualDisks`): they share nothing, and a behaviour is of one with the other at rest. Sectors are
alike, which is its symmetry. The host stops at its bounds, so deadlock is not checked here nor in the runs above.

Proved (`VirtualDisks_proof`), for any number of disks, versions, blocks, sectors, files and parents, of
every format: `ChainReadsAsTheGuestLeft`: `ChainSpec => []ReadsAsTheGuestLeft`. The invariant
(`HostInv`, `HostKept`) is of the host and of the copies: in each version of each disk what the guest
saw of a block is what the block's entry gives, or the version it was made over (`BlockKept`), a version
once left is not changed, and a copy is of one version, its end not past that version's
(`FileKept`). A chain that opens is one of files each of which is the one, in disk and version, that the
file above it records (`OpensAnswer`), unless the format cannot tell; read from its lowest file
upwards (`ChainReads`) a sector is the guest's or refused. `Open` and `ReadSector` are recursive
functions: that they meet their equations is shown by the least argument for which they would not
(`OpensExist`, `ReadsExist`), not by the library's induction.

`WhatIsThereIsAlwaysRead`: `ChainSpec => []WhatIsThereIsRead`, from one hypothesis, `MaxFiles <=
MaxParents + 1`: no more files lie about than may be opened over each other (33; a chain of more is
refused as too deep, so that without a bound the property is false; the run has 3 and 3). The argument
is of the sets of files that *suffice* for one to be opened (`Suffices`): whatever else is being opened
and however deep, it opens if none of the set is being opened and as many more may be as the set has.
That is what makes the loop check and the depth check harmless. A file that opened once did so by such a
set, of files of its folder or below it (`AllAlwaysNeedFew`); a file that is needed opens by a set of
those below it and of the wrong ones that lie in the folder where it looks first (`NeededHasNear`),
those of that folder first and the others over them (`AllHaveNear`). `HostInv` says for it that a
version is only made over a disk of a lower number. `Complete` is a recursive function of paths that
need not end in a lowest one, so that what it is is shown by a solution of its equation, the greatest
(`Provided`, `CompleteIs`). That an opened file is read to the end needs the copies to be whole
(`SectorIsRead`).

## What is proved and what is only checked

Proved for all values of the constants: the safety invariants of `Extraction` and that its steps, but for a
copy that fails, are those of `ZipPromise`; those of `Window`; those of `DiskChain`; that of `VhdxLog` and its refinement of
`AtomicStore`; the invariants of `RaidGeometry` for every md level, on the stripes of `RaidStripe`, and
for LVM volumes, on `LvmLayout`; those of `MdArray`; those of `Yaffs`; those of `Jffs2`; that of
`NewestCopy` and its refinement of `AtomicStore`. Each is from the assumptions named with it above,
which TLC evaluates in every run; the hypotheses of single theorems (`Unshared`, `TearsNoPack`,
`MaxFiles <= MaxParents + 1`) hold in the runs.

The rest is model-checked:

* liveness (in `window`): fairness and ENABLED are out of the prover's reach;
* `GroupIsAccountedFor` of `FreeSpace`: it counts sectors over sets and sorts extents, by operators of the
  community modules that the provers cannot expand;
* `QuietOwesNothing` and `StoppedIsQuiet` of `PendingLog`: its readers search two rings by halving and walk
  them from record to record, as `VhdxLog`'s walks its own.

## Plan

In order of what matters most. Each stage ends with its runs passing and its properties rejecting a
plausible bug.

1. Built: extraction, window, RAID geometry, md arrays, YAFFS2 and JFFS2 with their deleted files,
   LVM volumes and the export of free space, stores read as their writer left them, logs that are not
   replayed, chains of virtual disks, and the theorems above.
2. Theorems worth proving next: of `PendingLog`, with the walks along its rings as recursive functions,
   as `VhdxLog`'s are; `WrittenIsFree`, with the extents in use in order as the heights of RAID0 are
   (`Ascending`).
3. Then: UBIFS's `_replay`, YAFFS1 and ETFS; RAID10 and 0.90 in `MdArray`, and LVM RAID over it; the
   split of a region into two JFFS2 filesystems (`jffs2_filesystems`) against the best of all cuts; the
   image layer, `SegmentedImage` and the containers' chunk cache against an abstract image whose reads are
   pure; BitLocker's sector map; the walk of the tree; names of zip members; the window's
   `expand()` and `save_file()`.

One thing of `ewfprobe.py` to look at with the chunk cache: `padded_zeros_read` counts zeros given for
parts an image lacks, but a child disk's chunk made from its parent's padded zeros and read again
from the child's cache is not counted again (7555).

## Not modelled

Not planned: the ciphers, decompressors and checksums (pure functions of their input; where they decide
something, as in the choice of a copy, the models say whether they match), the wording of the
report, triage tables, self-tests and fixtures. The trees and directories of the filesystems (NTFS, ext,
FAT, HFS+, XFS, Btrfs, APFS, ReFS, Squashfs and others) are most of the code: they are decoding of
fields, whose correctness is against a format and not against another part of the program, and their
state is what they have decoded. Of these the models have the parts where a state left by a writer, or
damage, decides what is read. The evidence containers (EWF, AFF, AFF4, AD1, DMG) are the same but for
their chunk cache.
