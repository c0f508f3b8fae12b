# Verification of the PetBot Buildroot tree

This directory holds TLA+ models of the parts of this repository that carry
logic of their own, the TLC configurations that check them on small instances,
and TLAPS proofs of their main safety properties for all instances.

The repository is a Buildroot distribution for an Allwinner A20 board, turned
into the image of a robot, the PetBot. Most of it is recipes (`package/*/*.mk`),
configuration menus, patches and vendored sources. What follows is about the
code that decides something.

## 1. The system

| Part | Code | State it keeps | Operations | Talks to |
|---|---|---|---|---|
| Package infrastructure | `package/Makefile.package.in`, `Makefile.autotools.in`, `toolchain/patch-kernel.sh`, `Makefile` | stamp files, build directories, `DL_DIR`, staging and target trees | eight steps per package; uninstall, clean, dirclean; the goals world and source | download sites, each package's own build system, the user between two makes |
| Flashing, boot check, recovery | `target/linux/extras/online_check.sh`, `bin/setup_to_emmc.sh`, `bin/recover_from_emmc.sh`, `etc/init.d/rcS`, `etc/inittab`, `etc/fstab` | partition table, file systems and contents of the eMMC, the file `recovery_partition`, mounts | flash from the SD card; mount and repair at boot; rewrite p2 from p3 | boot loader, power, the user's card and button |
| Root filesystem images | `fs/common.mk`, `fs/ext2/genext2fs.sh` | one image per type | pack the target tree under fakeroot | the package infrastructure, before it |
| Configuration language | `package/config/{symbol,expr,confdata,menu,conf}.c`, `Makefile:369-603` | symbols with their values and flags, `.config`, `auto.conf`, `autoconf.h`, the headers of single symbols | read, compute, ask, set, write; nine targets | every recipe, through `.config`; make, by the age of `auto.conf` |
| FAT checker | `package/fsck_msdos/fsck/*.c` | copies of the FAT and the directories on the card; the FAT in memory, the directory tree, the flags that become the exit status | compare copies, follow chains, check entries, reconnect lost chains, write back | the card, the user's answers |
| Image tools | `package/ext4-utils/src/*.c` | block groups with their bitmaps, the regions of the inode being made, list of backed blocks, the output file | lay out groups, allocate blocks and inodes, queue contents, write plain, gz and sparse images, expand sparse ones | the flashing tools, by files |
| I/O benchmark | `package/tiobench/src/tiotest.c` | threads, the start flag, one status word per thread | start, barrier with a timeout, join | pthreads |
| Toolchain and other recipes | `toolchain*/`, `linux/linux.mk` | private stamps | vendor build systems | the package infrastructure |
| Small tools | `makedevs.c`, `lcd-test`, `tp-test`, `sw-tools`, `target/skel` | none that lasts | device I/O | |
| Application firmware | `package/a20-petbot-firmware/` | in another repository | a recipe that clones it | |

What is hard in it:

* *package infrastructure*: make is serial (`.NOTPARALLEL`), but a run can break
  off anywhere: in a transfer, half way through a patch series, between the work
  of a step and the `touch` of its stamp. A later run has only the stamps to go
  by. In between, the user removes stamps, archives and build directories.
* *flashing and recovery*: power goes at any moment, background jobs fail without
  anyone asking, each script checks some commands and not others, and the
  recovery can be started again from three different half-finished states. The
  image being written may be the one the board has to boot next.
* *kconfig*: values depend on each other through `depends on`, `select` and
  choices, and are cached; an answer can show new questions or hide old ones; what
  is written must read back to the same configuration, also after the Config.in
  files have changed; and a run can be killed between any two renames.
* *fsck_msdos*: repairs of two kinds, of directories and of FATs, reach the card
  at different times; any of them may be refused, any write may fail, and the
  next check starts from what the last one left.
* *ext4-utils*: allocation at the boundaries of groups, blocks given back in the
  middle of a list of regions; a queue whose order depends on the order of the
  calls; a file that grows in place and is trusted by another program later.
* *tiotest*: all threads must start together, or the barrier gives up after 30
  seconds; threads share devices, buffers and counters from test to test.

The hazards of the code, each at its line and with the properties that guard
against it, are listed in `PROJECT.json` under `hazards`.

## 2. Modules

| Module | What it is |
|---|---|
| `PackageBuild` | the package infrastructure |
| `MCPackageBuild` | its instance for TLC: three packages |
| `PackageBuild_proofs` | proofs about it |
| `PetbotDeploy` | flashing, boot check and recovery |
| `PetbotDeploy_proofs` | proofs about it |
| `Tiotest` | the I/O benchmark |
| `MCTiotest` | its instance for TLC: two threads |
| `Tiotest_proofs` | proofs about it |
| `FatCheck` | the FAT checker |
| `MCFatCheck` | its instance for TLC: damaged cards of four clusters |
| `FatCheck_proofs` | proofs about it |
| `Ext4Layout` | the extents of an ext4 image: what `Ext4Alloc` hands to `SparseImage` |
| `Ext4Alloc` | which blocks of an ext4 image are whose |
| `MCExt4Alloc` | its instance for TLC: eleven sizes of file system |
| `Ext4Alloc_proofs` | proofs about it: types, and where everything is |
| `Ext4Owners_proofs` | proofs about it: whose the blocks and the inode numbers are |
| `AtomicImage` | abstract: there is no image, and then there is the whole one |
| `SparseImage` | the image file from `make_ext4fs` through `simg2img`; implements `AtomicImage` |
| `MCSparseImage` | its instance for TLC: every order of queueing |
| `SparseImage_proofs` | proofs about it |
| `Kconfig` | the configuration language under `conf` |
| `MCKconfig` | its instance for TLC: five small Config.in trees |
| `Kconfig_proofs` | proofs about it |

Operators commented "Seeded fault" are plausible bugs, beside the definition
they would replace. Nothing uses them; each is what breaks one property, and
shows that the property depends on that line of the code.

### 2.1 PackageBuild

`make` is sequential, so one step of a package is one action, guarded by what
the Makefile looks at: the absence of its stamp and the presence of the stamps
of everything the prerequisites name. The environment interleaves.

| State | In the code |
|---|---|
| `archive`, `clone` | the file `$(DL_DIR)/$($(PKG)_SOURCE)`, and the clone next to it |
| `tree`, `origin` | the build directory: how far extraction and patching got, and from what archive |
| `output` | steps whose products are complete on disk |
| `stamps` | the `.stamp_*` files |
| `goal`, `phase`, `ran` | the command line of the current make, how it stands, and which stampless targets it has visited |
| `faults`, `ops` | bounded numbers of failures and of user operations |
| `stale`, `suspect` | history only, read by no guard: products older than a later run of an earlier step; packages on which something other than a forward step left stamps behind |

| Actions | In the code |
|---|---|
| `Download`, `DownloadTorn`, `DownloadBreaks`, `DownloadRefused` | `DOWNLOAD` and its `test -e` chain over primary site, site, backup site; wget and git |
| `Extract…`, `Patch…` | `.stamp_extracted`, `.stamp_patched` with `patch-kernel.sh` |
| `RunStep`, `BreakStep` | `.stamp_configured`, `.stamp_built` and the three install stamps, with the commands of `Makefile.autotools.in` |
| `Uninstall…`, `Clean…`, `DirClean…` | `p-uninstall`, `p-clean`, `p-dirclean` |
| `StartMake`, `Finish`, `Interrupt` | a run of make |
| `RemoveStamp`, `RemoveDownload` | the user, in the ways the documentation describes |

Each step has three forms: it works, it cannot work in this state, it breaks.
"Breaks" leaves every intermediate state the commands pass through, so that a
kill during a step needs no action of its own.

### 2.2 PetbotDeploy

Every command of the scripts that changes a disk, a mount or the verdict is an
action named after it; `pc` is the command that runs. The five background
formats and the two background image copies are `jobs`, which end in any order.

| State | In the code |
|---|---|
| `card` | a card in the slot (`/dev/mmcblk1`) |
| `root` | the device `/` is on |
| `table`, `loader`, `fs`, `data` | partition table, boot loader, file systems and their contents on the eMMC |
| `marked` | partitions with `/recovery_partition` on them |
| `dhclient` | `/config/dhclient.conf` |
| `mounted` | `/config` and `/update` |
| `dirty` | what is written and not yet out of the page cache |
| `status`, `verdict` | exit status of `setup_to_emmc.sh`; what was announced |

Contents are blank, partial, whole, or `firmware`: the whole firmware tree where
its `config` directory belongs, which is what `online_check.sh:40` copies. A
failing command leaves its target untouched or half written. A wipe that fails
leaves the partition table of an earlier flash: the fdisks after it then find
partitions made (`Leftovers`). What is written stays dirty until a sync or the
umounts of halt (`SwitchOff`), also when a recovery has failed. A power cut spoils
what is being written and what is dirty: `mkfs` first destroys the old file
system, ext4 keeps its structure and may lose recent files, a vfat or a
half-written image may or may not mount.

The boot loader is outside this repository. With a card it starts the card,
without one p2 or p3, whichever the user chose.

### 2.3 Tiotest

The main thread has a `pc` over the statements of `do_tests` and `do_test` that
other threads can observe; a worker is none, created, spinning, in I/O or ended.
An I/O operation of one block is one step of its thread.

| State | In the code |
|---|---|
| `args` | `-R`, `-O`, `-W`, `-c` and the tests `-k` left |
| `test`, `i`, `start` | the test `do_tests` is at, the loop variable and the flag of `do_test` |
| `thread` | how far each thread is; announced (`child_status`) from "spinning" on |
| `op`, `moved` | the loop variable of a test function, and `blocksWritten` and its like, summed over threads |
| `timer` | `totalTimeWrite` and its like: untouched, running, stopped |
| `files`, `disk` | test files that exist; whose data is in each block |

| Actions | In the code |
|---|---|
| `SkipTest`, `StartTest`, `NoMemory` | `do_tests`, and `do_test` up to the loop |
| `Create`, `CreateFails`, `JoinOne`, `AllCreated` | the loop that creates the threads, with `-W` one after the other |
| `Poll`, `StartTimer`, `Open`, `Join` | the barrier, the clock, the flag, `wait_for_threads` |
| `GiveUp`, `JoinLate` | the way out after 30 seconds |
| `Finish` | `cleanup_test` |
| `Announce`, `Begin` | `start_proc`, and how a test function opens its file |
| `Write`, `WriteBreaks`, `ReadBlock`, `CrcError`, `ReadBreaks`, `End` | the loops of the four test functions, with short and failing calls |

A block holds the data of a thread's buffer, something else, or nothing (beyond
the end of a file). The buffers of the threads differ and do not change while
they matter: reads into them come after the last write. Two different buffers
have different checksums.

### 2.4 FatCheck

One check is `checkfilesys` from the first `readfat` to its exit status. The card
survives it, and the next check starts from what is there. A step is as much as
lies between two questions or two writes; every question the code asks is a
choice between the answers the mode allows (`Answers`).

| State | In the code |
|---|---|
| `root`, `compare`, `mode` | `boot.RootCl`, `boot.ValidFat` as far as it says whether copies are compared, `-y`, `-p`, `-n` or neither |
| `fats`, `dirs` | on the card: the copies of the FAT with their signatures, the entries of every cluster |
| `phase`, `at` | where `checkfilesys` is: copy, chain or entry |
| `fat` | `struct fatEntry[]`: next, head, length, `FAT_USED` |
| `mod`, `tree` | the `FS...` flags of `checkfilesys` and of `handleDirTree` |
| `dir`, `buf`, `todo` | the directory being read, its buffer, `pendingDirectories` |
| `lost`, `lf` | `lostDir`, and the cluster of it that `reconnect` last read (`lfcl`, `lfbuf`) |
| `sig`, `exit` | signature that `writefat` writes; exit status |
| `kept` | history: files the damage does not touch when the check begins |
| `looked` | history: the check did not stop at the mark of a clean card, as `-p` does (`check.c:95-99`) |

| Actions | In the code |
|---|---|
| `Load`, `MarkChains` | `readfat`, `comparefat`, `checkfat` up to its second loop |
| `BrokenChain`, `CrossLink` | `checkchain` and the cross links of `checkfat`, with `tryclear` and `clearchain` |
| `OpenRoot`, `ReadFile`, `BadSubdir`, `ReadDots`, `ReadSubdir`, `EndCluster` | `handleDirTree`, `readDosDirSection`, `checksize`, `check_dot_dot` |
| `Reconnect`, `NotReconnected` | `checklost`, `reconnect` |
| `UpdateFats`, `writefat`, `MarkClean`, `Exit` | the end of `checkfilesys`; a copy of the FAT that cannot be written may be half written (`Torn`) |
| `DirWriteFails`, `Kill` | a write of a directory that fails; the checker is killed, half way through a copy of the FAT at worst |

### 2.5 Ext4Alloc

`make_ext4fs()` up to the moment at which everything is queued. It is sequential
and fails at once (`error()` exits); what varies is the size of the file system
and the tree. Positions are blocks.

| State | In the code |
|---|---|
| `shape` | `info` and `aux_info` as far as blocks and inodes are placed by them |
| `groups` | `aux_info.bgs`: `first_free_block`, `free_blocks`, `data_blocks_used` as far as it is zero, `first_free_inode`, whether `inode_table` exists |
| `job` | the `block_allocation` of the inode at hand: what is still missing, its regions |
| `inodes` | what each inode has got: extents, count in the extent header, extent block |
| `phase`, `at`, `queue` | where `make_ext4fs()` is; what `queue_data_block` and `queue_data_file` were called with |

| Actions | In the code |
|---|---|
| `ext4_fill_in_sb`, `reserve_inodes` | the functions of that name |
| `OpenSpecial`, `OpenNew`, `NoInode` | `get_inode` for the journal, the resize inode and the root; `allocate_inode` for the rest of the tree |
| `Contiguous`, `Partial`, `Spin`, `NoRoom` | `do_allocate`: in one piece, or all of an empty group at a time; no progress; nothing left |
| `AttachInline`, `AttachLeaf`, `AttachResize`, `AttachLink` | `do_inode_allocate_extents` with `reduce_allocation` or `reserve_oob_blocks`, `inode_attach_resize`, `inode_allocate_data_indirect` |
| `Finish` | the tree is complete |

### 2.6 SparseImage and AtomicImage

`make_ext4fs` from the queue to the closed file, in the three formats, and
`simg2img`. The contents of a block are named by the place they are meant for, so
that a block in the wrong place shows; a checksum is the sequence it is over.

| State | In the code |
|---|---|
| `layout`, `format` | what is to be written, and how |
| `heap`, `unmapped` | what `malloc` hands out to `simg2img`; extents at a place in their file that `mmap` refuses |
| `queue`, `last` | `data_blocks`, `last_used` |
| `phase`, `at`, `ptr`, `sum`, `why` | `write_ext4_image` and the `output_file`: `cur_out_ptr`, `crc32` |
| `head`, `chunks`, `flat` | the file: header and chunks, or blocks |
| `reader`, `chunk`, `pos`, `total`, `rsum`, `out`, `zerobuf` | `simg2img`: chunk, output position, `total_blocks`, `crc32`, its output, and the block it takes for one of zeros |
| `lost` | history: a write of the output failed and nobody was told |

| Actions | In the code |
|---|---|
| `Begin`, `queue_db` | a run of `make_ext4fs`; `queue_db` |
| `open_output_file`, `WriteSuper`, `WriteDesc`, `WriteData`, `pad_output_file`, `close_output_file` | `write_ext4_image`, with `emit_skip_chunk` and `write_chunk_raw` |
| `StartReader`, `ReadChunk`, `EndReader` | `simg2img` |
| `WriterDies`, `ReaderDies`, `Damage` | a kill or a failed write that is noticed, a damaged file |
| `CloseLoses`, `SeekLoses`, `EndLoses` | a write that fails in `close` or `gzclose` (`output_file.c:85`, 124), in the `fseek` over a gap (`simg2img.c:91`) or in `fclose` (209-210), where the code does not look |

`AtomicImage` has one action: the image appears, and it is the whole one unless a
write of it was lost without the tool being told. `Store` instantiates it with the
refinement mapping: the image is there when `simg2img` accepted the file, or when
`make_ext4fs` ended well with a plain or gz file.

### 2.7 Kconfig

`conf` and the targets of the Makefile that call it. The Config.in files are data:
`menu_finalize` turns a list of entries into what the program works with, with children,
conditions, values of choices and reverse dependencies. A symbol may be a menu at the
same time (`menuconfig`, the `menu` of an entry): `conf` then goes through it as it goes
through a menu (`Folded`). The recursion of `conf` and `check_conf` is a stack, one step
an entry.

| State | In the code |
|---|---|
| `lang`, `e` | the Config.in files, which change between runs, and their entries as `conf_parse` leaves them in memory |
| `config`, `minimal`, `auto`, `header` | `.config`, the file of savedefconfig, `auto.conf`, `autoconf.h`: each a function from names to values |
| `fresh`, `touched` | `auto.conf` is newer than `.config` (`Makefile:369`); the headers of single symbols that were touched |
| `mode`, `phase` | `input_mode` with `sync_kconfig`; where `main` is |
| `mem` | per symbol: `SYMBOL_DEF_USER` (`has`), `def[S_DEF_USER]` (`def`, `pick`), `SYMBOL_WRITE` (`write`), what was computed since the last `sym_clear_all_valid` (`sol`); and the change count |
| `stack`, `again`, `rootEntry` | calls of `conf` and `check_conf`; `conf_cnt`, `rootEntry` |
| `tmp` | `.tmpconfig.<pid>` |
| `ours`, `saved`, `goal`, `wish`, `excused` | history, for the properties |

| Actions | In the code |
|---|---|
| `Config`, `OldConfig`, `SilentOldConfig`, `SaveDefConfig`, `DefConfig`, `AllConfig` | the targets: reading and what is set before any question |
| `SkipHidden`, `CheckOld`, `CheckNew` | `check_conf` |
| `ConfText`, `ConfMenu`, `ConfOld`, `ConfOldChoice`, `Ask`, `Return` | `conf`, `conf_sym`, `conf_string`, `conf_choice`, the loop of `main` |
| `AnswerBool`, `AnswerString`, `AnswerChoice`, `Abort` | the user; `check_stdin` |
| `WriteTmp`, `RenameOld`, `RenameNew` | `conf_write` |
| `conf_split_config`, `RenameHeader`, `RenameAuto`, `conf_write_defconfig` | the functions of that name; the renames of `conf_write_autoconf` |
| `Kill`, `Upgrade` | a kill anywhere, which leaves the file of savedefconfig as it was or any beginning of the new one (`Begun`); newer or older Config.in files |

`sym_calc_value` is written as the function of the inputs that the lazy evaluation
of `symbol.c` computes; that enough is declared invalid whenever an input changes
is what `Solved` is about. The model was compared with the compiled `conf` on the
first four trees of the instance: for each target, each first `.config` and each
sequence of answers both write the same file; and on the fifth, `Deep`, for what it is
there to show (3.7).

The values of the entries are one function defined by recursion over what each entry
needs (`SymValue`, `Needs`), which is why `LanguagesAssumption` asks for Config.in
files without recursive dependencies (`sym_check_deps`).

### 2.8 How they fit together

`Ext4Alloc` and `SparseImage` are two halves of one program run, and meet in
`Ext4Layout`: `SparseImage` assumes of its layouts that they are `Fits`
(`LayoutsOK`), and `Ext4Alloc` promises that of what it hands over (`HandsOver`,
proved for every shape). Since the first half ends before the second begins, the
composition needs no module of its own.

The other components meet only through files: `make` builds `tiobench`,
`fsck_msdos` and `ext4-utils` into the image or for the host, and the image is
what the PetBot scripts flash. No module composes them.

## 3. What is checked

| Run | Question | Result |
|---|---|---|
| `package_build` | Are stamps honest, is the image complete, what can stop a repeated make? | holds |
| `petbot_deploy` | What do the announcements vouch for, does the recovery system survive, does it bring the board back? | holds |
| `tiotest` | Is the measured time that of the tests, is nobody left behind, does `-c` find only faults? | holds |
| `fat_check` | Does exit 0 of a check that looked mean a consistent card, are intact files kept, do repeated checks come to rest? | holds |
| `ext4_alloc` | Has each block one owner, do the counts agree, are files whole, is what is queued a layout? | holds |
| `sparse_image` | Do the tools hand over the whole image or none, but for writes lost where nobody looks, and in the end the image? | holds |
| `kconfig` | Does what is written follow from what was said, is it read back, does `auto.conf` follow it, do the questions end? | holds |
| `offline_sources` | Does `make source` leave whole archives? | violated |
| `removed_configure_stamp` | Does removing `.stamp_configured` recompile? | violated |
| `requested_revision` | Does the git method build the requested revision? | violated |
| `flash_announcement` | Does "flashing complete" mean the script succeeded? | violated |
| `raw_random_write` | Does "crc read error" mean an I/O error? | violated |

### 3.1 Properties of PackageBuild

* `HonestStamps`: every stamp stands for a product that is on disk and no older
  than the steps before it, however often make broke and was run again.
* `ImageComplete`: when make world ends well, each package is installed in its
  newest build, from a whole archive.
* `CompileSound`: no package is configured or compiled in a tree that is not
  completely patched or before everything it needs is installed.
* `SettlesOrWedges`: a user who keeps running make gets the image, or a package
  is in one of the four states of `Wedged`, each of which needs a hand: a
  fragment taken for an archive, an archive removed behind its stamp, a left-over
  clone, a partly patched tree.

The first three leave out packages in `suspect`. That set is a statement in
itself: an interrupted uninstall, clean or dirclean, a stamp removed by hand, and
`clean` of a host package (whose `.stamp_host_installed` nothing removes) leave
stamps that promise too much. `dirclean` takes a package out of it again.

Instance: an application from git, a patched library with staging and target
installation, a host tool; the application needs both, the library the tool.
This has every kind of package, a direct and an indirect dependency, and a
package without patches. One failure and two user operations: each property is
about a state one failure leaves behind and what the runs after it make of it;
two operations are enough to clean and then remove a stamp or fetch sources.
Sites: the default configuration, a backup site and no primary one.

Fairness: `WF(Progress)`, make runs as long as it has something to do, and
`WF(StartMake(World))`, the user runs it again whenever it stopped. Nothing is
assumed of downloads: after the bounded failures they work.

### 3.2 Properties of PetbotDeploy

* `FlashChecked`: exit 0 of the flashing script still vouches for a complete
  boot partition, mountable recovery and config partitions, and a complete
  config if the recovery system is complete, with every unchecked command.
* `NothingWrong`: without a failure both systems are there after flashing, and
  only p2 ever serves, with its own config and update.
* `RecoveryVerdict`: an announced recovery has made p2 and p5 copies of the
  recovery system and p6 mountable, whatever earlier attempts left.
* `GoldenKept`: only a new flash takes a complete recovery system away.
* `Recoverable`: as long as there is one, p2 becomes a complete copy of it again,
  wherever power went in earlier recoveries.

Bound: up to three failed commands or power cuts in a board's life, with any
number of flashes, boots and recoveries. Two are needed for a recovery that
starts again from a p2 an earlier one left behind; the third adds a failure of
that second recovery.

Fairness: commands end (`WF(Script)`); the user does not leave a stopped board
on (`WF(SwitchOff)`) or the card in its slot (`WF(RemoveCard)`), and keeps
starting the recovery partition while it can be started (`SF(Boot("p3"))`,
strong because switching off and on disables and enables it). The last is the
user pressing the button; the code cannot promise recovery to one who does not.

### 3.3 Properties of Tiotest

* `MeasuredWork`: a thread works only while the clock of its test runs, and only
  after the last thread is up; except after the barrier was given up.
* `Unfragmented`: with `-W` there are never two threads in the write test.
* `NoStragglers`: between tests, and at the end, no thread is alive.
* `NoFalseAlarm`: the consistency check of files, or of devices that were not
  written to at random, fails only if a drive did.
* `AllMoved`: without a fault every test moves all its blocks, in every order of
  the threads, and also when the barrier was given up.
* `Ends`: the program ends.

Instance: two threads, which on raw devices share one. Three blocks, because
random operations reach all but the last and two are needed for a choice; one
random operation; an offset of one block, so that `-O` matters. All selections of
tests run with the check, since a test depends on what the earlier ones left on
the disk. One fault: a failing call or wrong data.

Fairness: `WF(Main)` and `WF(Thread(t))` for each thread. The main thread sleeps
or blocks in a join, spinning threads call `sleep(0)`, and the others block in
I/O: none can keep another from running. Whether the barrier is given up is left
open: the model does not say how long 30 seconds are.

### 3.4 Properties of FatCheck

* `OkMeansSound`: exit status 0 of a check that looked at the FAT is given to
  consistent cards only. `Sound` says what that is without the steps of the checker:
  chains that do not meet and that end, none of them lost, entries of the right size,
  `.` and `..` in place. `-p` also gives 0 to a card it does not look at
  (`check.c:95-99`); that vouches for the mark in the first copy of the FAT and for
  nothing else, and the property says so. Two entries that start at one chain, both
  of the right size, are not told apart by the code, and `Sound` lets them pass.
* `NothingPending`: without an error, what was decided about the FAT is on the
  card in every copy.
* `InnocentKept`: a file that no damage has reached keeps its entry and its chain
  in every copy of the FAT, at every moment, whatever the answers are.
* `ReadOnly`: with `-n` the card is never written.
* `Settles`: checks end, and repeated they come to one that looks and finds nothing,
  except those that walk an endless chain for ever (below).

Instance: four clusters, two copies, directories of three entries. Four clusters
are enough for two chains that run into each other beside a directory, for a
chain into itself, and for a lost chain that needs LOST.DIR. The cards are sound
ones of four kinds (nested directories, LOST.DIR, FAT32, no room), damaged in one
or two cells or entries, in one copy or in both, with all values a cell can have;
every mode; one kill or failed write in any of the checks.

Fairness: `WF(Check)`, somebody runs the check again until it is content, as the
mount scripts do. For a FAT32 root directory whose own chain is damaged, the fix
of the code writes a free mark again, so `Settles` speaks of fixed roots.

Seen on the way, in no run, because no comment or document denies it:

* With `-n`, or after a refusal, an endless directory chain makes the walk endless
  (`dir.c:551`; `fat.c:471` says that chains were checked for that before).
* The loop that hands over the common part of two chains changes what it walks
  along (`fat.c:527-538`).
* `checksize` calls `clearchain` on a cluster in the middle of a chain, which does
  nothing (`dir.c:426`); the clusters cut off are free only after the next check.
* Exit status 4 (modified) is also given if the user refused to update the FATs
  (`check.c:220`). An odd signature of the FAT only sets `FSFIXFAT`.
* Two entries with the same start are not noticed unless one of them has the
  wrong size for it. `FSNext == NumClusters` passes the test of `fat.c:705`.

### 3.5 Properties of Ext4Alloc

* `NoBlockTwice`: no block belongs to two inodes, to two extents, to an extent and
  an extent block, or to a header, although blocks go back to the pool and the list
  of regions forgets which was allocated last (`allocate.c:456`).
* `CountsRight`: what is free in a group is its end, down to the last block that
  belongs to something, and no block behind the end of the file system is free.
* `WholeFiles`: the extents of an inode hold its contents, none is empty, and the
  count in the header is the number of extents.
* `InodesFindable`: no number twice, each marked in its group, each table queued.
* `HandsOver`: what is queued in the end is a layout for `SparseImage`.
* `Ends`: the tree is completed or refused, unless a group is a header only.

Instance: groups of nine blocks, with a header of six where there is a copy of the
superblock and of three elsewhere. The eleven shapes have a last group that is full,
cut, dropped or a header only, with and without boot block, with and without
journal, up to seven groups (group 2, 4 and 6 have no copies), and too few inodes.
Files have 0, 4, 9 or 16 blocks: none, part of a group, more than any group, and
enough for four regions, which need an extent block. A long link asks for five
blocks, standing for the 4096 and five of the code (below). Every tree of up to six
inodes (`MaxInodes`), the special ones included.

Fairness: `WF(Next)`, the program runs.

Left out as inputs (`Sound`): sizes with 1K blocks for which the size of the last
group is computed wrongly (below). `EveryLengthSound` shows that with 4K blocks,
the only size that `compute_block_size` chooses, none is left out.

Seen on the way, in no run:

* `last_group_size` forgets the boot block that 1K blocks leave before group 0
  (`ext4_utils.c:137`).
* A last group of exactly its header never has data, so that `ext4_allocate_partial`
  offers it for ever when the disk is full: regions of no blocks, without end
  (`allocate.c:371`).
* Step 3 of the comment at `allocate.c:445` puts the last blocks in the first group
  they fit in; the code gives up when no group without data is left, although the
  rest would fit (`NoRoom`).
* `inode_allocate_data_indirect` takes bytes for blocks, so a link of 60 characters
  or more takes some four thousand blocks, and never connects them to its inode,
  against its comment (`indirect.c:480-482`, 489).
* The test of the capacity of an extent block divides before it subtracts
  (`extent.c:128`). `advance_list_ptr` never moves `list->iter`
  (`allocate.c:611-630`); only code that nothing calls depends on it.

### 3.6 Properties of SparseImage

* `Atomic`: whatever the order of queueing, whoever died, whatever happened to the
  file, what is handed over is exactly the image, and stays it (`AtomicImage!Safety`);
  except after a write that the tool which hands it over lost without looking. Of a
  sparse file this can only be `simg2img`: what `make_ext4fs` loses of one it notices.
* `Delivers`: images that can be made are made in the end (`AtomicImage!Delivery`), if
  a sparse one has no gap or `malloc` hands out zeros (`Sure`, below).
* `InOrder`: no write is refused as out of order, though the search for the place of
  an extent starts in the middle of the queue.

Instance: six blocks; every order of up to three extents of one or two blocks, and the
cases of the last block: full or not, from a file or a buffer. Three extents are needed
to start the search behind, at and before the right place. Two regions of a file, each
of which may be one that `mmap` refuses; a heap of zeros and one of anything. One
mishap: a death, a damage or a lost write. `HalfBlocks` and `WideLong` are about a step
of `simg2img` (below).

Fairness: `WF(Work)`: whoever wants the image starts the tools again after they
died or refused. The checksum is taken to be free of collisions.

Seen on the way, in no run:

* `simg2img.c:84-93` seeks in steps of 2^31 given as a `long`: with 32 bits they go
  backwards. `HandsOverWhole` assumes 64 bits or no such gap; the run has 64.
* `write_data_file` refuses a file that ends with the file system (`>=` in
  `output_file.c:391`, `>` in 366). It maps the file at the offset of the extent
  (`output_file.c:403-408`), which `mmap` refuses inside a page: with 1K blocks, a file
  in several regions. A sparse image whose length is no multiple of the block size
  always fails at the padding, a gz one if the last block is full. `Possible` names
  these.
* `zerobuf` is allocated and never cleared (`simg2img.c:98`, 156), and the checksum of
  a gap is taken over it. If `malloc` hands out a used block, `simg2img` refuses a sound
  sparse file with a gap, each time it is run. It never accepts a wrong one for it.
* A plain image loses its last byte to the padding (`KEN TODO` at the place).
* `make_ext4fs` returns 0 whatever `write_ext4_image` did, and does not look at the
  results of `close` and `gzclose`, nor `simg2img` at those of `fclose` and `fseek`: a
  plain or gz image, and the output of `simg2img`, can be cut short by a full disk
  although the tools end well. `lost` marks these runs. Nothing is forced out to the
  disk.

### 3.7 Properties of Kconfig

* `Solved`: what is in the file is a solution of the Config.in files, read in the
  file itself and not in the flags of the program: select over what was said over
  the default, one value of each visible choice, a line for exactly what is visible,
  selected or has a default; and nobody was left without a question that the walk
  gets to.
* `Reproduces`: a `.config` that conf wrote under these Config.in files is read back
  without a question and written again as it is; and what savedefconfig leaves out,
  defconfig finds again.
* `AutoFresh`: when make does not run silentoldconfig, `auto.conf` and `autoconf.h`
  say what `.config` says, whatever was killed, and when `auto.conf` changes, the
  headers of all that is different have been touched.
* `Ends`: every run comes to an end, whatever the user answers.

`Solved` leaves out symbols in `excused`, to which something happened that loses a
value for good:

* In `make config`, a string answer equal to the text last read from `.config`, for
  a string whose value is now another, is taken for no change
  (`sym_set_string_value`, `symbol.c:656`): the file gets the other value.
* `menu_is_visible` gives `SYMBOL_DEF_USER` to a selected symbol that is hidden and has a
  visible child (`menu.c:463`). If it becomes visible later, it counts as answered
  with "n", although nobody was asked and its default may be "y".

Each takes only that symbol out, and another answer brings it back. Without either
of them TLC refutes `Solved`.

It also makes a difference for what the walk does not get to. `conf` skips all that is
below an entry which is hidden and not "y" (`menu_is_visible`, `menu.c:433`). Something
below may be visible all the same, if a `select` gave what it depends on: it is never
asked for, and a value the file had for it is lost if it was hidden when the file was
read, since `conf_read` takes the mark from what is hidden (`confdata.c:396`). Such a
symbol has its default or what was said, and `Solved` asks no more of it (`Reached`). The
proof of `Solved` did not go through without this; TLC and the compiled `conf` then
showed it on a tree of four symbols, `Deep`.

Instance: `Board`, a choice with a value that depends on a symbol, and a string with two
defaults; `NewBoard`, the same a release later, with a new value, a select and a symbol
gone; `Nested`, menus in menus, one under a symbol that is a menu itself, and a comment;
`Library`, a symbol that is a menu, is selected or on by default where it is not
visible, and has an option below; `Deep`, a symbol that a select makes visible below one
that it hides. The first `.config` is every choice of lines for the symbols that matter,
among them files no run can have written: two values of one choice, unknown symbols.
Three runs are what it takes to write a file, to save it by savedefconfig and to read it
by defconfig, or to write, upgrade and read again; one of them may be killed. A fourth
would begin with a file of the kind the first one begins with.

Fairness: `conf` goes on and the user answers, WF of `Run`. It is spelled out
(`Fairness`): a step of `Run` is one that leaves the two counters alone, and `Run` is
enabled in every phase but "idle", which the check for deadlock of this run confirms.

Seen on the way, in no run:

* A kill between the two renames of `conf_write` (`confdata.c:659-660`) leaves
  `.config.old` and no `.config`; the next `make config` starts from nothing.
* `auto.conf` depends on `.config` only (`Makefile:369`): after a change of the
  Config.in files make goes on with the old values.
* A recursive dependency is called an error, and conf goes on: `sym_check_deps` gives
  NULL for the symbol at which the circle closes (`symbol.c:1170`), so that `conf_parse`
  counts nothing and does not exit (`zconf.y:525`). What the values are then depends on
  which is asked for first.
* `randconfig` (not modelled) can write two values of one choice:
  `randomize_choice_values` declares only the choice invalid (`confdata.c:1005`), not
  the values computed before.

### 3.8 Disagreements with documentation and comments

1. `make source` can succeed with a fragment in `DL_DIR`: `wget` writes to the
   final name, and the next site is behind `test -e` of that name
   (`Makefile.package.in:164`, against `docs/buildroot.html:253-262`).
2. Removing `.stamp_configured` configures again and does not compile
   (`Makefile.package.in:466`, against `docs/buildroot.html:472-475`).
3. The git method archives the requested revision, removes that archive and
   packs the clone on its default branch (`Makefile.package.in:111-115`, against
   the comment at 88-91).
4. `online_check.sh:21` tests the status of the `sync` before it, so a failed
   flash is announced as complete (against `setup_to_emmc.sh:208`).
5. The random write leaves the offset of the thread's region out
   (`tiotest.c:1061`; the random read adds it, 1258-1259). With `-R` all threads
   of a device write at random into its first blocks, and with `-c` the reads
   report an I/O error of a sound drive (against the messages at 1194 and 1300).

In no run: `online_check.sh:38` formats a config partition whose mount failed once in
`rcS`, against the comment at line 33, "try to mount and format if necessary": the
mount is commented out. `Config` in `PetbotDeploy` is this step.

## 4. What is proved

TLAPS proves, for every value of the constants that their assumptions admit:

| Theorem | Of | Statement |
|---|---|---|
| `TypeCorrect` | PackageBuild, PetbotDeploy, Tiotest | `Spec => []TypeOK` |
| `TypesHold` | FatCheck, Ext4Alloc, SparseImage | `Spec => []TypeOK` |
| `StampsHonest` | PackageBuild | `Spec => []HonestStamps` |
| `WorldComplete` | PackageBuild | `Spec => []ImageComplete` |
| `CompileIsSound` | PackageBuild | `Spec => CompileSound` |
| `FlashVouchedFor` | PetbotDeploy | `Spec => []FlashChecked` |
| `RecoveryVouchedFor` | PetbotDeploy | `Spec => []RecoveryVerdict` |
| `GoldenStays` | PetbotDeploy | `Spec => GoldenKept` |
| `WithoutFaults` | PetbotDeploy | `Spec => []NothingWrong` |
| `WorkIsMeasured` | Tiotest | `Spec => []MeasuredWork` |
| `OneAfterTheOther` | Tiotest | `Spec => []Unfragmented` |
| `NobodyLeftBehind` | Tiotest | `Spec => []NoStragglers` |
| `ChecksAreRight` | Tiotest | `Spec => []NoFalseAlarm` |
| `EverythingMoved` | Tiotest | `Spec => []AllMoved` |
| `NeverWritesUnasked` | FatCheck | `Spec => ReadOnly` |
| `NothingIsLost` | FatCheck | `Spec => []NothingPending` |
| `OkIsSound` | FatCheck | `Spec => []OkMeansSound`: of a check that looked |
| `InnocentStays` | FatCheck | `Spec => InnocentKept` |
| `HandsOverHolds` | Ext4Alloc | `Spec => []HandsOver` |
| `BlocksAreSingle` | Ext4Alloc | `Spec => []NoBlockTwice` |
| `FreeCountsRight` | Ext4Alloc | `Spec => []CountsRight` |
| `FilesAreWhole` | Ext4Alloc | `Spec => []WholeFiles` |
| `InodesAreFindable` | Ext4Alloc | `Spec => []InodesFindable` |
| `KconfigTypeOK` | Kconfig | `Spec => []TypeOK` |
| `KconfigAutoFresh` | Kconfig | `Spec => AutoFresh` |
| `KconfigReproduces` | Kconfig | `Spec => []Reproduces` |
| `KconfigSolved` | Kconfig | `Spec => []Solved` |
| `WrittenInOrder` | SparseImage | `Spec => []InOrder` |
| `HandsOverWhole` | SparseImage | `Near /\ Spec => Atomic`: whole, unless a write was lost unnoticed |

Assumptions: those named beside the constants. `PackagesAssumption` classifies
the packages, `AcyclicAssumption` says that no package needs itself.
`SizesAssumption` and `OptionsAssumption` give types; `BlocksAssumption` asks for
two blocks, since `get_random_offset(blocks - 1)` divides by one less. `SizesOK`
and `CasesOK` say that a card is a card, and that a directory cluster has room for
`.` and `..` (it has 16 entries or more); `ShapesOK` and `RequestsOK` say what the
parameters and the tree are, `LayoutsOK` what `HandsOver` promises.
`LanguagesAssumption` says what an entry of a Config.in file is (names are different,
of two open blocks the inner one ends first, a choice or a menu has a prompt, only
booleans select), and that no value depends on itself; `ChoicesAssumption` that nothing
lies under a value of a choice, as in all Config.in files of this repository, so that
`menu_finalize` finds all values among the entries of the block and `conf_choice` has
nothing to descend into; `ConfigsAssumption` that a first `.config` has values a line can
have, and `NoFileAssumption` that the mark for a missing file is no file.
`Near` is a hypothesis of one theorem: a `long` can hold the largest step of `simg2img`'s,
because it is wide or because the file system is small.

*PackageBuild.* `HonestStamps` is not inductive: a step that runs again spoils
the products of later steps, and only if the stamps are there in order
(`InOrder`) is no later one stamped. `IInv` adds that, that an extracted tree
came from a whole archive (`FromWholeArchive`), that only packages with patches
are half patched (`OnlyPatchedMixed`), that `clean` meets no install stamps
(`UninstalledFirst`), and that a finished world is stamped (`WorldStamped`). The
actions fall into those that stamp, that stop, that remove, and that make the
package suspect, with a lemma for each kind.

*PetbotDeploy.* What an exit vouches for was checked several commands earlier,
and has to survive the ones in between. `FlashSoFar` and `RecoverySoFar` carry
the facts from one command to the next, `Announced` keeps the announcement tied
to the disk until power comes on again, `RunsFrom` says that a recovery past
`mkfs2` does not run from p2. `WithoutFaults` needs the opposite kind of invariant:
`Smooth` says, while nothing has gone wrong, what each script finds done when it is
at each of its commands, from the first format to the board that serves.

*Tiotest.* `Stages` says for each place of the main thread how far the others can
be: which exist while they are created, that none passes the barrier before the
flag is set (`Held`), that all are there once the count was right (`AllHere`), and
which clock runs (`Timed`). Without it nothing ties a thread at work to the clock.
For `NoFalseAlarm`, `Written` says how much of its region each thread has made its
own (`Own`) at each stage of the write test and after it; that the regions of two
threads in one file do not meet (`RegionsApart`) keeps one thread's writes from
another's `Own`. `AllMoved` is about a sum over threads that end in any order.
`Tally` ties the counter of the running test to the shares of its threads by
`SumOf`, which says that partial sums exist instead of computing them, so that one
more block of one thread shifts the later ones; `Present` and `Progress` say that no
operation can be short, and that a thread ends only at its limit.

*FatCheck.* Types are the hard part: `fat.c` follows numbers it has just read, and
`Typed` says what may be followed where. `HandsOff` says that without a yes nothing
gets as far as a write. `Announced` says that the FAT in memory agrees with the card
unless `FSFATMOD` is set, which each repair has to see to.

*FatCheck, exit status 0.* `Sure` follows a check that has found nothing so far
(`Quiet`) and says, phase by phase, what it has made sure of. Once the chains are
marked, and nobody complained, the mark of a cluster is the one head whose chain it
lies on, and the length kept for a head is the number of its clusters (`ChainsOk`).
While directories are walked there is a set of pairs of a directory and a place of
it which are read or still due: the entries read are right, and the directories they
lead to are in the set or on the list (`WalkDone`, `WalkHere`). With nothing due the
set is closed, and `Tree` is the least closed set (`TreeLeast`, `WalkOver`), however
deep or cyclic the tree is. Then no head without a use is left (`Searched`), and what
is written on the way out agrees with what was checked (`Decided`).

*FatCheck, innocent files.* `Guarded` says for each phase what keeps the chain `C` of
a file from being touched. `C` is one line from the first cluster to the end mark,
alike in each copy and in memory (`GCard`, `GFat`); nothing in the FAT or in another
entry leads into it (`GApart`, `GDirs`); it carries the mark of its own head and its
length (`GMarks`); the directory at hand and those on the list lie elsewhere
(`GWalk`, `GTodo`); and the file is found before lost chains are looked for, so that
it is not one (`GLost`). A repair walks along `next` or along a mark, and from
outside `C` neither gets inside: the `Spares` lemmas, one for each repair, and
`CutAway` for the cluster behind which a file that is too long is cut. With them
`InnocentKept` holds at each step, in the middle of a check and after a kill as well.

*Ext4Alloc.* `HandsOver` speaks of the end; the invariant has to say at each step
why the next extent will meet none of those queued. A group hands out its blocks
from the front (`Bump`: what is free is its end), so everything queued lies before
the free end of its group or in a header (`Located`); parts of headers that are
still to be queued (copies, tables, the reserved blocks: `CopiesClear`,
`TablesClear`, `ReservedClear`) are clear of what is there; and the regions of the
inode at hand are apart from each other and from the queue (`Placed`, `Distinct`,
`RegionsClear`). `Placed` ends each region where its group's handed-out part ends,
which is why giving back the last block of a region is sound; `Exhausted` says that
while an inode still needs blocks the groups of its regions are full, so that its next
region comes from another group.

*Ext4Alloc, blocks.* `Ledger` says that what the groups have handed out is exactly
what inodes and the job at hand hold (`Given = Out`), each block once (`Ours`).
`NoBlockTwice` and `CountsRight` are read off it. What `reduce_allocation` gives back
comes off the first region, so the invariant has to say that the first region is
longer than a block, or the allocation is about to fail anyway (`FirstLong`); that
rests on an empty group being whole (`Whole`). `Filled` counts: what a job has and
what it still needs is its data and one block more.

*Ext4Alloc, inodes.* `Register`: the numbers given so far are below the mark of their
groups (`Numbered`), those of the special inodes come in the order in which
`make_ext4fs` asks for them (`Order`), so that none of them meets a number
`allocate_inode` gives, and a group's table is queued as soon as it exists (`Tables`).

*SparseImage.* `Making` says for each phase of the writer what the queue and the file
hold: a sorted queue without overlaps, and a file whose blocks before `ptr` are the
wanted ones, with the checksum of just these. `Vouched` says that a header with a
checksum stands before exactly these chunks or a damaged file, `Reread` that the
output of `simg2img` is right as far as its own checksum goes, unless a write of it
was lost. A `zerobuf` that is not of zeros shows in the checksum, so that a file with a
gap is then refused and not accepted wrongly. `InOrder` and `Atomic` follow; the second
by the refinement of each action to `Publish` or a stutter.

*Kconfig.* The values of symbols are a recursive function of data, and the library's
induction is out of reach; but that a set of entries without circles leaves room for
one solution only, and for one at all, needs no induction: among the entries that
two solutions disagree on, and among those without a value, there would be one that
needs none of the others (`OneSolution`, `SomeSolution`). The same two lemmas say that
the recursions of `menu_finalize` and `menu_is_visible` end. So `sym_calc_value` is the
one solution of the entries for what was given (`Sols`), and stays it when what is
given changes without an effect (`SameSolution`): a symbol that is hidden, a value
repeated.

`ITypes` says that the memory of conf is whole (`Full`): what was given has a type,
and the values are a solution for something that was given. For `AutoFresh`, `IAuto`
follows a run of silentoldconfig. While it walks, the values are the solution for what
is given now (`Fit`), and unless a change was noted `.config` says just these values
(`Says`); this is where conf_read has to have noticed every line that is missing, too
many or different (`ConfReadFacts`). A string answer that is dropped because it equals
the text last read would break `Fit`; `Kept` says that such a text counts as given, so
that nothing is dropped, or else nothing is left to ask (`Settled`). What is written
says the same values (`WrittenSays`, `WrittenAutoIs`), and the headers that differ were
touched before `autoconf.h` and `auto.conf` get their names.

`Reproduces` is about two or three runs. A file that conf wrote `Tells` a solution: it
has a line for what the solution writes, and the values of the solution in it; the
file of savedefconfig is the `Least` of one, with lines for what differs from its
default. What was given resolves to a solution if it gives every choice its value and
every visible symbol its own (`Resolves`): the two solutions are then solutions of the
same equations, and there is one. Reading a file that tells a solution gives just that,
and a line for the default adds nothing (`ReadOurs`, `ReadMinimal`); and then nothing
is left to ask. `IRepro` carries this from the run that writes (`OursTold`,
`SavedTold`) to the run that reads (`Aiming`).

`Solved` reads a file and not the memory. A solution that a file tells reads the same in
the file as in the memory, the values and what depends on them (`ReadBack`, `ReadSame`);
so it remains to show that the memory is a solution for what was *said*. It is one for
what was given, but when: values are computed only if something changed, so `Obeys` says
what a solution has to agree with (a visible symbol with what counts for it, a choice
with its pick) but for the symbols that are excused, and `Honest` that what counts was
said. `ISolved` carries `Honest` through the walk, and with it where the walk has been:
while `conf_cnt` is 0, all that the last round of `check_conf` has passed and the walk
gets to has a value (`Passing`, `Asked`). For what it skips, `SeenReached` shows that
whoever is above a visible symbol that the walk gets to is not skipped: among those that
are, the innermost would have a visible child.

Only model-checked: the liveness properties `SettlesOrWedges`, `Recoverable`, `Settles`,
`Delivers` and the three `Ends`, since liveness under fairness is beyond TLAPS. Every
other property of the passing runs is proved, `Atomic` under `Near`.

## 5. What is not modelled

* PackageBuild: `$(PKG)_PATCH` downloads, svn, bzr, `source-check` and
  `external-deps`, step commands a package overrides, targets without GENTARGETS;
  contents of installed files (so not the non-idempotent `sed` over `.la` files,
  nor packages linked against an older build of a library); a tar stream cut
  exactly at a header, which tar cannot tell from a whole one; the hooks after
  patching (libtool's, which patches what `patch-kernel.sh` has left); in
  `patch-kernel.sh`, a decompressor that fails in front of `patch`, whose status the
  pipe drops.
* PetbotDeploy: sounds and LEDs; a card that comes or goes between `rcS` and the
  check, whose device name is the kernel's choice; contents beyond the four kinds.
* Tiotest: `parse_args`, latencies, CPU times and `print_results`; failing allocations
  before the first test; a clock that cannot be read, for which `timer_start` and
  `timer_stop` exit (`tiotest.c:1385-1394`); `USE_MMAP` and `LARGEFILES`, which the
  build does not set; offsets that do not fit 32 bits; the random numbers themselves
  (each draw may be any block).
* FatCheck: long names, entries behind the end of a directory, the FSInfo block, the
  boot sector and its backup (`boot.c`), reads that fail. Exit statuses of unreadable
  cards.
* Ext4Alloc: what inodes and directories contain, `used_dirs`, permissions; the trees
  of `inode_allocate_indirect`, which nothing calls; more extents than an extent
  block holds; `-f`, which goes on after an error.
* SparseImage: the compression of gz files, collisions of the checksum; `-s` with `-z`,
  which fails each time: a compressed file cannot go back to its header.
* Kconfig: `randconfig`; entries under a value of a choice (`ChoicesAssumption`);
  tristate symbols and modules, ranges of numbers, optional choices, `option env` and
  `defconfig_list`, of which the Config.in files here use few or none; several entries
  for one symbol; the modes no target uses (`listnewconfig`, `oldnoconfig`,
  `alldefconfig`, `allmodconfig`); failing writes; the parser; and mconf, nconf, gconf
  and qconf.
* Components listed as not modelled in `PROJECT.json`, each with its reason.

Most of the lines of this tree are outside any model of this kind: three copies of
`elf2flt`, four user interfaces of kconfig, generated parsers, headers of formats,
and programs that draw on a screen. They keep no state that another part depends on,
or are other projects' code that this repository only carries.

## 6. Plan

1. The sessions of mconf over the same symbols (set, toggle, save, load).
2. An abstract `Board` (a board has or has not a system it can be restored to) that
   `PetbotDeploy` implements.
3. Root filesystem images, as a consumer of the target tree of `PackageBuild`.
