-------------------------------- MODULE Tiotest --------------------------------
(***************************************************************************)
(* tiotest, the I/O benchmark behind tiobench                              *)
(* (package/tiobench/src/tiotest.c): up to four tests in a row, each done  *)
(* by all threads at once.                                                 *)
(*                                                                         *)
(* do_test creates the threads, which announce themselves and spin on a    *)
(* flag; the main thread polls the announcements, starts the clock, sets   *)
(* the flag, joins the threads and stops the clock.  After 30 seconds it   *)
(* gives the barrier up.  With -W the write test runs its threads one      *)
(* after the other, without a barrier.                                     *)
(*                                                                         *)
(* A thread moves one block at a time.  On files every thread has its own; *)
(* on raw devices (-R) the threads of a device have regions of it.  With   *)
(* -c the contents of every block read are compared with the thread's      *)
(* buffer.  The build sets neither USE_MMAP nor LARGEFILES.                *)
(*                                                                         *)
(* The model starts after initialize_test and ends with cleanup_test.      *)
(***************************************************************************)
EXTENDS Integers

CONSTANTS
  NumThreads,    \* -t
  PathsCount,    \* how many -d were given; threads take them in turn
  Blocks,        \* blocks of a thread's file or region, -f over -b
  RandomOps,     \* -r
  ThreadOffset,  \* -o, in blocks
  Options,       \* the combinations of the other options to start with
  MaxFaults      \* bound: failing calls and wrong data from a drive

Tests == 0..3
WriteTest       == 0
RandomWriteTest == 1
ReadTest        == 2
RandomReadTest  == 3

ASSUME SizesAssumption ==
  /\ NumThreads \in Nat \ {0} /\ PathsCount \in Nat \ {0}
  /\ RandomOps \in Nat \ {0} /\ ThreadOffset \in Nat /\ MaxFaults \in Nat

(* get_random_offset(blocks - 1) divides by blocks - 1. *)
ASSUME BlocksAssumption == Blocks \in Nat /\ Blocks >= 2

ASSUME OptionsAssumption ==
  Options \subseteq [raw : BOOLEAN, first : BOOLEAN, sequential : BOOLEAN,
                     check : BOOLEAN, tests : SUBSET Tests]

Threads == 0..NumThreads - 1

VARIABLES
  args,    \* -R, -O, -W, -c and the tests -k has left
  pc,      \* where the main thread is
  test,    \* the test it is at, 4 after the last
  i,       \* threads created (and joined, with -W) in this test
  start,   \* the flag the threads spin on
  thread,  \* thread[t]: where thread t is
  op,      \* op[t]: blocks thread t has moved in this test
  moved,   \* moved[k]: blocks counted in test k
  timer,   \* timer[k]: the total time of test k
  files,   \* test files that exist
  disk,    \* disk[f][b]: whose data is in block b of file or device f
  faults,
  code     \* exit status

ioVars == <<op, moved, files, disk>>
mainVars == <<pc, test, i, start, timer>>
vars == <<args, mainVars, thread, ioVars, faults, code>>

Absent  == -1    \* beyond the end of a file, or a hole in it
Foreign == -2    \* neither that nor some thread's buffer

Stride == ThreadOffset + Blocks
LastBlock == ThreadOffset + NumThreads * Stride

ThreadStates == {"none", "created", "spinning", "io", "ended"}
Pcs == {"next", "create", "joinone", "poll", "timer", "open", "join", "giveup", "joinlate",
        "done", "exited"}

TypeOK ==
  /\ args \in Options
  /\ pc \in Pcs
  /\ test \in 0..4
  /\ i \in 0..NumThreads
  /\ start \in BOOLEAN
  /\ thread \in [Threads -> ThreadStates]
  /\ op \in [Threads -> Nat]
  /\ moved \in [Tests -> Nat]
  /\ timer \in [Tests -> {"zero", "running", "stopped"}]
  /\ files \subseteq Threads
  /\ disk \in [Threads -> [0..LastBlock -> Threads \cup {Absent, Foreign}]]
  /\ faults \in 0..MaxFaults
  /\ code \in {0, 10, 11, 255}

(* timer_init; a device is full of older data. *)
Init ==
  /\ args \in Options
  /\ pc = "next" /\ test = 0 /\ i = 0 /\ start = FALSE
  /\ thread = [t \in Threads |-> "none"]
  /\ op = [t \in Threads |-> 0]
  /\ moved = [k \in Tests |-> 0]
  /\ timer = [k \in Tests |-> "zero"]
  /\ files = {}
  /\ disk = [f \in Threads |-> [b \in 0..LastBlock |-> IF args.raw THEN Foreign ELSE Absent]]
  /\ faults = 0
  /\ code = 0

Fault == faults < MaxFaults /\ faults' = faults + 1

-----------------------------------------------------------------------------
(* The main thread: do_tests, do_test *)

At(l) == pc = l
Goto(l) == pc' = l

Sequential == test = WriteTest /\ args.sequential

Exit(n) == Goto("exited") /\ code' = n

SkipTest ==
  /\ At("next") /\ test < 4 /\ test \notin args.tests
  /\ test' = test + 1
  /\ UNCHANGED <<args, pc, i, start, thread, timer, ioVars, faults, code>>

StartTest ==
  /\ At("next") /\ test < 4 /\ test \in args.tests
  /\ Goto("create")
  /\ i' = 0 /\ start' = FALSE
  /\ thread' = [t \in Threads |-> "none"]
  /\ timer' = IF Sequential THEN [timer EXCEPT ![test] = "running"] ELSE timer
  /\ UNCHANGED <<args, test, ioVars, faults, code>>

(* calloc fails: do_test returns, and the next test follows. *)
NoMemory ==
  /\ At("next") /\ test < 4 /\ test \in args.tests
  /\ Fault
  /\ test' = test + 1
  /\ UNCHANGED <<args, pc, i, start, thread, timer, ioVars, code>>

(* Seeded fault: the loop runs to i <= numThreads. *)
CreateOneMore ==
  /\ At("create") /\ i <= NumThreads
  /\ thread' = [t \in Threads |-> IF t = i THEN "created" ELSE thread[t]]
  /\ i' = i + 1
  /\ UNCHANGED <<args, pc, test, start, timer, ioVars, faults, code>>

(* Seeded fault: no join between the threads of -W. *)
CreateUnjoined ==
  /\ At("create") /\ i < NumThreads
  /\ thread' = [thread EXCEPT ![i] = "created"]
  /\ i' = i + 1
  /\ UNCHANGED <<args, pc, test, start, timer, ioVars, faults, code>>

Create ==
  /\ At("create") /\ i < NumThreads
  /\ thread' = [thread EXCEPT ![i] = "created"]
  /\ IF Sequential THEN Goto("joinone") /\ UNCHANGED i ELSE i' = i + 1 /\ UNCHANGED pc
  /\ UNCHANGED <<args, test, start, timer, ioVars, faults, code>>

(* The arrays the threads use are freed and the process exits at once:     *)
(* what a thread that reads them in between does ends with it.             *)
CreateFails ==
  /\ At("create") /\ i < NumThreads
  /\ Fault
  /\ Exit(255)
  /\ UNCHANGED <<args, test, i, start, thread, timer, ioVars>>

JoinOne ==
  /\ At("joinone") /\ thread[i] = "ended"
  /\ i' = i + 1
  /\ Goto("create")
  /\ UNCHANGED <<args, test, start, thread, timer, ioVars, faults, code>>

(* do_test returns: child_status and sd are freed, whoever may use them. *)
Leave ==
  /\ Goto("next") /\ test' = test + 1
  /\ UNCHANGED <<args, i, start, thread, ioVars, faults, code>>

StopTimer == timer' = [timer EXCEPT ![test] = "stopped"]

AllCreated ==
  /\ At("create") /\ i = NumThreads
  /\ \/ Sequential /\ StopTimer /\ Leave
     \/ ~Sequential /\ Goto("poll")
        /\ UNCHANGED <<args, test, i, start, thread, timer, ioVars, faults, code>>

(* Seeded fault: the count leaves the last thread out. *)
AllButOneAnnounced == \A t \in Threads \ {NumThreads - 1} : thread[t] \notin {"none", "created"}

Announced == \A t \in Threads : thread[t] \notin {"none", "created"}

(* The count of one pass over child_status is that of some moment during   *)
(* it: announcements are not taken back.  Looking again is no step; after  *)
(* 30 seconds the last count decides.                                      *)
Poll ==
  /\ At("poll")
  /\ \/ Announced /\ Goto("timer")
     \/ ~Announced /\ Goto("giveup")
  /\ UNCHANGED <<args, test, i, start, thread, timer, ioVars, faults, code>>

StartTimer ==
  /\ At("timer")
  /\ timer' = [timer EXCEPT ![test] = "running"]
  /\ Goto("open")
  /\ UNCHANGED <<args, test, i, start, thread, ioVars, faults, code>>

Open ==
  /\ At("open")
  /\ start' = TRUE
  /\ Goto("join")
  /\ UNCHANGED <<args, test, i, thread, timer, ioVars, faults, code>>

(* Seeded fault: the threads that did start are left at the barrier. *)
GiveUpClosed ==
  /\ At("giveup")
  /\ Goto("joinlate")
  /\ UNCHANGED <<args, test, i, start, thread, timer, ioVars, faults, code>>

GiveUp ==
  /\ At("giveup")
  /\ start' = TRUE
  /\ Goto("joinlate")
  /\ UNCHANGED <<args, test, i, thread, timer, ioVars, faults, code>>

(* Seeded fault: wait_for_threads leaves the last thread out. *)
AllButOneEnded == \A t \in Threads \ {NumThreads - 1} : thread[t] = "ended"

AllEnded == \A t \in Threads : thread[t] = "ended"

Join == At("join") /\ AllEnded /\ StopTimer /\ Leave

JoinLate == At("joinlate") /\ AllEnded /\ UNCHANGED timer /\ Leave

(* print_results and cleanup_test, which unlinks the files. *)
Finish ==
  /\ At("next") /\ test = 4
  /\ Goto("done")
  /\ files' = {}
  /\ disk' = IF args.raw THEN disk
             ELSE [f \in Threads |-> [b \in 0..LastBlock |-> Absent]]
  /\ UNCHANGED <<args, test, i, start, thread, timer, op, moved, faults, code>>

Main ==
  \/ SkipTest \/ StartTest \/ NoMemory \/ Create \/ CreateFails \/ JoinOne \/ AllCreated
  \/ Poll \/ StartTimer \/ Open \/ GiveUp \/ Join \/ JoinLate \/ Finish

-----------------------------------------------------------------------------
(* A thread: start_proc and the four test functions *)

Running == pc \notin {"done", "exited"}

Announce(t) ==
  /\ Running /\ thread[t] = "created"
  /\ thread' = [thread EXCEPT ![t] = "spinning"]
  /\ UNCHANGED <<args, mainVars, ioVars, faults, code>>

File(t) == IF args.raw THEN t % PathsCount ELSE t

(* Seeded fault: cur_offs is not moved on from thread to thread. *)
FileOffsetOfFirst(t) ==
  IF ~args.raw THEN 0 ELSE IF args.first THEN ThreadOffset ELSE 0

(* initialize_test: the regions of a device follow each other, ThreadOffset *)
(* apart, and with -O the first begins at ThreadOffset.                     *)
FileOffset(t) ==
  IF ~args.raw THEN 0
  ELSE (t \div PathsCount) * Stride + IF args.first THEN ThreadOffset ELSE 0

(* Seeded fault: O_CREAT | O_TRUNC in the random write test too. *)
TruncatesTwice == test \in {WriteTest, RandomWriteTest} /\ ~args.raw

(* O_CREAT | O_TRUNC *)
Truncates == test = WriteTest /\ ~args.raw

Opened(t) ==
  /\ files' = IF Truncates THEN files \cup {t} ELSE files
  /\ disk' = IF Truncates THEN [disk EXCEPT ![t] = [b \in 0..LastBlock |-> Absent]] ELSE disk

Ended(t) == thread' = [thread EXCEPT ![t] = "ended"]

(* The flag is set, or there is none (-W): the test function opens the     *)
(* file and seeks to the region; if it cannot, it returns.                 *)
Begin(t) ==
  /\ Running /\ thread[t] = "spinning"
  /\ start \/ Sequential
  /\ \/ /\ args.raw \/ test = WriteTest \/ t \in files
        /\ Opened(t)
        /\ thread' = [thread EXCEPT ![t] = "io"] /\ op' = [op EXCEPT ![t] = 0]
        /\ UNCHANGED faults
     \/ /\ ~args.raw /\ test # WriteTest /\ t \notin files
        /\ Ended(t)
        /\ UNCHANGED <<op, files, disk, faults>>
     \/ /\ Fault /\ Ended(t) /\ UNCHANGED op
        /\ Opened(t) \/ UNCHANGED <<files, disk>>
  /\ UNCHANGED <<args, mainVars, moved, code>>

Limit(k) == IF k \in {WriteTest, ReadTest} THEN Blocks ELSE RandomOps

(* rr % (blocks - 1): the last block is never drawn.                       *)
RandomBlocks == 0..Blocks - 2

(* The blocks the next operation of t may go to.  Random writes, unlike    *)
(* random reads, leave the offset of the region out.                       *)
Targets(t) ==
  CASE test \in {WriteTest, ReadTest} -> {FileOffset(t) + op[t]}
    [] test = RandomWriteTest          -> RandomBlocks
    [] test = RandomReadTest           -> {FileOffset(t) + b : b \in RandomBlocks}

AtWork(t) == Running /\ thread[t] = "io" /\ op[t] < Limit(test)

Counted(t) ==
  /\ op' = [op EXCEPT ![t] = @ + 1]
  /\ moved' = [moved EXCEPT ![test] = @ + 1]

Write(t) ==
  /\ AtWork(t) /\ test \in {WriteTest, RandomWriteTest}
  /\ \E b \in Targets(t) : disk' = [disk EXCEPT ![File(t)][b] = t]
  /\ Counted(t)
  /\ UNCHANGED <<args, mainVars, thread, files, faults, code>>

(* A failing write may have spoilt what was in the block. *)
WriteBreaks(t) ==
  /\ AtWork(t) /\ test \in {WriteTest, RandomWriteTest}
  /\ Fault
  /\ \E b \in Targets(t) :
       disk' \in {disk, [disk EXCEPT ![File(t)][b] = IF @ = Absent THEN Absent ELSE Foreign]}
  /\ Ended(t)
  /\ UNCHANGED <<args, mainVars, op, moved, files, code>>

(* A block with others behind it can be read, if as zeros. *)
Readable(f, b) == \E c \in b..LastBlock : disk[f][c] # Absent

ReadBlock(t) ==
  /\ AtWork(t) /\ test \in {ReadTest, RandomReadTest}
  /\ \E b \in Targets(t) :
       \/ /\ Readable(File(t), b)
          /\ args.check => disk[File(t)][b] = t
          /\ Counted(t)
          /\ UNCHANGED thread
       \/ ~Readable(File(t), b) /\ Ended(t) /\ UNCHANGED <<op, moved>>
  /\ UNCHANGED <<args, mainVars, files, disk, faults, code>>

CrcStatus == IF test = ReadTest THEN 10 ELSE 11

(* "io error: crc read error": the whole process exits. *)
CrcError(t) ==
  /\ AtWork(t) /\ test \in {ReadTest, RandomReadTest} /\ args.check
  /\ \E b \in Targets(t) : Readable(File(t), b) /\ disk[File(t)][b] # t
  /\ Exit(CrcStatus)
  /\ UNCHANGED <<args, test, i, start, timer, thread, ioVars, faults>>

(* The drive fails the call, or returns wrong data. *)
ReadBreaks(t) ==
  /\ AtWork(t) /\ test \in {ReadTest, RandomReadTest}
  /\ Fault
  /\ \/ Ended(t) /\ UNCHANGED <<pc, code, op, moved>>
     \/ args.check /\ Exit(CrcStatus) /\ UNCHANGED <<thread, op, moved>>
     \/ ~args.check /\ Counted(t) /\ UNCHANGED <<pc, code, thread>>
  /\ UNCHANGED <<args, test, i, start, timer, files, disk>>

End(t) ==
  /\ Running /\ thread[t] = "io" /\ op[t] = Limit(test)
  /\ Ended(t)
  /\ UNCHANGED <<args, mainVars, ioVars, faults, code>>

Thread(t) ==
  \/ Announce(t) \/ Begin(t) \/ Write(t) \/ WriteBreaks(t) \/ ReadBlock(t) \/ CrcError(t)
  \/ ReadBreaks(t) \/ End(t)

Next == Main \/ \E t \in Threads : Thread(t)

Spec == Init /\ [][Next]_vars

(* The main thread and every other one are scheduled: a spinning thread    *)
(* yields (sleep(0)).                                                      *)
FairSpec == Spec /\ WF_vars(Main) /\ \A t \in Threads : WF_vars(Thread(t))

-----------------------------------------------------------------------------
(* Properties *)

(* "sync threads on running (thread creation overhead time is removed from *)
(* measured time)" (ChangeLog, 0.3.2): unless the barrier was given up, a  *)
(* thread works only while the clock runs and, without -W, only after the  *)
(* last thread has started.                                                *)
MeasuredWork ==
  pc \notin {"joinlate", "exited"} =>
    \A t \in Threads : thread[t] = "io" =>
      /\ timer[test] = "running"
      /\ ~Sequential => \A u \in Threads : thread[u] \notin {"none", "created"}

(* With -W "this prevents write phase fragmentation of test files"         *)
(* (ChangeLog, 0.12): one file is written after the other.                 *)
Unfragmented ==
  Sequential /\ pc # "next" => \A t, u \in Threads :
    {thread[t], thread[u]} \subseteq {"created", "spinning", "io"} => t = u

(* A test is over only when its threads are: none is left to use the       *)
(* arrays do_test frees, or to share buffers and counters with the next.   *)
NoStragglers ==
  pc \in {"next", "done"} => \A t \in Threads : thread[t] \in {"none", "ended"}

(* A consistency check of files, or of devices nobody wrote to at random,  *)
(* that ends in "io error: crc read error" has met a failing drive.        *)
NoFalseAlarm ==
  /\ code \in {10, 11}
  /\ WriteTest \in args.tests
  /\ args.raw => RandomWriteTest \notin args.tests
  => faults > 0

(* Whatever the threads' order, and whether the barrier held or was given  *)
(* up: if nothing fails, every test moves all of its blocks.               *)
AllMoved ==
  pc = "done" /\ faults = 0 /\ (args.raw \/ WriteTest \in args.tests) =>
    \A k \in args.tests : moved[k] = NumThreads * Limit(k)

(* No thread is left behind at the barrier, and nobody waits for it.       *)
Ends == <>(pc \in {"done", "exited"})

(* Claims of messages and comments that the code does not keep *)

(* tiotest.c:1194 and 1300: what -c reports is an "io error".              *)
CrcMeansIoError == code \in {10, 11} /\ WriteTest \in args.tests => faults > 0

=============================================================================
