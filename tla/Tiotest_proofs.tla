---------------------------- MODULE Tiotest_proofs ----------------------------
(***************************************************************************)
(* Proofs about Tiotest, for any number of threads, blocks, operations and *)
(* failures: the barrier and the clock, the one-after-the-other of -W,     *)
(* that do_test leaves no thread behind, what the consistency check may    *)
(* find, and that without a fault every test moves all its blocks.         *)
(***************************************************************************)
EXTENDS Tiotest, TLAPS, WellFoundedInduction

-----------------------------------------------------------------------------
(* The inductive invariant: how far the threads can be at each place of    *)
(* the main thread.                                                        *)

Barrier == {"poll", "timer", "open", "join", "giveup", "joinlate"}

(* While threads are created: those before i exist, and those of -W have   *)
(* ended; those from i on do not exist.                                    *)
Creating ==
  pc = "create" =>
    \A t \in Threads : /\ t >= i => thread[t] = "none"
                       /\ t < i => thread[t] # "none"
                       /\ t < i /\ Sequential => thread[t] = "ended"

JoiningOne ==
  pc = "joinone" =>
    /\ Sequential /\ i < NumThreads
    /\ \A t \in Threads : /\ t > i => thread[t] = "none"
                          /\ t < i => thread[t] = "ended"
                          /\ t = i => thread[t] # "none"

AtBarrier ==
  pc \in Barrier => ~Sequential /\ \A t \in Threads : thread[t] # "none"

(* Until the flag is set nobody gets past it. *)
Held ==
  /\ start => pc \notin {"create", "joinone", "poll", "timer", "open", "giveup"}
  /\ pc \in {"create", "poll", "timer", "open", "giveup"} /\ ~Sequential =>
       \A t \in Threads : thread[t] \in {"none", "created", "spinning"}

AllHere == pc \in {"timer", "open", "join"} => Announced

Timed ==
  /\ pc \in {"open", "join"} => timer[test] = "running"
  /\ pc \in {"create", "joinone"} /\ Sequential => timer[test] = "running"

InTest == pc \notin {"next", "done", "exited"} => test \in Tests

Stages == Creating /\ JoiningOne /\ AtBarrier /\ Held /\ AllHere /\ Timed /\ InTest

Stay == Stages /\ NoStragglers /\ Unfragmented

IInv == TypeOK /\ Stay

(* Threads are numbered from 0. *)
LEMMA ThreadsFacts == \A t \in Threads : t \in Int /\ 0 <= t /\ t < NumThreads
BY SizesAssumption DEF Threads

LEMMA StatesFacts ==
  /\ "none" \in ThreadStates /\ "created" \in ThreadStates /\ "spinning" \in ThreadStates
  /\ "io" \in ThreadStates /\ "ended" \in ThreadStates
BY DEF ThreadStates

-----------------------------------------------------------------------------
(* Types *)

(* A block that is written or spoilt keeps the type of the disk. *)
LEMMA DiskType ==
  ASSUME disk \in [Threads -> [0..LastBlock -> Threads \cup {Absent, Foreign}]],
         NEW f, NEW b, NEW x \in Threads \cup {Absent, Foreign},
         disk' = [disk EXCEPT ![f][b] = x]
  PROVE  disk' \in [Threads -> [0..LastBlock -> Threads \cup {Absent, Foreign}]]
<1>1. CASE f \in Threads
  <2>1. disk[f] \in [0..LastBlock -> Threads \cup {Absent, Foreign}]
    BY <1>1
  <2>2. [disk[f] EXCEPT ![b] = x] \in [0..LastBlock -> Threads \cup {Absent, Foreign}]
    BY <2>1
  <2>3. QED
    BY <1>1, <2>2
<1>2. CASE f \notin Threads
  BY <1>2
<1>3. QED
  BY <1>1, <1>2

LEMMA OpenedType == \A t \in Threads : TypeOK /\ Opened(t) =>
                      /\ files' \subseteq Threads
                      /\ disk' \in [Threads -> [0..LastBlock -> Threads \cup {Absent, Foreign}]]
BY DEF TypeOK, Opened

LEMMA PcsFacts ==
  /\ "next" \in Pcs /\ "create" \in Pcs /\ "joinone" \in Pcs /\ "poll" \in Pcs
  /\ "timer" \in Pcs /\ "open" \in Pcs /\ "join" \in Pcs /\ "giveup" \in Pcs
  /\ "joinlate" \in Pcs /\ "done" \in Pcs /\ "exited" \in Pcs
BY DEF Pcs

LEMMA FaultType ==
  ASSUME faults \in 0..MaxFaults, Fault \/ UNCHANGED faults
  PROVE  faults' \in 0..MaxFaults
BY SizesAssumption DEF Fault

(* The initial state is well typed. *)
LEMMA InitTypeOK == Init => TypeOK
<1> SUFFICES ASSUME Init PROVE TypeOK
  OBVIOUS
<1>1. disk \in [Threads -> [0..LastBlock -> Threads \cup {Absent, Foreign}]]
  BY DEF Init
<1>2. /\ thread \in [Threads -> ThreadStates]
      /\ timer \in [Tests -> {"zero", "running", "stopped"}]
      /\ op \in [Threads -> Nat] /\ moved \in [Tests -> Nat]
  BY StatesFacts DEF Init
<1>3. i \in 0..NumThreads /\ faults \in 0..MaxFaults
  BY SizesAssumption DEF Init
<1>4. pc \in Pcs /\ test \in 0..4 /\ files \subseteq Threads /\ code \in {0, 10, 11, 255}
  BY PcsFacts DEF Init
<1>5. args \in Options /\ start \in BOOLEAN
  BY DEF Init
<1>6. QED
  BY <1>1, <1>2, <1>3, <1>4, <1>5 DEF TypeOK

(* The main thread keeps the types: it counts threads up to NumThreads,    *)
(* and leaves a test only from within one.                                 *)
LEMMA MainTypeOK == TypeOK /\ JoiningOne /\ InTest /\ Main => TypeOK'
<1> SUFFICES ASSUME TypeOK, JoiningOne, InTest, Main PROVE TypeOK'
  OBVIOUS
<1>1. test' \in 0..4
  <2>1. CASE UNCHANGED test
    BY <2>1 DEF TypeOK
  <2>2. CASE test' = test + 1 /\ test < 4
    BY <2>2 DEF TypeOK
  <2>3. CASE Leave /\ pc \notin {"next", "done", "exited"}
    BY <2>3 DEF TypeOK, Leave, InTest, Tests
  <2>4. QED
    BY <2>1, <2>2, <2>3 DEF Main, SkipTest, StartTest, NoMemory, Create, CreateFails, JoinOne,
       AllCreated, Poll, StartTimer, Open, GiveUp, Join, JoinLate, Finish, At
<1>2. i' \in 0..NumThreads
  <2>1. CASE UNCHANGED i
    BY <2>1 DEF TypeOK
  <2>2. CASE i' = 0 \/ (i' = i + 1 /\ i < NumThreads)
    BY <2>2, SizesAssumption DEF TypeOK
  <2>3. QED
    BY <2>1, <2>2 DEF Main, SkipTest, StartTest, NoMemory, Create, CreateFails, JoinOne,
       AllCreated, Poll, StartTimer, Open, GiveUp, Join, JoinLate, Finish, At, Leave, JoiningOne
<1>3. thread' \in [Threads -> ThreadStates]
  <2>1. CASE UNCHANGED thread
    BY <2>1 DEF TypeOK
  <2>2. CASE thread' = [t \in Threads |-> "none"]
    BY <2>2, StatesFacts
  <2>3. CASE thread' = [thread EXCEPT ![i] = "created"]
    BY <2>3, StatesFacts DEF TypeOK
  <2>4. QED
    BY <2>1, <2>2, <2>3 DEF Main, SkipTest, StartTest, NoMemory, Create, CreateFails, JoinOne,
       AllCreated, Poll, StartTimer, Open, GiveUp, Join, JoinLate, Finish, Leave
<1>4. timer' \in [Tests -> {"zero", "running", "stopped"}]
  <2>1. CASE UNCHANGED timer
    BY <2>1 DEF TypeOK
  <2>2. CASE timer' = [timer EXCEPT ![test] = "running"]
    BY <2>2 DEF TypeOK
  <2>3. CASE timer' = [timer EXCEPT ![test] = "stopped"]
    BY <2>3 DEF TypeOK
  <2>4. QED
    BY <2>1, <2>2, <2>3 DEF Main, SkipTest, StartTest, NoMemory, Create, CreateFails, JoinOne,
       AllCreated, Poll, StartTimer, Open, GiveUp, Join, JoinLate, Finish, StopTimer
<1>5. op' \in [Threads -> Nat] /\ moved' \in [Tests -> Nat] /\ files' \subseteq Threads
  BY DEF TypeOK, Main, SkipTest, StartTest, NoMemory, Create, CreateFails, JoinOne, AllCreated,
     Poll, StartTimer, Open, GiveUp, Join, JoinLate, Finish, Leave, ioVars
<1>6. disk' \in [Threads -> [0..LastBlock -> Threads \cup {Absent, Foreign}]]
  <2>1. CASE UNCHANGED disk
    BY <2>1 DEF TypeOK
  <2>2. CASE disk' = [f \in Threads |-> [b \in 0..LastBlock |-> Absent]]
    BY <2>2
  <2>3. QED
    BY <2>1, <2>2 DEF Main, SkipTest, StartTest, NoMemory, Create, CreateFails, JoinOne,
       AllCreated, Poll, StartTimer, Open, GiveUp, Join, JoinLate, Finish, Leave, ioVars
<1>7. faults' \in 0..MaxFaults
  <2>1. Fault \/ UNCHANGED faults
    BY DEF Main, SkipTest, StartTest, NoMemory, Create, CreateFails, JoinOne, AllCreated,
       Poll, StartTimer, Open, GiveUp, Join, JoinLate, Finish, Leave
  <2>2. QED
    BY <2>1, FaultType DEF TypeOK
<1>8. pc' \in Pcs
  BY PcsFacts DEF TypeOK, Main, SkipTest, StartTest, NoMemory, Create, CreateFails, JoinOne,
     AllCreated, Poll, StartTimer, Open, GiveUp, Join, JoinLate, Finish, Leave, Goto, Exit
<1>9. args' \in Options /\ start' \in BOOLEAN /\ code' \in {0, 10, 11, 255}
  <2>1. UNCHANGED args /\ (UNCHANGED code \/ code' = 255)
    BY DEF Main, SkipTest, StartTest, NoMemory, Create, CreateFails, JoinOne, AllCreated,
       Poll, StartTimer, Open, GiveUp, Join, JoinLate, Finish, Leave, Exit
  <2>2. UNCHANGED start \/ start' = TRUE \/ start' = FALSE
    BY DEF Main, SkipTest, StartTest, NoMemory, Create, CreateFails, JoinOne, AllCreated,
       Poll, StartTimer, Open, GiveUp, Join, JoinLate, Finish, Leave
  <2>3. start' \in BOOLEAN
    BY <2>2 DEF TypeOK
  <2>4. code' \in {0, 10, 11, 255}
    BY <2>1 DEF TypeOK
  <2>5. QED
    BY <2>1, <2>3, <2>4 DEF TypeOK
<1>10. QED
  BY <1>1, <1>2, <1>3, <1>4, <1>5, <1>6, <1>7, <1>8, <1>9 DEF TypeOK

(* The threads keep the types. *)
LEMMA ThreadTypeOK == TypeOK /\ (\E t \in Threads : Thread(t)) => TypeOK'
<1> SUFFICES ASSUME TypeOK, NEW t \in Threads, Thread(t) PROVE TypeOK'
  OBVIOUS
<1> DEFINE DiskOK == disk \in [Threads -> [0..LastBlock -> Threads \cup {Absent, Foreign}]]
<1>0. /\ op \in [Threads -> Nat] /\ moved \in [Tests -> Nat]
      /\ DiskOK
  BY DEF TypeOK
<1>1. thread' \in [Threads -> ThreadStates]
  <2>1. CASE UNCHANGED thread
    BY <2>1 DEF TypeOK
  <2>2. CASE \E s \in {"spinning", "io", "ended"} : thread' = [thread EXCEPT ![t] = s]
    BY <2>2, StatesFacts DEF TypeOK
  <2>3. QED
    BY <2>1, <2>2 DEF Thread, Announce, Begin, Write, WriteBreaks, ReadBlock, CrcError,
       ReadBreaks, End, Ended
<1>2. op' \in [Threads -> Nat]
  <2>1. CASE UNCHANGED op
    BY <2>1 DEF TypeOK
  <2>2. CASE op' = [op EXCEPT ![t] = 0] \/ op' = [op EXCEPT ![t] = @ + 1]
    BY <1>0, <2>2
  <2>3. QED
    BY <2>1, <2>2 DEF Thread, Announce, Begin, Write, WriteBreaks, ReadBlock, CrcError,
       ReadBreaks, End, Ended, Counted, ioVars
<1>3. moved' \in [Tests -> Nat]
  <2>1. CASE UNCHANGED moved
    BY <2>1 DEF TypeOK
  <2>2. CASE moved' = [moved EXCEPT ![test] = @ + 1]
    <3>1. \A k \in Tests : moved[k] \in Nat /\ moved[k] + 1 \in Nat
      BY <1>0
    <3>2. QED
      BY <1>0, <2>2, <3>1
  <2>3. QED
    BY <2>1, <2>2 DEF Thread, Announce, Begin, Write, WriteBreaks, ReadBlock, CrcError,
       ReadBreaks, End, Counted, ioVars
<1>4. /\ files' \subseteq Threads
      /\ disk' \in [Threads -> [0..LastBlock -> Threads \cup {Absent, Foreign}]]
  <2>1. CASE UNCHANGED <<files, disk>>
    BY <2>1 DEF TypeOK
  <2>2. CASE Opened(t)
    BY <2>2, OpenedType
  <2>3. CASE Write(t)
    <3>1. PICK b : disk' = [disk EXCEPT ![File(t)][b] = t]
      BY <2>3 DEF Write
    <3>2. disk' \in [Threads -> [0..LastBlock -> Threads \cup {Absent, Foreign}]]
      BY <1>0, <3>1, DiskType
    <3>3. QED
      BY <2>3, <3>2 DEF Write, TypeOK
  <2>4. CASE WriteBreaks(t)
    <3>1. PICK b : \/ disk' = disk
                   \/ disk' = [disk EXCEPT ![File(t)][b] =
                                 IF disk[File(t)][b] = Absent THEN Absent ELSE Foreign]
      BY <2>4 DEF WriteBreaks
    <3>2. disk' \in [Threads -> [0..LastBlock -> Threads \cup {Absent, Foreign}]]
      BY <1>0, <3>1, DiskType
    <3>3. QED
      BY <2>4, <3>2 DEF WriteBreaks, TypeOK
  <2>5. QED
    BY <2>1, <2>2, <2>3, <2>4 DEF Thread, Announce, Begin, ReadBlock, CrcError, ReadBreaks,
       End, ioVars
<1>5. faults' \in 0..MaxFaults
  <2>1. Fault \/ UNCHANGED faults
    BY DEF Thread, Announce, Begin, Write, WriteBreaks, ReadBlock, CrcError, ReadBreaks, End
  <2>2. QED
    BY <2>1, FaultType DEF TypeOK
<1>6. /\ UNCHANGED <<args, test, i, start, timer>>
      /\ \/ UNCHANGED <<pc, code>>
         \/ pc' = "exited" /\ code' = CrcStatus
  BY DEF Thread, Announce, Begin, Write, WriteBreaks, ReadBlock, CrcError, ReadBreaks, End,
     mainVars, Exit, Goto
<1>7. pc' \in Pcs
  BY <1>6, PcsFacts DEF TypeOK
<1>8. code' \in {0, 10, 11, 255}
  BY <1>6 DEF TypeOK, CrcStatus
<1>9. QED
  BY <1>1, <1>2, <1>3, <1>4, <1>5, <1>6, <1>7, <1>8 DEF TypeOK

-----------------------------------------------------------------------------
(* The stages *)

(* How a thread moves: only forward, and past the flag only when it is set *)
(* or nobody uses it.                                                      *)
Forward(t, s) ==
  \/ thread[t] = "created" /\ s = "spinning"
  \/ thread[t] = "spinning" /\ s \in {"io", "ended"} /\ (start \/ Sequential)
  \/ thread[t] = "io" /\ s = "ended"

LEMMA ThreadMoves ==
  ASSUME NEW t \in Threads, Thread(t)
  PROVE  /\ Running
         /\ thread[t] \in {"created", "spinning", "io"}
         /\ UNCHANGED <<args, test, i, start, timer>>
         /\ pc' = pc \/ pc' = "exited"
         /\ \/ UNCHANGED thread
            \/ \E s \in ThreadStates : Forward(t, s) /\ thread' = [thread EXCEPT ![t] = s]
<1>1. CASE Announce(t)
  BY <1>1, StatesFacts DEF Announce, Forward, mainVars
<1>2. CASE Begin(t)
  BY <1>2, StatesFacts DEF Begin, Forward, Ended, mainVars
<1>3. CASE Write(t) \/ WriteBreaks(t) \/ End(t)
  BY <1>3, StatesFacts DEF Write, WriteBreaks, End, AtWork, Forward, Ended, mainVars
<1>4. CASE ReadBlock(t) \/ CrcError(t) \/ ReadBreaks(t)
  BY <1>4, StatesFacts DEF ReadBlock, CrcError, ReadBreaks, AtWork, Forward, Ended, mainVars,
     Exit, Goto
<1>5. QED
  BY <1>1, <1>2, <1>3, <1>4 DEF Thread

(* A thread keeps the stages. *)
LEMMA ThreadStay == TypeOK /\ Stay /\ (\E t \in Threads : Thread(t)) => Stay'
<1> SUFFICES ASSUME TypeOK, Stay, NEW t \in Threads, Thread(t) PROVE Stay'
  OBVIOUS
<1>1. /\ Running
      /\ thread[t] \in {"created", "spinning", "io"}
      /\ UNCHANGED <<args, test, i, start, timer>>
      /\ pc' = pc \/ pc' = "exited"
  BY ThreadMoves
<1>2. thread \in [Threads -> ThreadStates]
  BY DEF TypeOK
<1>3. pc \notin {"next", "done", "exited"}
  BY <1>1 DEF Stay, NoStragglers, Running
<1>4. ASSUME NEW u \in Threads, u # t PROVE thread'[u] = thread[u]
  BY <1>2, <1>4, ThreadMoves
<1>5. thread'[t] = thread[t] \/ Forward(t, thread'[t])
  BY <1>2, ThreadMoves
<1>6. /\ thread'[t] # "none"
      /\ thread'[t] \in {"created", "spinning", "io"} \/ thread'[t] = "ended"
  BY <1>1, <1>5 DEF Forward
<1>7. Sequential' = Sequential
  BY <1>1 DEF Sequential
<1>8. Creating' /\ JoiningOne'
  BY <1>1, <1>4, <1>5, <1>6, <1>7 DEF Stay, Stages, Creating, JoiningOne
<1>9. AtBarrier'
  BY <1>1, <1>4, <1>6, <1>7 DEF Stay, Stages, AtBarrier, Barrier
<1>10. Held'
  BY <1>1, <1>4, <1>5, <1>7 DEF Stay, Stages, Held, Forward
<1>11. AllHere'
  BY <1>1, <1>4, <1>5, <1>6 DEF Stay, Stages, AllHere, Announced, Forward
<1>12. Timed' /\ InTest'
  BY <1>1, <1>3, <1>7 DEF Stay, Stages, Timed, InTest
<1>13. NoStragglers'
  BY <1>1, <1>3 DEF NoStragglers
<1>14. Unfragmented'
  BY <1>1, <1>3, <1>4, <1>7 DEF Stay, Unfragmented
<1>15. QED
  BY <1>8, <1>9, <1>10, <1>11, <1>12, <1>13, <1>14 DEF Stay, Stages

(* The main thread keeps them. *)
LEMMA MainStay == TypeOK /\ Stay /\ Main => Stay'
<1> SUFFICES ASSUME TypeOK, Stay, Main PROVE Stay'
  OBVIOUS
<1>0. /\ thread \in [Threads -> ThreadStates]
      /\ i \in 0..NumThreads /\ test \in 0..4
      /\ timer \in [Tests -> {"zero", "running", "stopped"}]
  BY DEF TypeOK
<1> USE DEF Stay, Stages, Creating, JoiningOne, AtBarrier, Barrier, Held, AllHere, Timed, InTest,
            NoStragglers, Unfragmented, Sequential, At, Goto
<1>1. CASE SkipTest \/ NoMemory
  BY <1>1 DEF SkipTest, NoMemory
<1>2. CASE StartTest
  <2>1. /\ \A t \in Threads : thread'[t] = "none"
        /\ pc = "next" /\ pc' = "create" /\ i' = 0 /\ start' = FALSE /\ test \in Tests
        /\ UNCHANGED <<args, test>>
        /\ Sequential => timer'[test] = "running"
    BY <1>0, <1>2 DEF StartTest, Tests
  <2>2. QED
    BY <2>1, ThreadsFacts
<1>3. CASE Create
  BY <1>0, <1>3, ThreadsFacts DEF Create
<1>4. CASE CreateFails
  BY <1>4 DEF CreateFails, Exit
<1>5. CASE JoinOne
  BY <1>0, <1>5, ThreadsFacts DEF JoinOne
<1>6. CASE AllCreated
  BY <1>0, <1>6, ThreadsFacts DEF AllCreated, Leave, StopTimer, ioVars
<1>7. CASE Poll
  BY <1>7 DEF Poll, Announced
<1>8. CASE StartTimer
  BY <1>0, <1>8 DEF StartTimer, Announced
<1>9. CASE Open \/ GiveUp
  BY <1>9 DEF Open, GiveUp, Announced
<1>10. CASE Join \/ JoinLate
  BY <1>10 DEF Join, JoinLate, AllEnded, Leave
<1>11. CASE Finish
  BY <1>11 DEF Finish
<1>12. QED
  BY <1>1, <1>2, <1>3, <1>4, <1>5, <1>6, <1>7, <1>8, <1>9, <1>10, <1>11 DEF Main

-----------------------------------------------------------------------------
(* The theorems *)

LEMMA InitIInv == Init => IInv
<1> SUFFICES ASSUME Init PROVE IInv
  OBVIOUS
<1>1. pc = "next" /\ start = FALSE /\ \A t \in Threads : thread[t] = "none"
  BY DEF Init
<1>2. Stay
  BY <1>1 DEF Stay, Stages, Creating, JoiningOne, AtBarrier, Barrier, Held, AllHere, Timed,
     InTest, NoStragglers, Unfragmented
<1>3. QED
  BY <1>2, InitTypeOK DEF IInv

LEMMA NextIInv == IInv /\ [Next]_vars => IInv'
<1> SUFFICES ASSUME IInv, [Next]_vars PROVE IInv'
  OBVIOUS
<1>1. CASE Main
  BY <1>1, MainTypeOK, MainStay DEF IInv, Stay, Stages
<1>2. CASE \E t \in Threads : Thread(t)
  BY <1>2, ThreadTypeOK, ThreadStay DEF IInv
<1>3. CASE UNCHANGED vars
  <2>1. TypeOK'
    BY <1>3 DEF IInv, TypeOK, vars, mainVars, ioVars
  <2>2. Stay'
    BY <1>3 DEF IInv, Stay, Stages, Creating, JoiningOne, AtBarrier, Held, AllHere, Announced,
       Timed, InTest, NoStragglers, Unfragmented, Sequential, vars, mainVars
  <2>3. QED
    BY <2>1, <2>2 DEF IInv
<1>4. QED
  BY <1>1, <1>2, <1>3 DEF Next

LEMMA Invariance == Spec => []IInv
<1>1. QED
  BY InitIInv, NextIInv, PTL DEF Spec

(* Every variable keeps its type, for any number of threads. *)
THEOREM TypeCorrect == Spec => []TypeOK
<1>1. IInv => TypeOK
  BY DEF IInv
<1>2. QED
  BY <1>1, Invariance, PTL

(* Unless do_test gave the barrier up, threads work only on the clock and, *)
(* at the barrier, only once all of them have announced themselves.        *)
THEOREM WorkIsMeasured == Spec => []MeasuredWork
<1>1. IInv => MeasuredWork
  <2> SUFFICES ASSUME IInv, pc \notin {"joinlate", "exited"},
                      NEW t \in Threads, thread[t] = "io"
               PROVE  /\ timer[test] = "running"
                      /\ ~Sequential => \A u \in Threads : thread[u] \notin {"none", "created"}
    BY DEF MeasuredWork
  <2>1. pc \notin {"next", "done"}
    BY DEF IInv, Stay, NoStragglers
  <2>2. CASE Sequential
    <3>1. pc \in {"create", "joinone"}
      BY <2>1, <2>2 DEF IInv, TypeOK, Pcs, Stay, Stages, AtBarrier, Barrier
    <3>2. QED
      BY <2>2, <3>1 DEF IInv, Stay, Stages, Timed
  <2>3. CASE ~Sequential
    <3>1. pc = "join"
      <4>1. pc \notin {"create", "poll", "timer", "open", "giveup"}
        BY <2>3 DEF IInv, Stay, Stages, Held
      <4>2. pc # "joinone"
        BY <2>3 DEF IInv, Stay, Stages, JoiningOne
      <4>3. QED
        BY <2>1, <4>1, <4>2 DEF IInv, TypeOK, Pcs
    <3>2. QED
      BY <2>3, <3>1 DEF IInv, Stay, Stages, Timed, AllHere, Announced
  <2>4. QED
    BY <2>2, <2>3
<1>2. QED
  BY <1>1, Invariance, PTL

(* With -W there is never more than one thread. *)
THEOREM OneAfterTheOther == Spec => []Unfragmented
<1>1. IInv => Unfragmented
  BY DEF IInv, Stay
<1>2. QED
  BY <1>1, Invariance, PTL

(* No thread outlives the test it was created for. *)
THEOREM NobodyLeftBehind == Spec => []NoStragglers
<1>1. IInv => NoStragglers
  BY DEF IInv, Stay
<1>2. QED
  BY <1>1, Invariance, PTL


-----------------------------------------------------------------------------
(* The consistency check: regions that do not meet, written whole by the   *)
(* write test, are still their threads' own when they are read.            *)

LEMMA Multiples ==
  ASSUME NEW a \in Nat, NEW b \in Nat, NEW s \in Nat
  PROVE  /\ a < b => a * s + s <= b * s
         /\ a <= b => a * s <= b * s
<1>1. ASSUME a < b PROVE a * s + s <= b * s
  <2> DEFINE k == b - (a + 1)
  <2>1. k \in Nat /\ b = a + 1 + k
    BY <1>1
  <2>2. k * s \in Nat
    BY <2>1
  <2>3. b * s = a * s + s + k * s
    BY <2>1
  <2>4. QED
    BY <2>1, <2>2, <2>3
<1>2. QED
  BY <1>1

LEMMA Division ==
  ASSUME NEW t \in Nat, NEW p \in Nat \ {0}
  PROVE  /\ t \div p \in Nat /\ t % p \in Nat
         /\ t = p * (t \div p) + (t % p)
         /\ t % p <= t /\ t \div p <= t
<1>1. t \div p \in Nat /\ t % p \in Nat /\ t = p * (t \div p) + (t % p)
  OBVIOUS
<1>2. QED
  BY <1>1

(* Where a thread's region begins: inside the file or device. *)
LEMMA RegionInside ==
  ASSUME TypeOK, NEW t \in Threads, NEW b \in 0..Blocks - 1
  PROVE  /\ File(t) \in Threads
         /\ FileOffset(t) \in Nat
         /\ FileOffset(t) + b \in 0..LastBlock
<1> USE SizesAssumption, BlocksAssumption
<1>1. t \in Nat /\ t <= NumThreads - 1 /\ Stride \in Nat /\ b < Stride
  BY DEF Threads, Stride
<1>2. t \div PathsCount \in Nat /\ t % PathsCount \in Nat
      /\ t % PathsCount <= t /\ t \div PathsCount <= t
  BY <1>1, Division
<1>3. /\ (t \div PathsCount) * Stride \in Nat
      /\ (t \div PathsCount) * Stride + Stride <= NumThreads * Stride
  <2>1. t \div PathsCount < NumThreads
    BY <1>1, <1>2
  <2>2. (t \div PathsCount) * Stride \in Nat
    BY <1>1, <1>2
  <2>3. QED
    BY <1>1, <1>2, <2>1, <2>2, Multiples
<1>4. 0 * Stride + Stride <= NumThreads * Stride
  BY <1>1, Multiples
<1>5. NumThreads * Stride \in Nat /\ 0 * Stride = 0
  BY <1>1
<1>6. File(t) \in Threads
  BY <1>1, <1>2 DEF File, Threads
<1>7. FileOffset(t) \in Nat /\ FileOffset(t) <= (t \div PathsCount) * Stride + ThreadOffset
  BY <1>3 DEF FileOffset
<1>8. QED
  BY <1>1, <1>3, <1>5, <1>6, <1>7 DEF LastBlock

(* Two threads never share a block. *)
LEMMA RegionsApart ==
  ASSUME TypeOK, NEW t \in Threads, NEW u \in Threads, t # u, File(t) = File(u),
         NEW b \in 0..Blocks - 1, NEW c \in 0..Blocks - 1
  PROVE  FileOffset(t) + b # FileOffset(u) + c
<1> USE SizesAssumption, BlocksAssumption
<1> DEFINE q == t \div PathsCount
           r == u \div PathsCount
           first == IF args.first THEN ThreadOffset ELSE 0
<1>1. t \in Nat /\ u \in Nat /\ Stride \in Nat /\ b < Stride /\ c < Stride /\ args.raw
  BY DEF Threads, Stride, File
<1>2. /\ q \in Nat /\ t = PathsCount * q + (t % PathsCount)
      /\ r \in Nat /\ u = PathsCount * r + (u % PathsCount)
  BY <1>1, Division
<1>3. q # r
  BY <1>1, <1>2 DEF File
<1>4. /\ q < r => q * Stride + Stride <= r * Stride
      /\ r < q => r * Stride + Stride <= q * Stride
  BY <1>1, <1>2, Multiples
<1>5. q * Stride \in Nat /\ r * Stride \in Nat /\ first \in Nat
  BY <1>1, <1>2
<1>6. FileOffset(t) = q * Stride + first /\ FileOffset(u) = r * Stride + first
  BY <1>1 DEF FileOffset
<1> HIDE DEF q, r, first
<1>7. CASE q < r
  BY <1>1, <1>4, <1>5, <1>6, <1>7
<1>8. CASE r < q
  BY <1>1, <1>4, <1>5, <1>6, <1>8
<1>9. QED
  BY <1>2, <1>3, <1>7, <1>8

(* The first n blocks of t's region hold t's data. *)
Own(t, n) == \A b \in 0..Blocks - 1 : b < n => disk[File(t)][FileOffset(t) + b] = t

(* No call has failed, and everything that is read was written, in order. *)
Trusted ==
  /\ faults = 0 /\ WriteTest \in args.tests
  /\ args.raw => RandomWriteTest \notin args.tests

Selected == pc \notin {"next", "done", "exited"} => test \in args.tests

Written ==
  /\ test = WriteTest =>
       \A t \in Threads : /\ thread[t] = "io" => op[t] <= Blocks /\ Own(t, op[t])
                          /\ thread[t] = "ended" => Own(t, Blocks)
  /\ test > WriteTest /\ pc # "done" => \A t \in Threads : Own(t, Blocks)
  /\ code \notin {10, 11}

Sound == Selected /\ (Trusted => Written)

(* A block a thread writes into its own region leaves the others alone. *)
LEMMA OwnKept ==
  ASSUME TypeOK, UNCHANGED args, NEW t \in Threads, NEW b \in 0..Blocks - 1,
         disk' = [disk EXCEPT ![File(t)][FileOffset(t) + b] = t],
         NEW u \in Threads, NEW n \in Nat, Own(u, n)
  PROVE  /\ Own(u, n)'
         /\ disk'[File(t)][FileOffset(t) + b] = t
<1>1. /\ File(t) \in Threads /\ FileOffset(t) + b \in 0..LastBlock
      /\ disk \in [Threads -> [0..LastBlock -> Threads \cup {Absent, Foreign}]]
  BY RegionInside DEF TypeOK
<1>2. disk[File(t)] \in [0..LastBlock -> Threads \cup {Absent, Foreign}]
  BY <1>1
<1>3. disk'[File(t)][FileOffset(t) + b] = t
  BY <1>1, <1>2
<1>4. ASSUME NEW c \in 0..Blocks - 1, c < n PROVE disk'[File(u)][FileOffset(u) + c] = u
  <2>1. disk[File(u)][FileOffset(u) + c] = u
    BY <1>4 DEF Own
  <2>2. File(u) \in Threads /\ FileOffset(u) + c \in 0..LastBlock
    BY RegionInside
  <2>3. CASE u = t
    BY <1>1, <1>2, <2>1, <2>2, <2>3
  <2>4. CASE u # t /\ File(u) # File(t)
    BY <1>1, <2>1, <2>2, <2>4
  <2>5. CASE u # t /\ File(u) = File(t)
    <3>1. FileOffset(t) + b # FileOffset(u) + c
      BY <2>5, RegionsApart
    <3>2. QED
      BY <1>1, <1>2, <2>1, <2>2, <2>5, <3>1
  <2>6. QED
    BY <2>3, <2>4, <2>5
<1>5. File(u)' = File(u) /\ FileOffset(u)' = FileOffset(u)
  BY DEF File, FileOffset
<1>6. QED
  BY <1>3, <1>4, <1>5 DEF Own

(* What nobody writes stays. *)
LEMMA OwnSame ==
  ASSUME UNCHANGED <<args, disk>>, NEW u, NEW n
  PROVE  Own(u, n)' <=> Own(u, n)
BY DEF Own, File, FileOffset

LEMMA Trust ==
  ASSUME TypeOK, UNCHANGED args, Fault \/ UNCHANGED faults, Trusted'
  PROVE  Trusted /\ UNCHANGED faults /\ ~Fault
BY DEF TypeOK, Trusted, Fault

(* Opening a file for the write test empties it, and no other. *)
LEMMA OpenedOwn ==
  ASSUME TypeOK, UNCHANGED args, NEW t \in Threads, Opened(t), NEW u \in Threads, u # t,
         NEW n, Own(u, n)
  PROVE  Own(u, n)'
<1>1. CASE Truncates
  <2>1. File(u) = u /\ File(u)' = u /\ FileOffset(u)' = FileOffset(u)
    BY <1>1 DEF Truncates, File, FileOffset
  <2>2. disk'[u] = disk[u]
    BY <1>1 DEF Opened, TypeOK
  <2>3. QED
    BY <2>1, <2>2 DEF Own
<1>2. CASE ~Truncates
  BY <1>2, OwnSame DEF Opened
<1>3. QED
  BY <1>1, <1>2


LEMMA TargetsFacts ==
  ASSUME NEW t
  PROVE  /\ test = WriteTest \/ test = ReadTest =>
              Targets(t) = {FileOffset(t) + op[t]} /\ Limit(test) = Blocks
         /\ test = RandomWriteTest => Targets(t) = RandomBlocks
         /\ test = RandomReadTest => Targets(t) = {FileOffset(t) + b : b \in RandomBlocks}
BY DEF Targets, Limit, WriteTest, RandomWriteTest, ReadTest, RandomReadTest

(* The step of a thread that no call fails. *)
LEMMA ThreadWritten ==
  ASSUME TypeOK, Stay, Selected, Trusted, Written, NEW t \in Threads, Thread(t), ~Fault
  PROVE  Written'
<1> USE BlocksAssumption
<1>0. /\ UNCHANGED <<args, test>>
      /\ pc # "done" /\ test \in Tests /\ test \in args.tests
      /\ thread \in [Threads -> ThreadStates] /\ op \in [Threads -> Nat]
  BY ThreadMoves DEF Running, Stay, Stages, NoStragglers, InTest, Selected, TypeOK
<1>1. CASE Announce(t)
  <2>1. UNCHANGED <<disk, op, code>> /\ thread' = [thread EXCEPT ![t] = "spinning"]
    BY <1>1 DEF Announce, ioVars
  <2>2. QED
    BY <1>0, <2>1, OwnSame DEF Written
<1>2. CASE Begin(t)
  <2>1. UNCHANGED code /\ \/ Opened(t) /\ thread' = [thread EXCEPT ![t] = "io"]
                             /\ op' = [op EXCEPT ![t] = 0]
                          \/ /\ test # WriteTest /\ UNCHANGED <<op, disk>>
    BY <1>2 DEF Begin
  <2>2. test # WriteTest => UNCHANGED disk
    BY <2>1 DEF Opened, Truncates
  <2>3. CASE test = WriteTest
    <3>1. ASSUME NEW u \in Threads, u # t
          PROVE  thread'[u] = thread[u] /\ op'[u] = op[u]
      BY <1>0, <2>1, <2>3, <3>1
    <3>2. thread'[t] = "io" /\ op'[t] = 0 /\ Own(t, op[t])'
      BY <1>0, <2>1, <2>3 DEF Own
    <3>3. ASSUME NEW u \in Threads, u # t, NEW n, Own(u, n) PROVE Own(u, n)'
      BY <1>0, <2>1, <2>3, <3>3, OpenedOwn
    <3>4. QED
      BY <1>0, <2>1, <2>3, <3>1, <3>2, <3>3 DEF Written, Tests, WriteTest
  <2>4. CASE test # WriteTest
    BY <1>0, <2>1, <2>2, <2>4, OwnSame DEF Written, Tests, WriteTest
  <2>5. QED
    BY <2>3, <2>4
<1>3. CASE Write(t)
  <2>1. /\ UNCHANGED <<thread, code, pc>>
        /\ op' = [op EXCEPT ![t] = @ + 1]
        /\ op[t] < Limit(test) /\ thread[t] = "io"
    BY <1>3 DEF Write, AtWork, Counted, mainVars
  <2>2. CASE test = WriteTest
    <3>1. op[t] \in 0..Blocks - 1
          /\ disk' = [disk EXCEPT ![File(t)][FileOffset(t) + op[t]] = t]
      <4>1. Targets(t) = {FileOffset(t) + op[t]} /\ Limit(test) = Blocks
        BY <2>2, TargetsFacts
      <4>2. op[t] \in Nat /\ op[t] < Blocks
        BY <1>0, <2>1, <4>1
      <4>3. PICK b \in Targets(t) : disk' = [disk EXCEPT ![File(t)][b] = t]
        BY <1>3 DEF Write
      <4>4. b = FileOffset(t) + op[t]
        BY <4>1, <4>3
      <4>5. op[t] \in 0..Blocks - 1
        BY <4>2
      <4>6. QED
        BY <4>3, <4>4, <4>5
    <3>2. ASSUME NEW u \in Threads, u # t
          PROVE  op'[u] = op[u] /\ op[u] \in Nat
      BY <1>0, <2>1, <3>2
    <3>3. ASSUME NEW u \in Threads, NEW n \in Nat, Own(u, n) PROVE Own(u, n)'
      BY <1>0, <3>1, <3>3, OwnKept
    <3>4. op'[t] = op[t] + 1 /\ op'[t] \in Nat /\ op'[t] <= Blocks
      BY <1>0, <2>1, <3>1
    <3>5. Own(t, op[t])
      BY <2>1, <2>2 DEF Written
    <3>6. Own(t, op[t])'
      <4>1. disk'[File(t)][FileOffset(t) + op[t]] = t
        BY <1>0, <3>1, <3>5, OwnKept
      <4>2. /\ \A b \in 0..Blocks - 1 : b < op[t] => disk'[File(t)'][FileOffset(t)' + b] = t
            /\ File(t)' = File(t) /\ FileOffset(t)' = FileOffset(t)
        <5>1. PICK n \in Nat : n = op[t]
          BY <3>1
        <5>2. Own(t, n)'
          BY <3>3, <3>5, <5>1
        <5>3. File(t)' = File(t) /\ FileOffset(t)' = FileOffset(t)
          BY <1>0 DEF File, FileOffset
        <5>4. QED
          BY <5>1, <5>2, <5>3 DEF Own
      <4>3. QED
        BY <3>1, <3>4, <4>1, <4>2 DEF Own
    <3>7. QED
      BY <1>0, <2>1, <2>2, <3>2, <3>3, <3>4, <3>6 DEF Written, Tests, WriteTest
  <2>3. CASE test # WriteTest
    <3>1. test = RandomWriteTest /\ ~args.raw
      BY <1>0, <1>3, <2>3, OptionsAssumption DEF Write, Trusted, TypeOK
    <3>2. PICK b \in RandomBlocks : disk' = [disk EXCEPT ![File(t)][b] = t]
      BY <1>3, <3>1, TargetsFacts DEF Write
    <3>3. b \in 0..Blocks - 1 /\ FileOffset(t) + b = b
      BY <3>1, <3>2 DEF RandomBlocks, FileOffset
    <3>4. ASSUME NEW u \in Threads, Own(u, Blocks) PROVE Own(u, Blocks)'
      BY <1>0, <3>2, <3>3, <3>4, OwnKept
    <3>5. QED
      BY <1>0, <2>1, <2>3, <3>4 DEF Written, Tests, WriteTest
  <2>4. QED
    BY <2>2, <2>3
<1>4. CASE WriteBreaks(t)
  BY <1>4 DEF WriteBreaks
<1>5. CASE ReadBlock(t)
  <2>1. test # WriteTest /\ UNCHANGED <<disk, code, pc>>
    BY <1>5 DEF ReadBlock, mainVars, ReadTest, RandomReadTest, WriteTest
  <2>2. QED
    BY <1>0, <2>1, OwnSame DEF Written, Tests, WriteTest
<1>6. CASE CrcError(t)
  <2>1. PICK b \in Targets(t) : disk[File(t)][b] # t
    BY <1>6 DEF CrcError
  <2>2. test \in {ReadTest, RandomReadTest} /\ op[t] < Limit(test)
    BY <1>6 DEF CrcError, AtWork
  <2>3. \E c \in 0..Blocks - 1 : b = FileOffset(t) + c
    <3>1. CASE test = ReadTest
      BY <1>0, <2>1, <2>2, <3>1, TargetsFacts
    <3>2. CASE test = RandomReadTest
      BY <2>1, <3>2, TargetsFacts DEF RandomBlocks
    <3>3. QED
      BY <2>2, <3>1, <3>2
  <2>4. Own(t, Blocks)
    BY <1>0, <2>2 DEF Written, ReadTest, RandomReadTest, WriteTest
  <2>5. QED
    BY <2>1, <2>3, <2>4 DEF Own
<1>7. CASE ReadBreaks(t)
  BY <1>7 DEF ReadBreaks
<1>8. CASE End(t)
  <2>1. /\ UNCHANGED <<op, disk, code, pc>> /\ thread' = [thread EXCEPT ![t] = "ended"]
        /\ thread[t] = "io" /\ op[t] = Limit(test)
    BY <1>8 DEF End, Ended, mainVars, ioVars
  <2>2. CASE test = WriteTest
    <3>1. Own(t, Blocks)
      BY <2>1, <2>2 DEF Written, Limit
    <3>2. ASSUME NEW u \in Threads, u # t PROVE thread'[u] = thread[u]
      BY <1>0, <2>1, <3>2
    <3>3. QED
      BY <1>0, <2>1, <2>2, <3>1, <3>2, OwnSame DEF Written, Tests, WriteTest
  <2>3. CASE test # WriteTest
    BY <1>0, <2>1, <2>3, OwnSame DEF Written, Tests, WriteTest
  <2>4. QED
    BY <2>2, <2>3
<1>9. QED
  BY <1>1, <1>2, <1>3, <1>4, <1>5, <1>6, <1>7, <1>8 DEF Thread

LEMMA ThreadSound == TypeOK /\ Stay /\ Sound /\ (\E t \in Threads : Thread(t)) => Sound'
<1> SUFFICES ASSUME TypeOK, Stay, Sound, NEW t \in Threads, Thread(t) PROVE Sound'
  OBVIOUS
<1>1. Selected'
  BY ThreadMoves DEF Sound, Selected
<1>2. Fault \/ UNCHANGED faults
  BY DEF Thread, Announce, Begin, Write, WriteBreaks, ReadBlock, CrcError, ReadBreaks, End
<1>3. Trusted' => Trusted /\ ~Fault
  BY <1>2, Trust, ThreadMoves
<1>4. QED
  BY <1>1, <1>3, ThreadWritten DEF Sound

(* The main thread leaves the disk alone, and the write test only when     *)
(* every thread has ended.                                                 *)
LEMMA MainSound == TypeOK /\ Stay /\ Sound /\ Main => Sound'
<1> SUFFICES ASSUME TypeOK, Stay, Sound, Main PROVE Sound'
  OBVIOUS
<1>1. /\ UNCHANGED args
      /\ Fault \/ UNCHANGED faults
      /\ thread \in [Threads -> ThreadStates] /\ test \in 0..4
  BY DEF TypeOK, Main, SkipTest, StartTest, NoMemory, Create, CreateFails, JoinOne, AllCreated,
     Poll, StartTimer, Open, GiveUp, Join, JoinLate, Finish, Leave
<1>2. Selected'
  BY DEF Sound, Selected, Main, SkipTest, StartTest, NoMemory, Create, CreateFails, JoinOne,
     AllCreated, Poll, StartTimer, Open, GiveUp, Join, JoinLate, Finish, Leave, At, Goto, Exit
<1> SUFFICES ASSUME Trusted' PROVE Written'
  BY <1>2 DEF Sound
<1>3. Written /\ Trusted /\ ~Fault
  BY <1>1, Trust DEF Sound
<1>4. CASE SkipTest
  <2>1. test # WriteTest /\ UNCHANGED <<disk, code, pc>> /\ test' = test + 1 /\ pc # "done"
    BY <1>3, <1>4 DEF SkipTest, Trusted, ioVars, At
  <2>2. QED
    BY <1>1, <1>3, <2>1, OwnSame DEF Written, WriteTest
<1>5. CASE StartTest
  <2>1. /\ UNCHANGED <<disk, op, code, test>> /\ \A t \in Threads : thread'[t] = "none"
        /\ pc # "done"
    BY <1>5 DEF StartTest, ioVars, At
  <2>2. QED
    BY <1>1, <1>3, <2>1, OwnSame DEF Written, WriteTest
<1>6. CASE NoMemory \/ CreateFails
  BY <1>3, <1>6 DEF NoMemory, CreateFails
<1>7. CASE Create
  <2>1. /\ UNCHANGED <<disk, op, code, test>> /\ thread' = [thread EXCEPT ![i] = "created"]
        /\ pc # "done"
    BY <1>7 DEF Create, ioVars, At
  <2>2. QED
    BY <1>1, <1>3, <2>1, OwnSame DEF Written
<1>8. CASE JoinOne \/ Poll \/ StartTimer \/ Open \/ GiveUp
  <2>1. UNCHANGED <<disk, op, code, test, thread>> /\ pc # "done"
    BY <1>8 DEF JoinOne, Poll, StartTimer, Open, GiveUp, ioVars, At
  <2>2. QED
    BY <1>1, <1>3, <2>1, OwnSame DEF Written
<1>9. CASE AllCreated /\ ~Sequential
  <2>1. UNCHANGED <<disk, op, code, test, thread>> /\ pc # "done"
    BY <1>9 DEF AllCreated, ioVars, At
  <2>2. QED
    BY <1>1, <1>3, <2>1, OwnSame DEF Written
<1>10. CASE (AllCreated /\ Sequential) \/ Join \/ JoinLate
  <2>1. \A t \in Threads : thread[t] = "ended"
    <3>1. CASE AllCreated /\ Sequential
      BY <3>1, ThreadsFacts DEF AllCreated, At, Stay, Stages, Creating
    <3>2. QED
      BY <1>10, <3>1 DEF Join, JoinLate, AllEnded
  <2>2. UNCHANGED <<disk, code>> /\ test' = test + 1 /\ pc # "done"
    BY <1>10 DEF AllCreated, Join, JoinLate, Leave, ioVars, At
  <2>3. QED
    BY <1>1, <1>3, <2>1, <2>2, OwnSame DEF Written, WriteTest
<1>11. CASE Finish
  BY <1>3, <1>11 DEF Finish, Written, At, Goto, WriteTest
<1>12. QED
  BY <1>4, <1>5, <1>6, <1>7, <1>8, <1>9, <1>10, <1>11 DEF Main

(* A consistency check fails only on a drive that fails: threads cannot    *)
(* spoil each other's blocks, nor can a barrier that was given up.         *)
THEOREM ChecksAreRight == Spec => []NoFalseAlarm
<1>1. Init => Sound
  BY DEF Init, Sound, Selected, Written, WriteTest
<1>2. IInv /\ Sound /\ [Next]_vars => Sound'
  <2>1. IInv /\ Sound /\ UNCHANGED vars => Sound'
    BY OwnSame DEF Sound, Selected, Trusted, Written, vars, mainVars, ioVars
  <2>2. QED
    BY <2>1, ThreadSound, MainSound DEF IInv, Next
<1>3. IInv /\ Sound => NoFalseAlarm
  BY DEF IInv, TypeOK, Sound, Trusted, Written, NoFalseAlarm
<1>4. QED
  BY <1>1, <1>2, <1>3, Invariance, PTL DEF Spec

-----------------------------------------------------------------------------
(* What the tests have moved                                               *)

(* m is the sum of f over the threads: s[n] is that of the first n.        *)
SumOf(f, m) ==
  \E s \in [0..NumThreads -> Nat] :
    /\ s[0] = 0 /\ s[NumThreads] = m
    /\ \A t \in Threads : s[t + 1] = s[t] + f[t]

LEMMA SumOfNothing ==
  ASSUME NEW f, \A t \in Threads : f[t] = 0
  PROVE  SumOf(f, 0)
<1> DEFINE s == [n \in 0..NumThreads |-> 0]
<1>1. s \in [0..NumThreads -> Nat] /\ s[0] = 0 /\ s[NumThreads] = 0
  BY SizesAssumption
<1>2. ASSUME NEW t \in Threads PROVE s[t + 1] = s[t] + f[t]
  BY ThreadsFacts, SizesAssumption
<1>3. QED
  BY <1>1, <1>2 DEF SumOf

(* One more of one thread is one more in the sum.                          *)
LEMMA SumOfOneMore ==
  ASSUME NEW f \in [Threads -> Nat], NEW g, NEW m, NEW t \in Threads, SumOf(f, m),
         g[t] = f[t] + 1, \A u \in Threads \ {t} : g[u] = f[u]
  PROVE  SumOf(g, m + 1)
<1>1. PICK s \in [0..NumThreads -> Nat] :
        /\ s[0] = 0 /\ s[NumThreads] = m
        /\ \A u \in Threads : s[u + 1] = s[u] + f[u]
  BY DEF SumOf
<1> DEFINE r == [n \in 0..NumThreads |-> IF n > t THEN s[n] + 1 ELSE s[n]]
<1>2. /\ r \in [0..NumThreads -> Nat]
      /\ r[0] = 0 /\ r[NumThreads] = m + 1
  BY <1>1, ThreadsFacts, SizesAssumption
<1>3. ASSUME NEW u \in Threads PROVE r[u + 1] = r[u] + g[u]
  <2>1. u \in 0..NumThreads /\ u + 1 \in 0..NumThreads /\ t \in Int
        /\ s[u] \in Nat /\ s[u + 1] \in Nat
    BY <1>1, ThreadsFacts, SizesAssumption
  <2>2. CASE u = t
    BY <1>1, <2>1, <2>2
  <2>3. CASE u # t
    <3>1. s[u + 1] = s[u] + g[u] /\ g[u] \in Nat /\ (u > t <=> u + 1 > t)
      BY <1>1, <2>1, <2>3
    <3>2. QED
      BY <2>1, <3>1
  <2>4. QED
    BY <2>2, <2>3
<1>4. QED
  BY <1>2, <1>3 DEF SumOf

(* If all have the same, the sum is the product.                           *)
LEMMA SumOfEqual ==
  ASSUME NEW f, NEW L \in Nat, \A t \in Threads : f[t] = L, NEW m, SumOf(f, m)
  PROVE  m = NumThreads * L
<1>1. PICK s \in [0..NumThreads -> Nat] :
        /\ s[0] = 0 /\ s[NumThreads] = m
        /\ \A t \in Threads : s[t + 1] = s[t] + f[t]
  BY DEF SumOf
<1> DEFINE Wrong == {n \in 0..NumThreads : s[n] # n * L}
<1>2. ASSUME Wrong # {} PROVE FALSE
  <2>1. Wrong \subseteq Nat /\ \A n \in Wrong : n \in Nat /\ n <= NumThreads /\ s[n] # n * L
    BY SizesAssumption
  <2>2. \A n \in Nat : n <= NumThreads /\ n \notin Wrong => s[n] = n * L
    BY SizesAssumption
  <2> HIDE DEF Wrong
  <2>3. PICK n \in Wrong : \A k \in Wrong : <<k, n>> \notin OpToRel(<, Nat)
    BY <1>2, <2>1, NatLessThanWellFounded, WFMin
  <2>4. n \in Nat /\ n <= NumThreads /\ s[n] # n * L /\ n # 0
    BY <1>1, <2>1
  <2>5. n - 1 \in Threads /\ n - 1 \in 0..NumThreads /\ n - 1 \in Nat
    BY <2>4, SizesAssumption DEF Threads
  <2>6. n - 1 \notin Wrong
    <3>1. \A k \in Wrong : ~(k < n)
      BY <2>1, <2>3, <2>4 DEF OpToRel
    <3>2. QED
      BY <2>4, <3>1
  <2>7. s[n - 1] = (n - 1) * L
    BY <2>2, <2>4, <2>5, <2>6
  <2>8. s[(n - 1) + 1] = s[n - 1] + L /\ (n - 1) + 1 = n
    BY <1>1, <2>4, <2>5
  <2>9. n * L = (n - 1) * L + L
    BY <2>4
  <2>10. QED
    BY <2>4, <2>7, <2>8, <2>9
<1>3. NumThreads \in 0..NumThreads
  BY SizesAssumption
<1>4. QED
  BY <1>1, <1>2, <1>3

(* Nothing has failed, and what is read was written or is a device.        *)
Clean == faults = 0 /\ (args.raw \/ WriteTest \in args.tests)

Inside == pc \notin {"next", "done", "exited"}

(* What the tests will open and read is there.                             *)
Present ==
  /\ args.raw => \A f \in Threads, b \in 0..LastBlock : disk[f][b] # Absent
  /\ ~args.raw /\ test = WriteTest => \A t \in Threads : thread[t] \in {"io", "ended"} => t \in files
  /\ ~args.raw /\ test > WriteTest /\ pc # "done" => files = Threads

(* A thread ends when it has moved all it has to.                          *)
Progress ==
  Inside => \A t \in Threads : /\ thread[t] = "io" => op[t] <= Limit(test)
                               /\ thread[t] = "ended" => op[t] = Limit(test)

(* What each thread has moved in this test: op is reset when it begins.    *)
Share == [t \in Threads |-> IF thread[t] \in {"io", "ended"} THEN op[t] ELSE 0]

(* Of the tests before this one all blocks are counted, of those after it  *)
(* none, and of this one what the threads have moved.                      *)
Tally ==
  \A k \in Tests : /\ k < test /\ k \in args.tests => moved[k] = NumThreads * Limit(k)
                   /\ k > test \/ (k = test /\ pc = "next") => moved[k] = 0
                   /\ k = test /\ Inside => SumOf(Share, moved[k])

Account ==
  Clean /\ pc # "exited" => Present /\ Progress /\ Tally /\ (pc = "done" => test = 4)

LEMMA LimitFacts == \A k : Limit(k) \in Nat
BY SizesAssumption, BlocksAssumption DEF Limit

LEMMA ShareType == TypeOK => Share \in [Threads -> Nat]
BY DEF TypeOK, Share

(* A block that a read goes to is there: every device is full, and every   *)
(* file is written before it is read.                                      *)
LEMMA ReadsSucceed ==
  ASSUME TypeOK, Sound, Clean, Present, pc # "done", NEW t \in Threads,
         test \in {ReadTest, RandomReadTest}, op[t] < Limit(test), NEW b \in Targets(t)
  PROVE  Readable(File(t), b)
<1>1. op[t] \in Nat
  BY DEF TypeOK
<1>2. PICK c \in 0..Blocks - 1 : b = FileOffset(t) + c
  <2>1. CASE test = ReadTest
    BY <1>1, <2>1, TargetsFacts, BlocksAssumption
  <2>2. CASE test = RandomReadTest
    BY <2>2, TargetsFacts, BlocksAssumption DEF RandomBlocks
  <2>3. QED
    BY <2>1, <2>2
<1>3. File(t) \in Threads /\ b \in 0..LastBlock
  BY <1>2, RegionInside
<1>4. disk[File(t)][b] # Absent
  <2>1. CASE args.raw
    BY <1>3, <2>1 DEF Present
  <2>2. CASE ~args.raw
    <3>1. Own(t, Blocks)
      BY <2>2 DEF Clean, Sound, Trusted, Written, ReadTest, RandomReadTest, WriteTest
    <3>2. disk[File(t)][b] = t
      BY <1>2, <3>1, BlocksAssumption DEF Own
    <3>3. QED
      BY <3>2, ThreadsFacts DEF Absent
  <2>3. QED
    BY <2>1, <2>2
<1>5. b \in b..LastBlock
  BY <1>3
<1>6. QED
  BY <1>4, <1>5 DEF Readable

(* One more block, of the thread and of the test.                          *)
LEMMA OneMoreBlock ==
  ASSUME TypeOK, Progress, Tally, Inside, test \in Tests, NEW t \in Threads,
         AtWork(t), Counted(t), UNCHANGED <<args, pc, test, thread>>
  PROVE  Progress' /\ Tally'
<1>1. /\ op \in [Threads -> Nat] /\ moved \in [Tests -> Nat]
      /\ op' = [op EXCEPT ![t] = op[t] + 1]
      /\ moved' = [moved EXCEPT ![test] = moved[test] + 1]
      /\ thread[t] = "io" /\ op[t] < Limit(test)
  BY DEF TypeOK, AtWork, Counted
<1>2. op'[t] = op[t] + 1 /\ \A u \in Threads \ {t} : op'[u] = op[u]
  BY <1>1
<1>3. Progress'
  BY <1>1, <1>2, LimitFacts DEF Progress, Inside, Limit
<1>4. Share'[t] = Share[t] + 1 /\ \A u \in Threads \ {t} : Share'[u] = Share[u]
  BY <1>1, <1>2 DEF Share
<1>5. SumOf(Share, moved[test])
  BY DEF Tally
<1>6. SumOf(Share', moved[test] + 1)
  BY <1>4, <1>5, ShareType, SumOfOneMore
<1>7. moved'[test] = moved[test] + 1 /\ \A k \in Tests \ {test} : moved'[k] = moved[k]
  BY <1>1
<1>8. QED
  BY <1>3, <1>6, <1>7 DEF Tally, Inside, Tests

(* A step that counts nothing.                                             *)
LEMMA TallySame ==
  ASSUME Tally, UNCHANGED <<args, test, moved>>, Share' = Share,
         pc' = pc \/ (Inside /\ Inside')
  PROVE  Tally'
BY DEF Tally, Inside

LEMMA ThreadAccount ==
  ASSUME TypeOK, Stay, Sound, Account, NEW t \in Threads, Thread(t)
  PROVE  Account'
<1> SUFFICES ASSUME Clean', pc' # "exited"
             PROVE  (Present /\ Progress /\ Tally /\ (pc = "done" => test = 4))'
  BY DEF Account
<1>1. Fault \/ UNCHANGED faults
  BY DEF Thread, Announce, Begin, Write, WriteBreaks, ReadBlock, CrcError, ReadBreaks, End
<1>2. /\ Running /\ UNCHANGED <<args, pc, test>>
      /\ thread[t] \in {"created", "spinning", "io"}
  BY ThreadMoves
<1>3. Clean /\ ~Fault
  BY <1>1, <1>2 DEF Clean, Fault, TypeOK
<1>4. Present /\ Progress /\ Tally /\ Inside /\ Inside' /\ pc # "done" /\ test \in Tests
  BY <1>2, <1>3 DEF Account, Running, Stay, NoStragglers, Stages, InTest, Inside
<1>5. /\ thread \in [Threads -> ThreadStates] /\ op \in [Threads -> Nat]
      /\ disk \in [Threads -> [0..LastBlock -> Threads \cup {Absent, Foreign}]]
  BY DEF TypeOK
<1>6. CASE Announce(t)
  <2>1. /\ UNCHANGED <<op, moved, files, disk>> /\ thread[t] = "created"
        /\ thread' = [thread EXCEPT ![t] = "spinning"]
    BY <1>6 DEF Announce, ioVars
  <2>2. thread'[t] = "spinning" /\ \A u \in Threads \ {t} : thread'[u] = thread[u]
    BY <1>5, <2>1
  <2>3. Share' = Share
    BY <2>1, <2>2 DEF Share
  <2>4. Tally'
    BY <1>2, <1>4, <2>1, <2>3, TallySame
  <2>5. QED
    BY <1>2, <1>4, <2>1, <2>2, <2>4 DEF Present, Progress, Inside, Limit
<1>7. CASE Begin(t)
  <2>1. t \in files \/ args.raw \/ test = WriteTest
    BY <1>4 DEF Present, Tests, WriteTest
  <2>2. /\ Opened(t) /\ UNCHANGED moved /\ thread[t] = "spinning"
        /\ thread' = [thread EXCEPT ![t] = "io"] /\ op' = [op EXCEPT ![t] = 0]
    BY <1>3, <1>7, <2>1 DEF Begin
  <2>3. thread'[t] = "io" /\ \A u \in Threads \ {t} : thread'[u] = thread[u]
    BY <1>5, <2>2
  <2>4. op'[t] = 0 /\ \A u \in Threads \ {t} : op'[u] = op[u]
    BY <1>5, <2>2
  <2>5. Share' = Share
    BY <2>2, <2>3, <2>4 DEF Share
  <2>6. Tally'
    BY <1>2, <1>4, <2>2, <2>5, TallySame
  <2>7. Progress'
    BY <1>2, <1>4, <2>3, <2>4, LimitFacts DEF Progress, Inside
  <2>8. Present'
    BY <1>2, <1>4, <2>2, <2>3 DEF Present, Opened, Truncates, Tests, WriteTest
  <2>9. QED
    BY <1>2, <1>4, <2>6, <2>7, <2>8
<1>8. CASE Write(t)
  <2>1. AtWork(t) /\ Counted(t) /\ UNCHANGED <<thread, files>>
    BY <1>8 DEF Write
  <2>2. Progress' /\ Tally'
    BY <1>2, <1>4, <2>1, OneMoreBlock
  <2>3. PICK b : disk' = [disk EXCEPT ![File(t)][b] = t]
    BY <1>8 DEF Write
  <2>4. ASSUME args.raw, NEW f \in Threads, NEW c \in 0..LastBlock PROVE disk'[f][c] # Absent
    <3>1. disk[f][c] # Absent /\ t # Absent
      BY <1>4, <2>4, ThreadsFacts DEF Present, Absent
    <3>2. disk[f] \in [0..LastBlock -> Threads \cup {Absent, Foreign}]
      BY <1>5
    <3>3. CASE f = File(t)
      <4>1. disk'[f] = [disk[f] EXCEPT ![b] = t]
        BY <1>5, <2>3, <3>3
      <4>2. QED
        BY <3>1, <3>2, <4>1
    <3>4. CASE f # File(t)
      BY <1>5, <2>3, <3>1, <3>4
    <3>5. QED
      BY <3>3, <3>4
  <2>5. Present'
    BY <1>2, <1>4, <2>1, <2>4 DEF Present
  <2>6. QED
    BY <1>2, <1>4, <2>2, <2>5
<1>9. CASE ReadBlock(t)
  <2>1. AtWork(t) /\ test \in {ReadTest, RandomReadTest} /\ UNCHANGED <<files, disk>>
    BY <1>9 DEF ReadBlock
  <2>2. \A b \in Targets(t) : Readable(File(t), b)
    BY <1>3, <1>4, <2>1, ReadsSucceed DEF AtWork
  <2>3. Counted(t) /\ UNCHANGED thread
    BY <1>9, <2>2 DEF ReadBlock
  <2>4. Progress' /\ Tally'
    BY <1>2, <1>4, <2>1, <2>3, OneMoreBlock
  <2>5. Present'
    BY <1>2, <1>4, <2>1, <2>3 DEF Present
  <2>6. QED
    BY <1>2, <1>4, <2>4, <2>5
<1>10. CASE End(t)
  <2>1. /\ UNCHANGED <<op, moved, files, disk>> /\ thread[t] = "io" /\ op[t] = Limit(test)
        /\ thread' = [thread EXCEPT ![t] = "ended"]
    BY <1>10 DEF End, Ended, ioVars
  <2>2. thread'[t] = "ended" /\ \A u \in Threads \ {t} : thread'[u] = thread[u]
    BY <1>5, <2>1
  <2>3. Share' = Share
    BY <2>1, <2>2 DEF Share
  <2>4. Tally'
    BY <1>2, <1>4, <2>1, <2>3, TallySame
  <2>5. Progress'
    BY <1>2, <1>4, <2>1, <2>2 DEF Progress, Inside
  <2>6. Present'
    BY <1>2, <1>4, <2>1, <2>2 DEF Present
  <2>7. QED
    BY <1>2, <1>4, <2>4, <2>5, <2>6
<1>11. CASE CrcError(t)
  BY <1>11 DEF CrcError, Exit, Goto
<1>12. CASE WriteBreaks(t) \/ ReadBreaks(t)
  BY <1>3, <1>12 DEF WriteBreaks, ReadBreaks
<1>13. QED
  BY <1>6, <1>7, <1>8, <1>9, <1>10, <1>11, <1>12 DEF Thread

(* A test that all threads have ended is over with all its blocks.         *)
LEMMA TestOver ==
  ASSUME TypeOK, Present, Progress, Tally, Inside, test \in Tests,
         \A t \in Threads : thread[t] = "ended",
         UNCHANGED <<args, moved, files, disk>>, test' = test + 1, pc' = "next"
  PROVE  (Present /\ Progress /\ Tally)'
<1>1. \A t \in Threads : Share[t] = Limit(test)
  BY DEF Progress, Share
<1>2. moved[test] = NumThreads * Limit(test)
  BY <1>1, LimitFacts, SumOfEqual DEF Tally
<1>3. Tally'
  BY <1>2 DEF Tally, Inside, Tests
<1>4. files \subseteq Threads
  BY DEF TypeOK
<1>5. Present'
  BY <1>4 DEF Present, Inside, Tests, WriteTest
<1>6. QED
  BY <1>3, <1>5 DEF Progress, Inside

LEMMA MainAccount == TypeOK /\ Stay /\ Sound /\ Account /\ Main => Account'
<1> SUFFICES ASSUME TypeOK, Stay, Sound, Account, Main, Clean', pc' # "exited"
             PROVE  (Present /\ Progress /\ Tally /\ (pc = "done" => test = 4))'
  BY DEF Account
<1>1. /\ UNCHANGED <<args, moved>>
      /\ Fault \/ UNCHANGED faults
      /\ thread \in [Threads -> ThreadStates] /\ test \in 0..4
      /\ pc \notin {"done", "exited"}
  BY DEF TypeOK, Main, SkipTest, StartTest, NoMemory, Create, CreateFails, JoinOne, AllCreated,
     Poll, StartTimer, Open, GiveUp, Join, JoinLate, Finish, Leave, ioVars, At
<1>2. Clean /\ ~Fault
  BY <1>1 DEF Clean, Fault, TypeOK
<1>3. Present /\ Progress /\ Tally
  BY <1>1, <1>2 DEF Account
<1>4. pc # "next" => Inside /\ test \in Tests
  BY <1>1 DEF Inside, Stay, Stages, InTest
<1>5. CASE SkipTest
  <2>1. /\ UNCHANGED <<files, disk, pc>> /\ pc = "next" /\ test' = test + 1
        /\ test \notin args.tests
    BY <1>5 DEF SkipTest, ioVars, At
  <2>2. Tally'
    BY <1>1, <1>3, <2>1 DEF Tally, Inside, Tests
  <2>3. Present'
    BY <1>1, <1>2, <1>3, <2>1 DEF Present, Clean, WriteTest
  <2>4. QED
    BY <2>1, <2>2, <2>3 DEF Progress, Inside
<1>6. CASE StartTest
  <2>1. /\ UNCHANGED <<files, disk, test>> /\ pc = "next" /\ pc' = "create"
        /\ test \in Tests /\ \A t \in Threads : thread'[t] = "none"
    BY <1>1, <1>6 DEF StartTest, ioVars, At, Goto, Tests
  <2>2. \A t \in Threads : Share'[t] = 0
    BY <2>1 DEF Share
  <2>3. SumOf(Share', 0)
    BY <2>2, SumOfNothing
  <2>4. Tally'
    BY <1>1, <1>3, <2>1, <2>3 DEF Tally, Inside
  <2>5. Present' /\ Progress'
    BY <1>1, <1>3, <2>1 DEF Present, Progress
  <2>6. QED
    BY <2>1, <2>4, <2>5
<1>7. CASE NoMemory \/ CreateFails
  BY <1>2, <1>7 DEF NoMemory, CreateFails
<1>8. CASE Create
  <2>1. /\ UNCHANGED <<op, files, disk, test>> /\ pc = "create" /\ pc' \in {"create", "joinone"}
        /\ thread' = [thread EXCEPT ![i] = "created"]
        /\ i \in Threads /\ thread[i] = "none"
    <3>1. i \in Threads
      BY <1>8, SizesAssumption DEF Create, TypeOK, Threads
    <3>2. thread[i] = "none"
      BY <1>8, <3>1, ThreadsFacts DEF Create, At, Stay, Stages, Creating
    <3>3. QED
      BY <1>8, <3>1, <3>2 DEF Create, ioVars, At, Goto
  <2>2. thread'[i] = "created" /\ \A u \in Threads \ {i} : thread'[u] = thread[u]
    BY <1>1, <2>1
  <2>3. Share' = Share
    BY <2>1, <2>2 DEF Share
  <2>4. Tally'
    BY <1>1, <1>3, <2>1, <2>3, TallySame DEF Inside
  <2>5. Present' /\ Progress'
    BY <1>1, <1>3, <2>1, <2>2 DEF Present, Progress, Inside, Limit
  <2>6. QED
    BY <2>1, <2>4, <2>5
<1>9. CASE JoinOne \/ Poll \/ StartTimer \/ Open \/ GiveUp \/ (AllCreated /\ ~Sequential)
  <2>1. /\ UNCHANGED <<thread, op, files, disk, test>> /\ Inside /\ Inside'
    BY <1>9 DEF JoinOne, Poll, StartTimer, Open, GiveUp, AllCreated, ioVars, At, Goto, Inside
  <2>2. Share' = Share
    BY <2>1 DEF Share
  <2>3. Tally'
    BY <1>1, <1>3, <2>1, <2>2, TallySame
  <2>4. Present' /\ Progress'
    BY <1>1, <1>3, <2>1 DEF Present, Progress, Inside, Limit
  <2>5. QED
    BY <2>1, <2>3, <2>4 DEF Inside
<1>10. CASE (AllCreated /\ Sequential) \/ Join \/ JoinLate
  <2>1. \A t \in Threads : thread[t] = "ended"
    <3>1. CASE AllCreated /\ Sequential
      BY <3>1, ThreadsFacts DEF AllCreated, At, Stay, Stages, Creating
    <3>2. QED
      BY <1>10, <3>1 DEF Join, JoinLate, AllEnded
  <2>2. UNCHANGED <<files, disk>> /\ test' = test + 1 /\ pc' = "next" /\ pc # "next"
    BY <1>10 DEF AllCreated, Join, JoinLate, Leave, ioVars, At, Goto
  <2>3. QED
    BY <1>1, <1>3, <1>4, <2>1, <2>2, TestOver
<1>11. CASE Finish
  <2>1. test' = 4 /\ test = 4 /\ pc' = "done" /\ (args.raw => disk' = disk)
    BY <1>11 DEF Finish, At, Goto
  <2>2. QED
    BY <1>1, <1>3, <2>1 DEF Present, Progress, Tally, Inside, WriteTest
<1>12. QED
  BY <1>5, <1>6, <1>7, <1>8, <1>9, <1>10, <1>11 DEF Main

LEMMA InitAccount == Init => Account
<1> SUFFICES ASSUME Init PROVE Account
  OBVIOUS
<1>1. /\ pc = "next" /\ test = 0 /\ \A t \in Threads : thread[t] = "none"
      /\ \A k \in Tests : moved[k] = 0
      /\ args.raw => \A f \in Threads, b \in 0..LastBlock : disk[f][b] = Foreign
  BY DEF Init
<1>2. QED
  BY <1>1 DEF Account, Present, Progress, Tally, Inside, Tests, WriteTest, Foreign, Absent

(* If nothing fails, every selected test moves all blocks of all threads,  *)
(* in whatever order they go and whether the barrier held or not.          *)
THEOREM EverythingMoved == Spec => []AllMoved
<1>1. Init => Sound
  BY DEF Init, Sound, Selected, Written, WriteTest
<1>2. IInv /\ Sound /\ [Next]_vars => Sound'
  <2>1. IInv /\ Sound /\ UNCHANGED vars => Sound'
    BY OwnSame DEF Sound, Selected, Trusted, Written, vars, mainVars, ioVars
  <2>2. QED
    BY <2>1, ThreadSound, MainSound DEF IInv, Next
<1>3. IInv /\ Sound /\ Account /\ [Next]_vars => Account'
  <2>1. Account /\ UNCHANGED vars => Account'
    BY DEF Account, Clean, Present, Progress, Tally, Inside, Share, Limit, vars, mainVars, ioVars
  <2>2. QED
    BY <2>1, ThreadAccount, MainAccount DEF IInv, Next
<1>4. IInv /\ Account => AllMoved
  <2> SUFFICES ASSUME IInv, Account, pc = "done", Clean, NEW k \in args.tests
               PROVE  moved[k] = NumThreads * Limit(k)
    BY DEF AllMoved, Clean
  <2>1. k \in Tests
    BY OptionsAssumption DEF IInv, TypeOK
  <2>2. QED
    BY <2>1 DEF Account, Tally, Tests
<1>5. QED
  BY <1>1, <1>2, <1>3, <1>4, InitAccount, Invariance, PTL DEF Spec

=============================================================================
