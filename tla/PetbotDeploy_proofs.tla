------------------------ MODULE PetbotDeploy_proofs -------------------------
(***************************************************************************)
(* Proofs about PetbotDeploy, for any number of failed commands and power  *)
(* cuts: what exit 0 of the flashing script and the announcement of a      *)
(* recovery vouch for, and that the recovery system outlives all of it.    *)
(***************************************************************************)
EXTENDS PetbotDeploy, TLAPS

-----------------------------------------------------------------------------
(* Types *)

(* What the small sets of the model hold. *)
LEMMA PcFacts ==
  /\ "wipe" \in Pcs /\ "loader" \in Pcs /\ "partition" \in Pcs /\ "format" \in Pcs
  /\ "copyboot" \in Pcs /\ "images" \in Pcs /\ "mark" \in Pcs /\ "copyconfig" \in Pcs
  /\ "verdict" \in Pcs /\ "rcS" \in Pcs /\ "config" \in Pcs /\ "update" \in Pcs
  /\ "dhclient" \in Pcs /\ "marker" \in Pcs /\ "mkfs6" \in Pcs /\ "mkfs5" \in Pcs
  /\ "mkfs2" \in Pcs /\ "mount" \in Pcs /\ "rsyncsystem" \in Pcs /\ "rsyncconfig" \in Pcs
  /\ "unmark" \in Pcs /\ "off" \in Pcs /\ "serving" \in Pcs /\ "halted" \in Pcs
BY DEF Pcs, FlashPcs, CheckPcs, RecoveryPcs

LEMMA SetFacts ==
  /\ "p1" \in Parts /\ "p2" \in Parts /\ "p3" \in Parts /\ "p5" \in Parts /\ "p6" \in Parts
  /\ "blank" \in Contents /\ "partial" \in Contents /\ "whole" \in Contents
  /\ "firmware" \in Contents
  /\ "none" \in Verdicts /\ "complete" \in Verdicts /\ "recovered" \in Verdicts
  /\ "recovery_failed" \in Verdicts
BY DEF Parts, Contents, Verdicts

(* The count of faults stays within its bound. *)
LEMMA FaultType ==
  ASSUME faults \in 0..MaxFaults, Fault \/ UNCHANGED faults
  PROVE  faults' \in 0..MaxFaults
BY MaxFaultsAssumption DEF Fault

(* mkfs, whether it works or not, keeps the types of what is on the disk. *)
FilesOK ==
  /\ fs \in [Parts -> BOOLEAN]
  /\ data \in [Parts -> Contents]
  /\ marked \subseteq {"p2", "p3"}
  /\ dhclient \in BOOLEAN

LEMMA MkfsType ==
  ASSUME FilesOK, NEW p \in Parts,
         Made(p) \/ NotMade(p) \/ UNCHANGED <<fs, data, marked, dhclient>>
  PROVE  FilesOK'
BY SetFacts DEF FilesOK, Made, NotMade

LEMMA CopyOfConfigType == \A p : CopyOfConfig(p) \subseteq Contents
BY SetFacts DEF CopyOfConfig

LEMMA DataType ==
  ASSUME data \in [Parts -> Contents], NEW p \in Parts, NEW c \in Contents,
         data' = [data EXCEPT ![p] = c]
  PROVE  data' \in [Parts -> Contents]
OBVIOUS

(* The initial state is well typed. *)
LEMMA InitTypeOK == Init => TypeOK
<1>1. Init => faults \in 0..MaxFaults
  BY MaxFaultsAssumption DEF Init
<1>2. QED
  BY <1>1, PcFacts, SetFacts DEF Init, TypeOK

(* Flashing keeps the types. *)
LEMMA FlashTypeOK == TypeOK /\ Flash => TypeOK'
<1> SUFFICES ASSUME TypeOK, Flash PROVE TypeOK'
  OBVIOUS
<1> USE FaultType, PcFacts, SetFacts
<1> USE DEF TypeOK, At, Goto, Exit, diskVars
<1>1. CASE Wipe
  BY <1>1 DEF Wipe
<1>2. CASE CopyLoader
  BY <1>2 DEF CopyLoader
<1>3. CASE Partition
  BY <1>3 DEF Partition, Prefixes, Leftovers, Parts
<1>4. ASSUME NEW p \in Parts, FormatJob(p) PROVE TypeOK'
  <2>1. FilesOK'
    BY <1>4, MkfsType DEF FormatJob, FilesOK
  <2>2. QED
    BY <1>4, <2>1 DEF FormatJob, FilesOK
<1>5. ASSUME NEW p \in Parts, ImageJob(p) PROVE TypeOK'
  <2>1. data' \in [Parts -> Contents]
    BY <1>5, DataType DEF ImageJob
  <2>2. fs' \in [Parts -> BOOLEAN]
    BY <1>5 DEF ImageJob
  <2>3. marked' \subseteq {"p2", "p3"} /\ faults' \in 0..MaxFaults
    BY <1>5 DEF ImageJob
  <2>4. QED
    BY <1>5, <2>1, <2>2, <2>3 DEF ImageJob
<1>6. CASE WaitFormats \/ WaitImages
  BY <1>6 DEF WaitFormats, WaitImages, Wait
<1>7. CASE CopyBoot
  BY <1>7 DEF CopyBoot
<1>8. CASE Mark
  BY <1>8 DEF Mark
<1>9. CASE CopyConfig
  <2>1. data' \in [Parts -> Contents]
    BY <1>9, DataType, CopyOfConfigType DEF CopyConfig
  <2>2. QED
    BY <1>9, <2>1 DEF CopyConfig
<1>10. CASE FlashVerdict
  BY <1>10 DEF FlashVerdict
<1>11. QED
  BY <1>1, <1>2, <1>3, <1>4, <1>5, <1>6, <1>7, <1>8, <1>9, <1>10 DEF Flash

(* The check at boot keeps the types. *)
LEMMA CheckTypeOK == TypeOK /\ Check => TypeOK'
<1> SUFFICES ASSUME TypeOK, Check PROVE TypeOK'
  OBVIOUS
<1> USE FaultType, PcFacts, SetFacts
<1> USE DEF TypeOK, At, Goto, diskVars
<1>1. CASE RcS
  BY <1>1 DEF RcS
<1>2. CASE Config
  BY <1>2 DEF Config
<1>3. CASE ConfigBreaks
  <2>1. FilesOK'
    BY <1>3, MkfsType, DataType DEF ConfigBreaks, FilesOK
  <2>2. QED
    BY <1>3, <2>1 DEF ConfigBreaks, FilesOK
<1>4. CASE ConfigSkipped
  BY <1>4 DEF ConfigSkipped
<1>5. CASE Update
  <2>1. FilesOK' /\ UNCHANGED <<table, loader>>
    BY <1>5, MkfsType DEF Update, FilesOK
  <2>2. QED
    BY <1>5, <2>1 DEF Update, FilesOK
<1>6. CASE Dhclient
  BY <1>6 DEF Dhclient
<1>7. CASE Marker
  BY <1>7 DEF Marker
<1>8. QED
  BY <1>1, <1>2, <1>3, <1>4, <1>5, <1>6, <1>7 DEF Check

(* Recovery keeps the types.  It runs from a system partition. *)
LEMMA RecoveryTypeOK == TypeOK /\ root \in Parts /\ Recovery => TypeOK'
<1> SUFFICES ASSUME TypeOK, root \in Parts, Recovery PROVE TypeOK'
  OBVIOUS
<1> USE FaultType, PcFacts, SetFacts
<1> USE DEF TypeOK, At, Goto, RecoveryFailed, diskVars
<1>1. ASSUME NEW p \in Parts, NEW l, NEW m \in Pcs, Mkfs(l, p, m) PROVE TypeOK'
  <2>1. FilesOK'
    BY <1>1, MkfsType DEF Mkfs, FilesOK
  <2>2. QED
    BY <1>1, <2>1 DEF Mkfs, FilesOK
<1>2. CASE Mkfs6 \/ Mkfs5 \/ Mkfs2
  BY <1>1, <1>2 DEF Mkfs6, Mkfs5, Mkfs2
<1>3. CASE Mount
  BY <1>3 DEF Mount
<1>4. CASE RsyncSystem
  <2>1. data' \in [Parts -> Contents]
    BY <1>4, DataType DEF RsyncSystem
  <2>2. QED
    BY <1>4, <2>1 DEF RsyncSystem
<1>5. CASE RsyncConfig
  <2>1. data' \in [Parts -> Contents]
    BY <1>5, DataType, CopyOfConfigType DEF RsyncConfig
  <2>2. QED
    BY <1>5, <2>1 DEF RsyncConfig
<1>6. CASE Unmark
  BY <1>6 DEF Unmark, Recovered
<1>7. QED
  BY <1>2, <1>3, <1>4, <1>5, <1>6 DEF Recovery

(* So do power and the boot loader. *)
LEMMA PowerTypeOK ==
  TypeOK /\ (InsertCard \/ RemoveCard \/ BootCard \/ Boot("p2") \/ Boot("p3") \/ SwitchOff)
    => TypeOK'
BY PcFacts, SetFacts
   DEF TypeOK, InsertCard, RemoveCard, BootCard, Boot, SwitchOff, PowerOn, Goto, diskVars

(* Only the system partitions ever hold the marker: a copy puts it on p2. *)
LEMMA PowerCutTypeOK == TypeOK /\ PowerCut => TypeOK'
<1> SUFFICES ASSUME TypeOK, PowerCut PROVE TypeOK'
  OBVIOUS
<1>1. table' \subseteq Parts /\ loader' \in BOOLEAN
  <2>1. /\ table' \in CASE pc = "wipe" -> {table, {}} [] pc = "partition" -> Prefixes \cup Leftovers
                      [] OTHER -> {table}
        /\ loader' \in IF pc = "wipe" THEN {loader, FALSE} ELSE {loader}
    BY DEF PowerCut
  <2>2. table \subseteq Parts /\ loader \in BOOLEAN
    BY DEF TypeOK
  <2>3. \A s \in Prefixes \cup Leftovers : s \subseteq Parts
    BY DEF Prefixes, Leftovers, Parts
  <2>4. table' \in {table, {}} \cup Prefixes \cup Leftovers
    BY <2>1
  <2>5. QED
    BY <2>1, <2>2, <2>3, <2>4
<1>2. fs' \in [Parts -> BOOLEAN] /\ data' \in [Parts -> Contents]
  BY DEF PowerCut, TypeOK, Contents
<1>3. dhclient' \in BOOLEAN
  BY DEF PowerCut, TypeOK
<1>4. marked' \subseteq {"p2", "p3"}
  BY DEF PowerCut, TypeOK, MarksArriving, Writes
<1>5. faults' \in 0..MaxFaults
  BY MaxFaultsAssumption DEF PowerCut, TypeOK, Fault
<1>6. QED
  BY <1>1, <1>2, <1>3, <1>4, <1>5 DEF PowerCut, TypeOK, Goto, Pcs

-----------------------------------------------------------------------------
(* The inductive invariant: how far each script has come *)

(* A check or a recovery runs from one of the two systems, and what the    *)
(* flashing script left in the page cache is out before anything else.     *)
RunsFrom ==
  /\ pc \in CheckPcs \cup RecoveryPcs \cup {"serving"} => root \in {"p2", "p3"}
  /\ "marker" \in dirty => pc \in {"copyconfig", "verdict"}

Announced ==
  /\ verdict = "recovered" => pc = "off"
  /\ verdict = "complete" => pc \in {"halted", "off"} /\ dirty = {}

(* What exit 0 vouches for, as a state of the disk. *)
Vouched ==
  /\ Mountable("p1") /\ data["p1"] = "whole"
  /\ Mountable("p3") /\ Mountable("p5")
  /\ data["p3"] = "whole" => data["p5"] = "whole"

FlashSoFar ==
  /\ pc \in {"images", "mark", "copyconfig"} => Mountable("p1") /\ data["p1"] = "whole"
  /\ pc = "images" => "p1" \notin jobs
  /\ pc = "copyconfig" => Mountable("p3")
  /\ pc = "verdict" /\ status = 0 => Vouched

RecoverySoFar ==
  /\ pc \in {"mkfs5", "mkfs2", "mount", "rsyncsystem", "rsyncconfig", "unmark"} => Mountable("p6")
  /\ pc \in {"mkfs2", "mount", "rsyncsystem", "rsyncconfig", "unmark"} => Mountable("p5")
  /\ pc \in {"mount", "rsyncsystem", "rsyncconfig", "unmark"} => root = "p3" /\ Mountable("p2")
  /\ pc \in {"rsyncconfig", "unmark"} => data["p2"] = data["p3"]
  /\ pc = "unmark" /\ data["p3"] = "whole" => data["p5"] = "whole"

IInv ==
  /\ TypeOK /\ RunsFrom /\ Announced
  /\ FlashSoFar /\ FlashChecked
  /\ RecoverySoFar /\ RecoveryVerdict

LEMMA InitIInv == Init => IInv
<1> SUFFICES ASSUME Init PROVE IInv
  OBVIOUS
<1>1. TypeOK
  BY InitTypeOK
<1>2. QED
  BY <1>1 DEF Init, IInv, RunsFrom, Announced, FlashSoFar, FlashChecked, RecoverySoFar,
              RecoveryVerdict, CheckPcs, RecoveryPcs

(* Each step of the flashing script hands on what it was sure of. *)
LEMMA FlashIInv == IInv /\ Flash => IInv'
<1> SUFFICES ASSUME IInv, Flash PROVE IInv'
  OBVIOUS
<1>0. TypeOK'
  BY FlashTypeOK DEF IInv
<1> USE SetFacts
<1> USE DEF At, Goto, Exit, diskVars, Mountable, CheckPcs, RecoveryPcs, IInv, RunsFrom, Announced,
        FlashSoFar, FlashChecked, RecoverySoFar, RecoveryVerdict
<1>1. CASE Wipe
  BY <1>0, <1>1 DEF Wipe
<1>2. CASE CopyLoader
  BY <1>0, <1>2 DEF CopyLoader
<1>3. CASE Partition
  BY <1>0, <1>3 DEF Partition
<1>4. ASSUME NEW p \in Parts, FormatJob(p) PROVE IInv'
  BY <1>0, <1>4 DEF FormatJob
<1>5. ASSUME NEW p \in Parts, ImageJob(p) PROVE IInv'
  <2>1. p # "p1"
    BY <1>5 DEF ImageJob
  <2>2. fs'["p1"] = fs["p1"] /\ data'["p1"] = data["p1"]
    BY <1>5, <2>1 DEF ImageJob, TypeOK
  <2>3. QED
    BY <1>0, <1>5, <2>2 DEF ImageJob
<1>6. CASE WaitFormats \/ WaitImages
  BY <1>0, <1>6 DEF WaitFormats, WaitImages, Wait
<1>7. CASE CopyBoot
  BY <1>0, <1>7 DEF CopyBoot, TypeOK
<1>8. CASE Mark
  BY <1>0, <1>8 DEF Mark
<1>9. CASE CopyConfig
  BY <1>0, <1>9 DEF CopyConfig, CopyOfConfig, Vouched, TypeOK
<1>10. CASE FlashVerdict
  BY <1>0, <1>10 DEF FlashVerdict, Vouched
<1>11. QED
  BY <1>1, <1>2, <1>3, <1>4, <1>5, <1>6, <1>7, <1>8, <1>9, <1>10 DEF Flash

(* The check at boot has nothing to be sure of but where it runs. *)
LEMMA CheckIInv == IInv /\ Check => IInv'
<1> SUFFICES ASSUME IInv, Check PROVE IInv'
  OBVIOUS
<1>0. TypeOK'
  BY CheckTypeOK DEF IInv
<1> USE DEF At, Goto, diskVars, CheckPcs, RecoveryPcs, IInv, RunsFrom, Announced,
        FlashSoFar, FlashChecked, RecoverySoFar, RecoveryVerdict
<1>1. CASE RcS
  BY <1>0, <1>1 DEF RcS
<1>2. CASE Config
  BY <1>0, <1>2 DEF Config
<1>3. CASE ConfigBreaks
  BY <1>0, <1>3 DEF ConfigBreaks
<1>4. CASE ConfigSkipped
  BY <1>0, <1>4 DEF ConfigSkipped
<1>5. CASE Update
  BY <1>0, <1>5 DEF Update
<1>6. CASE Dhclient
  BY <1>0, <1>6 DEF Dhclient
<1>7. CASE Marker
  BY <1>0, <1>7 DEF Marker
<1>8. QED
  BY <1>1, <1>2, <1>3, <1>4, <1>5, <1>6, <1>7 DEF Check

(* mkfs gives its partition a file system and leaves the others alone. *)
LEMMA MkfsOthers ==
  ASSUME TypeOK, NEW p \in Parts, Made(p)
  PROVE  /\ fs'[p]
         /\ \A q \in Parts \ {p} : fs'[q] = fs[q] /\ data'[q] = data[q]
BY DEF TypeOK, Made

(* Each step of a recovery hands on what it was sure of. *)
LEMMA RecoveryIInv == IInv /\ Recovery => IInv'
<1> SUFFICES ASSUME IInv, Recovery PROVE IInv'
  OBVIOUS
<1>r. root \in {"p2", "p3"} /\ root \in Parts
  BY SetFacts DEF IInv, RunsFrom, Recovery, Mkfs6, Mkfs5, Mkfs2, Mkfs, Mount, RsyncSystem,
     RsyncConfig, Unmark, At, RecoveryPcs
<1>0. TypeOK'
  BY <1>r, RecoveryTypeOK DEF IInv
<1> USE SetFacts
<1> USE DEF At, Goto, diskVars, Mountable, CheckPcs, RecoveryPcs, IInv, RunsFrom, Announced,
        FlashSoFar, FlashChecked, RecoverySoFar, RecoveryVerdict, RecoveryFailed
<1>1. CASE Mkfs6
  BY <1>0, <1>1, <1>r, MkfsOthers DEF Mkfs6, Mkfs
<1>2. CASE Mkfs5
  BY <1>0, <1>2, <1>r, MkfsOthers DEF Mkfs5, Mkfs
<1>3. CASE Mkfs2
  BY <1>0, <1>3, <1>r, MkfsOthers DEF Mkfs2, Mkfs
<1>4. CASE Mount
  BY <1>0, <1>4 DEF Mount
<1>5. CASE RsyncSystem
  BY <1>0, <1>5 DEF RsyncSystem, TypeOK
<1>6. CASE RsyncConfig
  BY <1>0, <1>6 DEF RsyncConfig, CopyOfConfig, TypeOK
<1>7. CASE Unmark
  BY <1>0, <1>7 DEF Unmark, Recovered
<1>8. QED
  BY <1>1, <1>2, <1>3, <1>4, <1>5, <1>6, <1>7 DEF Recovery

(* Turning the board on or off changes nothing on the disk; a power cut    *)
(* leaves nothing announced that was not announced before it.              *)
LEMMA PowerIInv ==
  ASSUME IInv,
         InsertCard \/ RemoveCard \/ BootCard \/ Boot("p2") \/ Boot("p3") \/ SwitchOff
           \/ PowerCut \/ UNCHANGED vars
  PROVE  IInv'
<1> USE DEF Goto, diskVars, CheckPcs, RecoveryPcs, IInv, RunsFrom, Announced,
        FlashSoFar, FlashChecked, RecoverySoFar, RecoveryVerdict, Mountable
<1>1. CASE InsertCard \/ RemoveCard
  BY <1>1, PowerTypeOK DEF InsertCard, RemoveCard
<1>2. CASE BootCard \/ Boot("p2") \/ Boot("p3")
  BY <1>2, PowerTypeOK DEF BootCard, Boot, PowerOn
<1>3. CASE SwitchOff
  BY <1>3, PowerTypeOK DEF SwitchOff
<1>4. CASE PowerCut
  <2>1. TypeOK'
    BY <1>4, PowerCutTypeOK
  <2>2. pc' = "off" /\ dirty' = {} /\ verdict' = verdict /\ status' = status /\ pc # "off"
    BY <1>4 DEF PowerCut
  <2>3. CASE verdict = "complete"
    <3>1. pc = "halted" /\ AtRisk = {}
      BY <2>2, <2>3 DEF AtRisk, Writes
    <3>2. table' = table
      BY <1>4, <3>1 DEF PowerCut
    <3>3. \A p \in Parts : fs'[p] = fs[p]
      BY <1>4, <3>1 DEF PowerCut, LostFs, TypeOK
    <3>4. \A p \in Parts : fs[p] => data'[p] = data[p]
      BY <1>4, <3>1, <3>3 DEF PowerCut, TypeOK
    <3>5. QED
      BY <2>1, <2>2, <2>3, <3>2, <3>3, <3>4, SetFacts
  <2>4. CASE verdict # "complete"
    BY <2>1, <2>2, <2>4
  <2>5. QED
    BY <2>3, <2>4
<1>5. CASE UNCHANGED vars
  BY <1>5 DEF vars, TypeOK, Vouched
<1>6. QED
  BY <1>1, <1>2, <1>3, <1>4, <1>5

LEMMA NextIInv == IInv /\ [Next]_vars => IInv'
BY FlashIInv, CheckIInv, RecoveryIInv, PowerIInv DEF Next, Script

LEMMA Invariance == Spec => []IInv
BY InitIInv, NextIInv, PTL DEF Spec

-----------------------------------------------------------------------------
(* The theorems *)

(* The variables of PetbotDeploy keep their types. *)
THEOREM TypeCorrect == Spec => []TypeOK
<1>1. IInv => TypeOK
  BY DEF IInv
<1>2. QED
  BY <1>1, Invariance, PTL

(* setup_to_emmc.sh: exit 0 means that the boot partition is complete,     *)
(* that recovery and config can be mounted, and that config is complete if *)
(* the recovery system it is copied from is.                               *)
THEOREM FlashVouchedFor == Spec => []FlashChecked
<1>1. IInv => FlashChecked
  BY DEF IInv
<1>2. QED
  BY <1>1, Invariance, PTL

(* recover_from_emmc.sh: whatever came before, a recovery that online_check *)
(* announces as complete has copied the recovery system and its config.    *)
THEOREM RecoveryVouchedFor == Spec => []RecoveryVerdict
<1>1. IInv => RecoveryVerdict
  BY DEF IInv
<1>2. QED
  BY <1>1, Invariance, PTL

(* What a step outside the flashing script leaves of p1, p3 and the table. *)
LEMMA OutsideFlash ==
  ASSUME IInv, pc \notin FlashPcs, Next, "p3" \in marked
  PROVE  /\ loader' = loader /\ table' = table
         /\ \A p \in {"p1", "p3"} : fs'[p] = fs[p] /\ (fs[p] => data'[p] = data[p])
         /\ "p3" \in marked'
<1>a. TypeOK /\ RunsFrom
  BY DEF IInv
<1> USE <1>a, SetFacts
<1> USE DEF At, diskVars
<1>1. CASE Flash
  BY <1>1 DEF Flash, Wipe, CopyLoader, Partition, FormatJob, ImageJob, WaitFormats, WaitImages,
     Wait, CopyBoot, Mark, CopyConfig, FlashVerdict, FlashPcs
<1>2. CASE Check
  <2>1. CASE RcS \/ ConfigSkipped \/ Dhclient \/ Marker
    BY <2>1 DEF RcS, ConfigSkipped, Dhclient, Marker
  <2>2. CASE Config
    BY <2>2 DEF Config, TypeOK
  <2>3. CASE ConfigBreaks
    BY <2>3 DEF ConfigBreaks, Made, NotMade, TypeOK
  <2>4. CASE Update
    BY <2>4 DEF Update, Made, NotMade, TypeOK
  <2>5. QED
    BY <1>2, <2>1, <2>2, <2>3, <2>4 DEF Check
<1>3. CASE Recovery
  <2>1. ASSUME NEW p \in {"p2", "p5", "p6"}, NEW l, NEW m, Mkfs(l, p, m)
        PROVE  /\ loader' = loader /\ table' = table
               /\ \A q \in {"p1", "p3"} : fs'[q] = fs[q] /\ data'[q] = data[q]
               /\ "p3" \in marked'
    BY <2>1 DEF Mkfs, Made, NotMade, TypeOK
  <2>2. CASE Mkfs6 \/ Mkfs5 \/ Mkfs2
    BY <2>1, <2>2 DEF Mkfs6, Mkfs5, Mkfs2
  <2>3. CASE Mount
    BY <2>3 DEF Mount
  <2>4. CASE RsyncSystem
    BY <2>4 DEF RsyncSystem, TypeOK
  <2>5. CASE RsyncConfig
    BY <2>5 DEF RsyncConfig, TypeOK
  <2>6. CASE Unmark
    BY <2>6 DEF Unmark
  <2>7. QED
    BY <1>3, <2>2, <2>3, <2>4, <2>5, <2>6 DEF Recovery
<1>4. CASE InsertCard \/ RemoveCard \/ BootCard \/ Boot("p2") \/ Boot("p3") \/ SwitchOff
  BY <1>4 DEF InsertCard, RemoveCard, BootCard, Boot, PowerOn, SwitchOff
<1>5. CASE PowerCut
  <2>1. Writes \subseteq {"p2", "p5", "p6"} /\ "marker" \notin dirty
    BY DEF Writes, FlashPcs, RunsFrom
  <2>2. AtRisk \subseteq {"p2", "p5", "p6"}
    BY <2>1 DEF AtRisk, Parts, TypeOK
  <2>3. loader' = loader /\ table' = table
    BY <1>5 DEF PowerCut, FlashPcs
  <2> DEFINE Left(S, F) ==
               /\ fs' = [p \in Parts |-> fs[p] /\ p \notin F]
               /\ data' = [p \in Parts |-> IF ~fs'[p] THEN "blank"
                                           ELSE IF p \in S THEN "partial" ELSE data[p]]
               /\ \E L \in SUBSET MarksAtRisk(S), A \in SUBSET MarksArriving :
                    marked' = (marked \cup A) \ (L \cup F)
  <2>4. PICK S \in SUBSET AtRisk : \E F \in LostFs(S) : Left(S, F)
    BY <1>5 DEF PowerCut
  <2>5. PICK F \in LostFs(S) : Left(S, F)
    BY <2>4
  <2>6. F \subseteq S
    BY DEF LostFs
  <2>7. "p1" \notin S /\ "p3" \notin S /\ "p1" \notin F /\ "p3" \notin F
    BY <2>2, <2>6
  <2>8. "p3" \notin MarksAtRisk(S)
    BY <2>1, <2>7 DEF MarksAtRisk
  <2>9. "p3" \in marked'
    BY <2>5, <2>7, <2>8
  <2>10. \A p \in {"p1", "p3"} : fs'[p] = fs[p] /\ (fs[p] => data'[p] = data[p])
    BY <2>5, <2>7 DEF TypeOK
  <2>11. QED
    BY <2>3, <2>9, <2>10
<1>6. QED
  BY <1>1, <1>2, <1>3, <1>4, <1>5 DEF Next, Script

(* Only the flashing script takes a complete recovery system away: no boot *)
(* check, no recovery and no power cut during either does.                 *)
THEOREM GoldenStays == Spec => GoldenKept
<1>1. ASSUME IInv, [Next]_vars, Golden, pc \notin FlashPcs PROVE Golden'
  <2>1. CASE Next
    BY <1>1, <2>1, OutsideFlash, SetFacts DEF Golden
  <2>2. CASE UNCHANGED vars
    BY <1>1, <2>2 DEF vars, diskVars, Golden
  <2>3. QED
    BY <1>1, <2>1, <2>2
<1>2. IInv /\ [Next]_vars => [Golden /\ pc \notin FlashPcs => Golden']_vars
  BY <1>1
<1>3. QED
  BY <1>2, Invariance, PTL DEF Spec, GoldenKept


-----------------------------------------------------------------------------
(* A board nothing has gone wrong with                                     *)

AllMade == table = Parts /\ \A p \in Parts : fs[p]

(* As a flash or a recovery leaves it. *)
Complete == Golden /\ Restored /\ AllMade /\ data["p5"] = "whole"

SmoothFlash ==
  /\ pc \in {"loader", "partition"} => table = {}
  /\ pc = "partition" => loader
  /\ pc \in {"format", "copyboot", "images", "mark", "copyconfig", "verdict"} =>
       loader /\ table = Parts
  /\ pc = "format" => marked \subseteq jobs /\ \A p \in Parts \ jobs : fs[p]
  /\ pc \in {"copyboot", "images", "mark", "copyconfig", "verdict"} => AllMade
  /\ pc \in {"copyboot", "images", "mark"} => marked = {}
  /\ pc \in {"images", "mark", "copyconfig", "verdict"} => data["p1"] = "whole"
  /\ pc = "images" => jobs \subseteq {"p2", "p3"} /\ \A p \in {"p2", "p3"} \ jobs : data[p] = "whole"
  /\ pc \in {"mark", "copyconfig", "verdict"} => data["p2"] = "whole" /\ data["p3"] = "whole"
  /\ pc \in {"copyconfig", "verdict"} => marked = {"p3"}
  /\ pc = "verdict" => status = 0 /\ data["p5"] = "whole"

SmoothCheck ==
  /\ pc \in CheckPcs \cup {"serving", "halted"} => Complete
  /\ pc = "halted" => verdict = "complete"
  /\ pc \in CheckPcs \cup RecoveryPcs => verdict # "complete"
  /\ pc \in {"config", "update", "dhclient", "marker", "serving"} => mounted = {"p5", "p6"}
  /\ pc \in {"marker", "serving"} => dhclient
  /\ pc = "serving" => root = "p2"
  /\ verdict = "complete" => status = 0

SmoothRecovery ==
  /\ pc \in RecoveryPcs => root = "p3" /\ Golden /\ AllMade
  /\ pc \in {"rsyncconfig", "unmark"} => data["p2"] = "whole"
  /\ pc = "unmark" => data["p5"] = "whole"

Smooth ==
  /\ pc = "off" => Complete \/ (~loader /\ verdict # "complete")
  /\ SmoothFlash /\ SmoothCheck /\ SmoothRecovery

(* Without a fault each script finds what the one before it has left. *)
LEMMA FlashSmooth == IInv /\ Smooth /\ Flash /\ UNCHANGED faults => Smooth'
<1> SUFFICES ASSUME IInv, Smooth, Flash, UNCHANGED faults PROVE Smooth'
  OBVIOUS
<1>0. TypeOK /\ faults # faults + 1 /\ ~Fault
  BY MaxFaultsAssumption DEF IInv, TypeOK, Fault
<1>a. RunsFrom /\ Announced
  BY DEF IInv
<1> USE <1>0, SetFacts
<1> USE DEF At, Goto, Exit, diskVars, Mountable, CheckPcs, RecoveryPcs, Smooth, SmoothFlash,
        SmoothCheck, SmoothRecovery, AllMade
<1>1. CASE Wipe
  BY <1>1, <1>a DEF Wipe, Announced
<1>2. CASE CopyLoader
  BY <1>2, <1>a DEF CopyLoader, Announced
<1>3. CASE Partition
  BY <1>3, <1>a DEF Partition, Announced, TypeOK, Parts
<1>4. ASSUME NEW p \in Parts, FormatJob(p) PROVE Smooth'
  <2>1. /\ pc = "format" /\ jobs' = jobs \ {p} /\ Made(p)
        /\ UNCHANGED <<pc, root, mounted, table, loader, status, verdict>>
    BY <1>4 DEF FormatJob
  <2>2. fs'[p] /\ \A q \in Parts \ {p} : fs'[q] = fs[q]
    BY <2>1, MkfsOthers
  <2>3. marked' \subseteq jobs' /\ \A q \in Parts \ jobs' : fs'[q]
    BY <2>1, <2>2 DEF Made
  <2>4. verdict # "complete"
    BY <1>a, <2>1 DEF Announced
  <2>5. QED
    BY <2>1, <2>3, <2>4
<1>5. ASSUME NEW p \in Parts, ImageJob(p) PROVE Smooth'
  <2>1. /\ pc = "images" /\ p \in jobs /\ jobs' = jobs \ {p}
        /\ fs' = [fs EXCEPT ![p] = TRUE] /\ data' = [data EXCEPT ![p] = "whole"]
        /\ marked' = marked \ {p}
        /\ UNCHANGED <<pc, root, mounted, table, loader, status, verdict>>
    BY <1>5 DEF ImageJob
  <2>2. \A q \in Parts : fs'[q] /\ data'[q] = IF q = p THEN "whole" ELSE data[q]
    BY <2>1 DEF TypeOK
  <2>3. p # "p1" /\ marked' = {} /\ data'["p1"] = "whole"
    BY <2>1, <2>2
  <2>4. jobs' \subseteq {"p2", "p3"} /\ \A q \in {"p2", "p3"} \ jobs' : data'[q] = "whole"
    BY <2>1, <2>2
  <2>5. verdict # "complete"
    BY <1>a, <2>1 DEF Announced
  <2>6. QED
    BY <2>1, <2>2, <2>3, <2>4, <2>5
<1>6. CASE WaitFormats
  <2>1. marked = {}
    BY <1>6 DEF WaitFormats, Wait
  <2>2. QED
    BY <1>6, <1>a, <2>1 DEF WaitFormats, Wait, Announced
<1>7. CASE CopyBoot
  BY <1>7, <1>a DEF CopyBoot, Announced, TypeOK
<1>8. CASE WaitImages
  BY <1>8, <1>a DEF WaitImages, Wait, Announced
<1>9. CASE Mark
  BY <1>9, <1>a DEF Mark, Announced
<1>10. CASE CopyConfig
  BY <1>10, <1>a DEF CopyConfig, CopyOfConfig, Announced, TypeOK
<1>11. CASE FlashVerdict
  <2>1. Complete'
    BY <1>11 DEF FlashVerdict, Complete, Golden, Restored
  <2>2. QED
    BY <1>11, <2>1 DEF FlashVerdict
<1>12. QED
  BY <1>1, <1>2, <1>3, <1>4, <1>5, <1>6, <1>7, <1>8, <1>9, <1>10, <1>11 DEF Flash

LEMMA CheckSmooth == IInv /\ Smooth /\ Check /\ UNCHANGED faults => Smooth'
<1> SUFFICES ASSUME IInv, Smooth, Check, UNCHANGED faults PROVE Smooth'
  OBVIOUS
<1>0. TypeOK /\ faults # faults + 1 /\ ~Fault /\ RunsFrom
  BY MaxFaultsAssumption DEF IInv, TypeOK, Fault
<1>1. Complete /\ root \in {"p2", "p3"} /\ verdict # "complete"
  BY <1>0 DEF Smooth, SmoothCheck, RunsFrom, Check, RcS, Config, ConfigBreaks, ConfigSkipped,
     Update, Dhclient, Marker, At, CheckPcs
<1>2. UNCHANGED <<table, loader, fs, data, marked, verdict, root>>
  <2>1. CASE RcS \/ ConfigSkipped \/ Dhclient \/ Marker
    BY <2>1 DEF RcS, ConfigSkipped, Dhclient, Marker, diskVars
  <2>2. ~Config /\ ~ConfigBreaks
    BY <1>0 DEF Config, ConfigBreaks, At, Smooth, SmoothCheck
  <2>3. CASE Update
    BY <1>0, <2>3 DEF Update, At, Smooth, SmoothCheck, diskVars
  <2>4. QED
    BY <2>1, <2>2, <2>3 DEF Check
<1>3. Complete'
  BY <1>1, <1>2 DEF Complete, Golden, Restored, AllMade, Mountable
<1>4. mounted = {"p5", "p6"} /\ pc # "rcS" => UNCHANGED mounted \/ pc' = "mkfs6"
  BY <1>0 DEF Check, RcS, Config, ConfigBreaks, ConfigSkipped, Update, Dhclient, Marker, At, Goto
<1>5. CASE RcS
  <2>1. mounted' = {"p5", "p6"} /\ pc' = "config"
    BY <1>0, <1>1, <1>5, SetFacts DEF RcS, Complete, AllMade, Mountable, Goto
  <2>2. QED
    BY <1>1, <1>2, <1>3, <1>5, <2>1
       DEF Smooth, SmoothFlash, SmoothCheck, SmoothRecovery, CheckPcs, RecoveryPcs
<1>6. CASE Config \/ ConfigBreaks
  BY <1>0, <1>6 DEF Config, ConfigBreaks, At, Smooth, SmoothCheck
<1>7. CASE ConfigSkipped \/ Update
  <2>1. pc' \in {"update", "dhclient"} /\ mounted' = {"p5", "p6"}
    BY <1>0, <1>7 DEF ConfigSkipped, Update, At, Goto, Smooth, SmoothCheck
  <2>2. QED
    BY <1>1, <1>2, <1>3, <2>1
       DEF Smooth, SmoothFlash, SmoothCheck, SmoothRecovery, CheckPcs, RecoveryPcs
<1>8. CASE Dhclient
  <2>1. pc' = "marker" /\ mounted' = {"p5", "p6"} /\ dhclient'
    BY <1>0, <1>8 DEF Dhclient, At, Goto, Smooth, SmoothCheck
  <2>2. QED
    BY <1>1, <1>2, <1>3, <2>1
       DEF Smooth, SmoothFlash, SmoothCheck, SmoothRecovery, CheckPcs, RecoveryPcs
<1>9. CASE Marker
  <2>1. \/ pc' = "mkfs6" /\ root = "p3"
        \/ pc' = "serving" /\ root = "p2" /\ UNCHANGED <<mounted, dhclient>>
    BY <1>1, <1>9 DEF Marker, Goto, Complete, Golden, Restored, diskVars
  <2>2. mounted = {"p5", "p6"} /\ dhclient
    BY <1>9 DEF Marker, At, Smooth, SmoothCheck
  <2>3. QED
    BY <1>1, <1>2, <1>3, <2>1, <2>2
       DEF Smooth, SmoothFlash, SmoothCheck, SmoothRecovery, CheckPcs, RecoveryPcs, Complete
<1>10. QED
  BY <1>5, <1>6, <1>7, <1>8, <1>9 DEF Check

LEMMA RecoverySmooth == IInv /\ Smooth /\ Recovery /\ UNCHANGED faults => Smooth'
<1> SUFFICES ASSUME IInv, Smooth, Recovery, UNCHANGED faults PROVE Smooth'
  OBVIOUS
<1>0. TypeOK /\ faults # faults + 1 /\ ~Fault
  BY MaxFaultsAssumption DEF IInv, TypeOK, Fault
<1>1. root = "p3" /\ Golden /\ AllMade /\ verdict # "complete"
  BY DEF Smooth, SmoothRecovery, SmoothCheck, Recovery, Mkfs6, Mkfs5, Mkfs2, Mkfs, Mount,
     RsyncSystem, RsyncConfig, Unmark, At, RecoveryPcs
<1> USE <1>0, <1>1, SetFacts
<1> USE DEF At, Goto, diskVars, CheckPcs, RecoveryPcs, Smooth, SmoothFlash, SmoothCheck,
        SmoothRecovery, AllMade
<1>2. ASSUME NEW p \in {"p2", "p5", "p6"}, NEW l, NEW m, Mkfs(l, p, m)
      PROVE  pc = l /\ pc' = m /\ UNCHANGED <<root, verdict>> /\ Golden' /\ AllMade'
  BY <1>2 DEF Mkfs, Made, Golden, TypeOK
<1>3. CASE Mkfs6 \/ Mkfs5 \/ Mkfs2
  <2>1. /\ pc' \in {"mkfs5", "mkfs2", "mount"}
        /\ UNCHANGED <<root, verdict>> /\ Golden' /\ AllMade'
    BY <1>2, <1>3 DEF Mkfs6, Mkfs5, Mkfs2
  <2>2. QED
    BY <2>1
<1>4. CASE Mount
  BY <1>4 DEF Mount, Golden
<1>5. CASE RsyncSystem
  BY <1>5 DEF RsyncSystem, Golden, TypeOK
<1>6. CASE RsyncConfig
  BY <1>6 DEF RsyncConfig, CopyOfConfig, Golden, TypeOK
<1>7. CASE Unmark
  BY <1>7 DEF Unmark, Recovered, Complete, Golden, Restored, Mountable
<1>8. QED
  BY <1>3, <1>4, <1>5, <1>6, <1>7 DEF Recovery

LEMMA PowerSmooth ==
  ASSUME IInv, Smooth,
         InsertCard \/ RemoveCard \/ BootCard \/ Boot("p2") \/ Boot("p3") \/ SwitchOff
           \/ UNCHANGED vars
  PROVE  Smooth'
<1> USE DEF Goto, diskVars, CheckPcs, RecoveryPcs, Smooth, SmoothFlash, SmoothCheck,
        SmoothRecovery, AllMade, Complete, Golden, Restored, Mountable
<1>1. CASE InsertCard \/ RemoveCard
  BY <1>1 DEF InsertCard, RemoveCard
<1>2. CASE BootCard
  BY <1>2 DEF BootCard, PowerOn
<1>3. CASE Boot("p2") \/ Boot("p3")
  BY <1>3 DEF Boot, Bootable, PowerOn
<1>4. CASE SwitchOff
  BY <1>4 DEF SwitchOff
<1>5. CASE UNCHANGED vars
  BY <1>5 DEF vars
<1>6. QED
  BY <1>1, <1>2, <1>3, <1>4, <1>5

(* Without a failure or a power cut every flash and every recovery ends    *)
(* with both systems complete, and p2 is what serves.                      *)
THEOREM WithoutFaults == Spec => []NothingWrong
<1> DEFINE Fine == faults = 0 => Smooth
<1>1. Init => Fine
  BY DEF Init, Smooth, SmoothFlash, SmoothCheck, SmoothRecovery, CheckPcs, RecoveryPcs
<1>2. IInv /\ Fine /\ [Next]_vars => Fine'
  <2> SUFFICES ASSUME IInv, Fine, [Next]_vars, faults' = 0 PROVE Smooth'
    OBVIOUS
  <2>1. faults' = faults \/ faults' = faults + 1
    BY DEF Next, Script, Flash, Wipe, CopyLoader, Partition, FormatJob, ImageJob, WaitFormats,
       WaitImages, Wait, CopyBoot, Mark, CopyConfig, FlashVerdict, Check, RcS, Config,
       ConfigBreaks, ConfigSkipped, Update, Dhclient, Marker, Recovery, Mkfs6, Mkfs5, Mkfs2,
       Mkfs, Mount, RsyncSystem, RsyncConfig, Unmark, InsertCard, RemoveCard, BootCard, Boot,
       PowerOn, SwitchOff, PowerCut, Fault, vars
  <2>2. faults = 0 /\ UNCHANGED faults
    BY <2>1, MaxFaultsAssumption DEF IInv, TypeOK
  <2>3. ~PowerCut
    BY <2>2 DEF PowerCut, Fault
  <2>4. QED
    BY <2>2, <2>3, FlashSmooth, CheckSmooth, RecoverySmooth, PowerSmooth DEF Next, Script
<1>3. IInv /\ Fine => NothingWrong
  BY DEF IInv, Announced, Smooth, SmoothCheck, Complete, NothingWrong, CheckPcs
<1>4. QED
  BY <1>1, <1>2, <1>3, Invariance, PTL DEF Spec

=============================================================================
