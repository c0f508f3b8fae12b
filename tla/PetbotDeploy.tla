---------------------------- MODULE PetbotDeploy ----------------------------
(***************************************************************************)
(* How a PetBot board gets its software and gets it back: the SD card      *)
(* that flashes the eMMC, the check every boot runs, and the recovery      *)
(* partition that rewrites the system partition.                           *)
(*                                                                         *)
(*   target/linux/extras/online_check.sh          run by init at boot      *)
(*   target/linux/extras/bin/setup_to_emmc.sh     flashing, from the card  *)
(*   target/linux/extras/bin/recover_from_emmc.sh recovery, from p3        *)
(*   target/linux/extras/etc/init.d/rcS           mounts before the check  *)
(*                                                                         *)
(* The scripts are sequential but for the background jobs of the flashing  *)
(* script, which run in any order.  Power can go at any moment: it spoils  *)
(* what is being written at that moment.  The boot loader is external: it  *)
(* starts the card if there is one, and otherwise p2 or p3.                *)
(***************************************************************************)
EXTENDS Naturals, FiniteSets

CONSTANT MaxFaults   \* bound: failed commands and power cuts

ASSUME MaxFaultsAssumption == MaxFaults \in Nat

Parts == {"p1", "p2", "p3", "p5", "p6"}   \* boot, system, recovery, config, update

FlashPcs    == {"wipe", "loader", "partition", "format", "copyboot", "images", "mark",
                "copyconfig", "verdict"}
RecoveryPcs == {"mkfs6", "mkfs5", "mkfs2", "mount", "rsyncsystem", "rsyncconfig", "unmark"}
CheckPcs    == {"rcS", "config", "update", "dhclient", "marker"}
Pcs         == FlashPcs \cup RecoveryPcs \cup CheckPcs \cup {"off", "serving", "halted"}

VARIABLES
  card,     \* an SD card is in the slot (mmcblk1 exists)
  pc,       \* the next command of the script that runs
  root,     \* what the running system was started from
  jobs,     \* background jobs of the flashing script, one per partition
  mounted,  \* which of p5 and p6 are mounted on /config and /update
  table,    \* partitions in the partition table
  loader,   \* the boot loader is on the eMMC
  fs,       \* fs[p]: a file system is on p
  data,     \* data[p]: what is in it (blank without a file system)
  marked,   \* partitions that hold the file recovery_partition
  dhclient, \* dhclient.conf is on p5
  dirty,    \* written, and not yet forced out of the page cache
  status,   \* exit status of setup_to_emmc.sh
  verdict,  \* what online_check.sh has announced since power came on
  faults    \* failures and power cuts so far

diskVars == <<table, loader, fs, data, marked, dhclient>>
vars == <<card, pc, root, jobs, mounted, diskVars, dirty, status, verdict, faults>>

(* firmware: the whole firmware tree, where config/ of it was meant *)
Contents == {"blank", "partial", "whole", "firmware"}
Verdicts == {"none", "complete", "recovered", "recovery_failed"}

TypeOK ==
  /\ card \in BOOLEAN
  /\ pc \in Pcs
  /\ root \in {"none", "card", "p2", "p3"}
  /\ jobs \subseteq Parts
  /\ mounted \subseteq {"p5", "p6"}
  /\ table \subseteq Parts
  /\ loader \in BOOLEAN
  /\ fs \in [Parts -> BOOLEAN]
  /\ data \in [Parts -> Contents]
  /\ marked \subseteq {"p2", "p3"}
  /\ dhclient \in BOOLEAN
  /\ dirty \subseteq {"p2", "p5", "dhclient", "marker"}
  /\ status \in {0, 1}
  /\ verdict \in Verdicts
  /\ faults \in 0..MaxFaults

(* A factory board: an empty eMMC, and a card to flash it from. *)
Init ==
  /\ card = TRUE
  /\ pc = "off"
  /\ root = "none"
  /\ jobs = {}
  /\ mounted = {}
  /\ table = {}
  /\ loader = FALSE
  /\ fs = [p \in Parts |-> FALSE]
  /\ data = [p \in Parts |-> "blank"]
  /\ marked = {}
  /\ dhclient = FALSE
  /\ dirty = {}
  /\ status = 0
  /\ verdict = "none"
  /\ faults = 0

Fault == faults < MaxFaults /\ faults' = faults + 1

Mountable(p) == p \in table /\ fs[p]

Goto(l) == pc' = l

-----------------------------------------------------------------------------
(* Power and the boot loader *)

InsertCard ==
  /\ pc = "off" /\ ~card
  /\ card' = TRUE
  /\ UNCHANGED <<pc, root, jobs, mounted, diskVars, dirty, status, verdict, faults>>

RemoveCard ==
  /\ pc = "off" /\ card
  /\ card' = FALSE
  /\ UNCHANGED <<pc, root, jobs, mounted, diskVars, dirty, status, verdict, faults>>

(* A system with parts missing may start as well as a complete one. *)
Bootable(p) ==
  /\ loader
  /\ Mountable("p1") /\ data["p1"] = "whole"
  /\ Mountable(p) /\ data[p] \in {"partial", "whole"}

PowerOn(r, l) ==
  /\ pc = "off"
  /\ root' = r /\ Goto(l)
  /\ status' = 0 /\ verdict' = "none"
  /\ UNCHANGED <<card, jobs, mounted, diskVars, dirty, faults>>

(* With a card the check goes straight to setup_to_emmc.sh, whose tests    *)
(* that both devices exist then succeed.                                   *)
BootCard == card /\ PowerOn("card", "wipe")

Boot(p) == ~card /\ Bootable(p) /\ PowerOn(p, "rcS")

(* An orderly shutdown unmounts everything (etc/inittab, shutdown). *)
SwitchOff ==
  /\ pc \in {"serving", "halted"}
  /\ Goto("off")
  /\ root' = "none" /\ mounted' = {} /\ dirty' = {}
  /\ UNCHANGED <<card, jobs, diskVars, status, verdict, faults>>

(* The partitions the command at pc writes. *)
Writes ==
  CASE pc \in {"format", "images"}        -> jobs
    [] pc = "copyboot"                    -> {"p1"}
    [] pc \in {"mkfs5", "copyconfig", "rsyncconfig"} -> {"p5"}
    [] pc = "mkfs6"                       -> {"p6"}
    [] pc \in {"mkfs2", "rsyncsystem"}    -> {"p2"} \ {root}
    [] pc = "config"                      -> {"p5"} \ mounted
    [] pc = "update"                      -> {"p6"} \ mounted
    [] OTHER                              -> {}

(* fdisk is called once for each partition, in this order. *)
Prefixes == {{}, {"p1"}, {"p1", "p2"}, {"p1", "p2", "p3"}, {"p1", "p2", "p3", "p5"}, Parts}

(* What it can come to when the partitions of an earlier flash are there.  *)
Leftovers == {T \in SUBSET Parts : table # {} /\ table \subseteq T}

AtRisk == (Writes \cup (dirty \cap Parts)) \cap table

(* Whose recovery_partition file a cut can take away, and where one that   *)
(* is being copied may have arrived.                                       *)
MarksAtRisk(S) ==
  S \cup (IF "marker" \in dirty THEN {"p3"} ELSE {}) \cup (IF pc = "unmark" THEN {"p2"} ELSE {})

MarksArriving == IF pc = "rsyncsystem" THEN Writes ELSE {}

(* What a cut does to file systems: mkfs begins by destroying the old one, *)
(* ext4 survives in its journal, a vfat or an image half written may not.  *)
LostFs(S) ==
  CASE pc \in {"format", "mkfs6", "mkfs5", "mkfs2", "update"} -> {S \cap Writes}
    [] pc \in {"copyboot", "images", "config"} -> SUBSET (S \cap Writes)
    [] OTHER -> {{}}

(* Power goes: what is being written, or has not left the page cache, may  *)
(* be incomplete.                                                          *)
PowerCut ==
  /\ pc # "off"
  /\ Fault
  /\ \E S \in SUBSET AtRisk :
       /\ \E F \in LostFs(S) :
            /\ fs' = [p \in Parts |-> fs[p] /\ p \notin F]
            /\ data' = [p \in Parts |-> IF ~fs'[p] THEN "blank"
                                        ELSE IF p \in S THEN "partial" ELSE data[p]]
            /\ dhclient' \in IF "p5" \in F THEN {FALSE}
                             ELSE IF "p5" \in S \/ "dhclient" \in dirty THEN {dhclient, FALSE}
                             ELSE {dhclient}
            /\ \E L \in SUBSET MarksAtRisk(S), A \in SUBSET MarksArriving :
                 marked' = (marked \cup A) \ (L \cup F)
  /\ table' \in CASE pc = "wipe" -> {table, {}} [] pc = "partition" -> Prefixes \cup Leftovers [] OTHER -> {table}
  /\ loader' \in IF pc = "wipe" THEN {loader, FALSE} ELSE {loader}
  /\ Goto("off")
  /\ root' = "none" /\ jobs' = {} /\ mounted' = {} /\ dirty' = {}
  /\ UNCHANGED <<card, status, verdict>>

-----------------------------------------------------------------------------
(* setup_to_emmc.sh: dd, fdisk and touch are not checked *)

At(l) == pc = l

Wipe ==
  /\ At("wipe")
  /\ \/ table' = {} /\ loader' = FALSE /\ UNCHANGED faults
     \/ Fault /\ table' \in {table, {}} /\ loader' \in {loader, FALSE}
  /\ Goto("loader")
  /\ UNCHANGED <<card, root, jobs, mounted, fs, data, marked, dhclient, dirty, status, verdict>>

CopyLoader ==
  /\ At("loader")
  /\ \/ loader' = TRUE /\ UNCHANGED faults
     \/ Fault /\ loader' \in {loader, FALSE}
  /\ Goto("partition")
  /\ UNCHANGED <<card, root, jobs, mounted, table, fs, data, marked, dhclient, dirty, status, verdict>>

(* A missing or a misplaced partition spoils the later ones, whose start   *)
(* is computed from it, or goes alone; one that the dd left is not made    *)
(* again, and fdisk's other answers are then out of step.  The five        *)
(* background formats start as soon as the last fdisk is through.          *)
Partition ==
  /\ At("partition")
  /\ \/ table' = Parts /\ UNCHANGED faults
     \/ table # {} /\ table' \in Leftovers /\ UNCHANGED faults
     \/ Fault /\ table' \in Prefixes \cup Leftovers \cup {Parts \ {p} : p \in Parts}
  /\ jobs' = Parts
  /\ Goto("format")
  /\ UNCHANGED <<card, root, mounted, loader, fs, data, marked, dhclient, dirty, status, verdict>>

(* mkfs on p: everything on it is gone. *)
Made(p) ==
  /\ fs' = [fs EXCEPT ![p] = TRUE]
  /\ data' = [data EXCEPT ![p] = "blank"]
  /\ marked' = marked \ {p}
  /\ dhclient' = (dhclient /\ p # "p5")

(* mkfs on p fails: before it has written anything, or half way. *)
NotMade(p) ==
  \/ UNCHANGED <<fs, data, marked, dhclient>>
  \/ /\ p \in table
     /\ fs' = [fs EXCEPT ![p] = FALSE]
     /\ data' = [data EXCEPT ![p] = "blank"]
     /\ marked' = marked \ {p}
     /\ dhclient' = (dhclient /\ p # "p5")

(* exit in format leaves the background subshell: wait does not ask how    *)
(* the jobs ended.                                                         *)
FormatJob(p) ==
  /\ At("format") /\ p \in jobs
  /\ \/ p \in table /\ Made(p) /\ UNCHANGED faults
     \/ p \notin table /\ UNCHANGED <<fs, data, marked, dhclient, faults>>
     \/ Fault /\ NotMade(p)
  /\ jobs' = jobs \ {p}
  /\ UNCHANGED <<card, pc, root, mounted, table, loader, dirty, status, verdict>>

Wait(l, m, J) ==
  /\ At(l) /\ jobs = {}
  /\ jobs' = J
  /\ Goto(m)
  /\ UNCHANGED <<card, root, mounted, diskVars, dirty, status, verdict, faults>>

WaitFormats == Wait("format", "copyboot", {})
(* Seeded fault: the script goes on before its background copies are done. *)
WaitImagesEarly ==
  /\ At("images")
  /\ jobs' = {}
  /\ Goto("mark")
  /\ UNCHANGED <<card, root, mounted, diskVars, dirty, status, verdict, faults>>

WaitImages == Wait("images", "mark", {})

Exit(n) == status' = n /\ Goto("verdict")

(* Seeded fault: the failing copy of p1 ends a subshell, not the script. *)
CopyBootUnchecked ==
  /\ At("copyboot")
  /\ \E d \in {"whole"} \cup {e \in {"partial"} : faults < MaxFaults} :
       /\ data' = [data EXCEPT !["p1"] = IF Mountable("p1") THEN d ELSE @]
       /\ faults' = IF d = "partial" THEN faults + 1 ELSE faults
  /\ jobs' = {"p2", "p3"}
  /\ Goto("images")
  /\ UNCHANGED <<card, root, mounted, table, loader, fs, marked, dhclient, dirty, status, verdict>>

(* xmount and xcopy exit the script itself. *)
CopyBoot ==
  /\ At("copyboot")
  /\ \/ /\ Mountable("p1")
        /\ data' = [data EXCEPT !["p1"] = "whole"]
        /\ jobs' = {"p2", "p3"}
        /\ Goto("images")
        /\ UNCHANGED <<status, faults>>
     \/ ~Mountable("p1") /\ Exit(1) /\ UNCHANGED <<data, jobs, faults>>
     \/ /\ Fault /\ Exit(1)
        /\ \E d \in {data["p1"], "partial"} :
             data' = [data EXCEPT !["p1"] = IF Mountable("p1") THEN d ELSE @]
        /\ UNCHANGED jobs
  /\ UNCHANGED <<card, root, mounted, table, loader, fs, marked, dhclient, dirty, verdict>>

(* gunzip | dd, then resize2fs: the status of gunzip is lost in the pipe,  *)
(* that of dd and of resize2fs with the subshell.                          *)
ImageJob(p) ==
  /\ At("images") /\ p \in jobs
  /\ \/ /\ p \in table
        /\ fs' = [fs EXCEPT ![p] = TRUE]
        /\ data' = [data EXCEPT ![p] = "whole"]
        /\ marked' = marked \ {p}
        /\ UNCHANGED faults
     \/ p \notin table /\ UNCHANGED <<fs, data, marked, faults>>
     \/ /\ Fault
        /\ \/ UNCHANGED <<fs, data, marked>>
           \/ /\ p \in table
              /\ \E f \in BOOLEAN :
                   /\ fs' = [fs EXCEPT ![p] = f]
                   /\ data' = [data EXCEPT ![p] = IF f THEN "partial" ELSE "blank"]
              /\ marked' = marked \ {p}
  /\ jobs' = jobs \ {p}
  /\ UNCHANGED <<card, pc, root, mounted, table, loader, dhclient, dirty, status, verdict>>

(* Seeded fault: the marker is touched in the file system of p1. *)
MarkBoot ==
  /\ At("mark") /\ Mountable("p3")
  /\ marked' = marked \cup {"p1"} /\ dirty' = dirty \cup {"marker"}
  /\ Goto("copyconfig")
  /\ UNCHANGED <<card, root, jobs, mounted, table, loader, fs, data, dhclient, status, verdict, faults>>

Mark ==
  /\ At("mark")
  /\ \/ /\ Mountable("p3")
        /\ marked' = marked \cup {"p3"} /\ dirty' = dirty \cup {"marker"}
        /\ Goto("copyconfig")
        /\ UNCHANGED <<status, faults>>
     \/ ~Mountable("p3") /\ Exit(1) /\ UNCHANGED <<marked, dirty, faults>>
     \/ /\ Fault /\ UNCHANGED <<marked, dirty>>
        /\ \/ Exit(1)
           \/ Mountable("p3") /\ Goto("copyconfig") /\ UNCHANGED status
  /\ UNCHANGED <<card, root, jobs, mounted, table, loader, fs, data, dhclient, verdict>>

(* What rsync of a firmware's config can leave on p5: an incomplete system *)
(* may hold all of it, a part (rsync copies what there is) or nothing.     *)
CopyOfConfig(src) == IF data[src] = "whole" THEN {"whole"} ELSE {"whole", "partial"}

CopyConfig ==
  /\ At("copyconfig")
  /\ \/ /\ Mountable("p5") /\ data["p3"] # "blank"
        /\ \E c \in CopyOfConfig("p3") : data' = [data EXCEPT !["p5"] = c]
        /\ dirty' = {}
        /\ Exit(0) /\ UNCHANGED faults
     \/ /\ ~Mountable("p5") \/ data["p3"] # "whole"
        /\ Exit(1) /\ UNCHANGED <<data, dirty, faults>>
     \/ /\ Fault /\ Exit(1) /\ UNCHANGED dirty
        /\ \E c \in {data["p5"], "partial"} :
             data' = [data EXCEPT !["p5"] = IF Mountable("p5") THEN c ELSE @]
  /\ UNCHANGED <<card, root, jobs, mounted, table, loader, fs, marked, dhclient, verdict>>

(* online_check.sh: sync, and then the test of $?, which is now the status *)
(* of sync.  halt follows either announcement.                             *)
FlashVerdict ==
  /\ At("verdict")
  /\ verdict' = "complete" /\ dirty' = {}
  /\ Goto("halted")
  /\ UNCHANGED <<card, root, jobs, mounted, diskVars, status, faults>>

-----------------------------------------------------------------------------
(* rcS and online_check.sh of a boot without a card *)

RcS ==
  /\ At("rcS")
  /\ \/ mounted' = {p \in {"p5", "p6"} : Mountable(p)} /\ UNCHANGED faults
     \/ Fault /\ mounted' \in SUBSET {p \in {"p5", "p6"} : Mountable(p)}
  /\ Goto("config")
  /\ UNCHANGED <<card, root, jobs, diskVars, dirty, status, verdict>>

(* "mount and format if necessary": what is not mounted is formatted, and  *)
(* what a formatted /config gets is the whole firmware tree.  Nothing is   *)
(* checked.                                                                *)
Config ==
  /\ At("config") /\ "p5" \notin mounted /\ "p5" \in table
  /\ fs' = [fs EXCEPT !["p5"] = TRUE]
  /\ data' = [data EXCEPT !["p5"] = "firmware"]
  /\ dhclient' = TRUE
  /\ mounted' = mounted \cup {"p5"} /\ dirty' = dirty \cup {"p5"}
  /\ Goto("update")
  /\ UNCHANGED <<card, root, jobs, table, loader, marked, status, verdict, faults>>

(* In turn: mkfs fails, and so does mount; mount fails; cp fails; mkfs     *)
(* fails before it has written, and the old files are added to.            *)
ConfigBreaks ==
  /\ At("config") /\ "p5" \notin mounted /\ "p5" \in table
  /\ Fault
  /\ \/ NotMade("p5") /\ UNCHANGED <<mounted, dirty>>
     \/ Made("p5") /\ UNCHANGED <<mounted, dirty>>
     \/ /\ fs' = [fs EXCEPT !["p5"] = TRUE]
        /\ data' = [data EXCEPT !["p5"] = "partial"]
        /\ dhclient' \in BOOLEAN
        /\ mounted' = mounted \cup {"p5"} /\ dirty' = dirty \cup {"p5"}
        /\ UNCHANGED marked
     \/ /\ Mountable("p5")
        /\ dhclient' = TRUE
        /\ mounted' = mounted \cup {"p5"} /\ dirty' = dirty \cup {"dhclient"}
        /\ UNCHANGED <<fs, data, marked>>
  /\ Goto("update")
  /\ UNCHANGED <<card, root, jobs, table, loader, status, verdict>>

ConfigSkipped ==
  /\ At("config") /\ ("p5" \in mounted \/ "p5" \notin table)
  /\ Goto("update")
  /\ UNCHANGED <<card, root, jobs, mounted, diskVars, dirty, status, verdict, faults>>

Update ==
  /\ At("update")
  /\ \/ /\ "p6" \notin mounted /\ "p6" \in table
        /\ \/ Made("p6") /\ mounted' = mounted \cup {"p6"} /\ UNCHANGED faults
           \/ Made("p6") /\ UNCHANGED mounted /\ Fault
           \/ NotMade("p6") /\ UNCHANGED mounted /\ Fault
     \/ ("p6" \in mounted \/ "p6" \notin table) /\ UNCHANGED <<mounted, diskVars, faults>>
  /\ Goto("dhclient")
  /\ UNCHANGED <<card, root, jobs, table, loader, dirty, status, verdict>>

(* Without p5 on it, /config is a directory of the read-only root.         *)
Dhclient ==
  /\ At("dhclient")
  /\ \/ /\ "p5" \in mounted /\ ~dhclient
        /\ dhclient' = TRUE /\ dirty' = dirty \cup {"dhclient"}
        /\ UNCHANGED faults
     \/ "p5" \in mounted /\ ~dhclient /\ Fault /\ UNCHANGED <<dhclient, dirty>>
     \/ ("p5" \notin mounted \/ dhclient) /\ UNCHANGED <<dhclient, dirty, faults>>
  /\ Goto("marker")
  /\ UNCHANGED <<card, root, jobs, mounted, table, loader, fs, data, marked, status, verdict>>

Marker ==
  /\ At("marker")
  /\ \/ /\ root \in marked
        /\ Goto("mkfs6")
        /\ mounted' = {} /\ dirty' = {}
     \/ root \notin marked /\ Goto("serving") /\ UNCHANGED <<mounted, dirty>>
  /\ UNCHANGED <<card, root, jobs, diskVars, status, verdict, faults>>

-----------------------------------------------------------------------------
(* recover_from_emmc.sh; online_check.sh then reboots, or halts on failure *)

(* halt unmounts what was written: until it has (SwitchOff), all of it is  *)
(* at risk.                                                                *)
RecoveryFailed ==
  /\ verdict' = "recovery_failed"
  /\ Goto("halted")

(* mkfs refuses a partition that is mounted, as the running root is. *)
Mkfs(l, p, m) ==
  /\ At(l)
  /\ \/ /\ p \in table \ {root}
        /\ Made(p) /\ Goto(m)
        /\ UNCHANGED <<verdict, faults>>
     \/ /\ p \notin table \ {root}
        /\ UNCHANGED <<fs, data, marked, dhclient, faults>> /\ RecoveryFailed
     \/ p \in table \ {root} /\ Fault /\ NotMade(p) /\ RecoveryFailed
  /\ UNCHANGED <<card, root, jobs, mounted, table, loader, dirty, status>>

Mkfs6 == Mkfs("mkfs6", "p6", "mkfs5")
Mkfs5 == Mkfs("mkfs5", "p5", "mkfs2")
Mkfs2 == Mkfs("mkfs2", "p2", "mount")

Mount ==
  /\ At("mount")
  /\ \/ Goto("rsyncsystem") /\ UNCHANGED <<verdict, faults>>
     \/ Fault /\ RecoveryFailed
  /\ UNCHANGED <<card, root, jobs, mounted, diskVars, dirty, status>>

(* Seeded fault: the status of the copy is not looked at. *)
RsyncSystemUnchecked ==
  /\ At("rsyncsystem")
  /\ \E d \in {data[root]} \cup {e \in {"partial"} : faults < MaxFaults} :
       /\ data' = [data EXCEPT !["p2"] = d]
       /\ faults' = IF d = data[root] THEN faults ELSE faults + 1
  /\ marked' = marked \cup {"p2"}
  /\ dirty' = dirty \cup {"p2"}
  /\ Goto("rsyncconfig")
  /\ UNCHANGED <<card, root, jobs, mounted, table, loader, fs, dhclient, status, verdict>>

(* The copy takes recovery_partition along. *)
RsyncSystem ==
  /\ At("rsyncsystem")
  /\ \/ /\ data' = [data EXCEPT !["p2"] = data[root]]
        /\ marked' = marked \cup {"p2"}
        /\ Goto("rsyncconfig") /\ UNCHANGED <<verdict, faults>>
     \/ /\ Fault /\ RecoveryFailed
        /\ data' = [data EXCEPT !["p2"] = "partial"]
        /\ marked' \in {marked, marked \cup {"p2"}}
  /\ dirty' = dirty \cup {"p2"}
  /\ UNCHANGED <<card, root, jobs, mounted, table, loader, fs, dhclient, status>>

RsyncConfig ==
  /\ At("rsyncconfig")
  /\ \/ /\ \E c \in CopyOfConfig(root) : data' = [data EXCEPT !["p5"] = c]
        /\ Goto("unmark") /\ UNCHANGED <<verdict, faults>>
     \/ data[root] # "whole" /\ UNCHANGED <<data, faults>> /\ RecoveryFailed
     \/ /\ Fault /\ RecoveryFailed
        /\ \E c \in {"blank", "partial"} : data' = [data EXCEPT !["p5"] = c]
  /\ dirty' = dirty \cup {"p5"}
  /\ UNCHANGED <<card, root, jobs, mounted, table, loader, fs, marked, dhclient, status>>

Recovered ==
  /\ verdict' = "recovered" /\ dirty' = {}
  /\ Goto("off") /\ root' = "none" /\ mounted' = {}

(* Seeded fault: rm /recovery_partition, without the ./emmc before it. *)
UnmarkRoot ==
  /\ At("unmark")
  /\ marked' = marked \ {root} /\ Recovered
  /\ UNCHANGED <<card, jobs, table, loader, fs, data, dhclient, status, faults>>

(* rm, which is not checked, and then sync, which is: a removal that did    *)
(* not get to the eMMC is one that was not made.                           *)
Unmark ==
  /\ At("unmark")
  /\ \/ marked' = marked \ {"p2"} /\ Recovered /\ UNCHANGED faults
     \/ UNCHANGED marked /\ Recovered /\ Fault
     \/ /\ marked' \in {marked, marked \ {"p2"}}
        /\ RecoveryFailed /\ Fault /\ UNCHANGED <<root, mounted, dirty>>
  /\ UNCHANGED <<card, jobs, table, loader, fs, data, dhclient, status>>

-----------------------------------------------------------------------------
Flash ==
  \/ Wipe \/ CopyLoader \/ Partition
  \/ \E p \in Parts : FormatJob(p) \/ ImageJob(p)
  \/ WaitFormats \/ CopyBoot \/ WaitImages \/ Mark \/ CopyConfig \/ FlashVerdict

Check == RcS \/ Config \/ ConfigBreaks \/ ConfigSkipped \/ Update \/ Dhclient \/ Marker

Recovery == Mkfs6 \/ Mkfs5 \/ Mkfs2 \/ Mount \/ RsyncSystem \/ RsyncConfig \/ Unmark

Script == Flash \/ Check \/ Recovery

Next ==
  \/ Script
  \/ InsertCard \/ RemoveCard \/ BootCard \/ Boot("p2") \/ Boot("p3") \/ SwitchOff
  \/ PowerCut

Spec == Init /\ [][Next]_vars

(* Commands end, and there are only so many failures and power cuts.  The  *)
(* user does not leave a board that stopped alone, nor the card in its     *)
(* slot, and starts the recovery partition time and again.                 *)
FairSpec ==
  Spec /\ WF_vars(Script) /\ WF_vars(SwitchOff) /\ WF_vars(RemoveCard) /\ SF_vars(Boot("p3"))

-----------------------------------------------------------------------------
(* Properties *)

(* What exit 0 of setup_to_emmc.sh vouches for, with every check it does   *)
(* not make: the boot partition is complete, recovery and config can be    *)
(* mounted, and config is complete if the recovery system is.              *)
FlashChecked ==
  verdict = "complete" /\ status = 0 =>
    /\ Mountable("p1") /\ data["p1"] = "whole"
    /\ Mountable("p3") /\ Mountable("p5")
    /\ data["p3"] = "whole" => data["p5"] = "whole"

(* A complete recovery system, which will recover when it is started. *)
Golden ==
  /\ loader /\ table = Parts
  /\ fs["p1"] /\ data["p1"] = "whole"
  /\ fs["p3"] /\ data["p3"] = "whole" /\ "p3" \in marked

Restored == Mountable("p2") /\ data["p2"] = "whole" /\ "p2" \notin marked

(* A board nothing has gone wrong with: flashing leaves both systems, and  *)
(* only p2 is ever served from, with its own config and update partitions. *)
NothingWrong ==
  faults = 0 =>
    /\ verdict = "complete" => Golden /\ Restored /\ status = 0
    /\ pc = "serving" =>
         /\ root = "p2" /\ mounted = {"p5", "p6"}
         /\ data["p5"] = "whole" /\ dhclient

(* recovery_complete.wav: whichever way earlier attempts were cut short or *)
(* failed, p2 and the config are copies of the recovery system, and p6 is  *)
(* there to be mounted.                                                    *)
RecoveryVerdict ==
  verdict = "recovered" =>
    /\ \A p \in {"p2", "p5", "p6"} : Mountable(p)
    /\ data["p2"] = data["p3"]
    /\ data["p3"] = "whole" => data["p5"] = "whole"

(* Nothing but a new flash takes the recovery system away: no boot, no     *)
(* recovery, finished or not, and no power cut during one.                 *)
GoldenKept == [][Golden /\ pc \notin FlashPcs => Golden']_vars

(* As long as there is one, p2 comes back, wherever power went during      *)
(* earlier recoveries and whether or not p2 kept its marker.               *)
Recoverable == Golden /\ pc \notin FlashPcs ~> Restored \/ pc \in FlashPcs

(* Claims of comments and messages that the scripts do not keep *)

(* online_check.sh:21-27: flashing_complete.wav, and not                   *)
(* flashing_failed.wav, says that setup_to_emmc.sh came to its             *)
(* "exit 0 # success on exit" (setup_to_emmc.sh:208).                      *)
CompleteMeansSuccess == verdict = "complete" => status = 0

=============================================================================
