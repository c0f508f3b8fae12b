---------------------------- MODULE PackageBuild ----------------------------
(***************************************************************************)
(* The package infrastructure of Buildroot: how one serial make turns the  *)
(* packages of a configuration into installed files, remembering in stamp  *)
(* files which step of which package it has finished.                      *)
(*                                                                         *)
(*   package/Makefile.package.in   GENTARGETS: the steps and their stamps  *)
(*   package/Makefile.autotools.in the commands of a step                  *)
(*   toolchain/patch-kernel.sh     the patch step                          *)
(*   Makefile                      the world and source goals              *)
(*                                                                         *)
(* make itself is sequential (.NOTPARALLEL), so a step is one action; what *)
(* interleaves with it is its environment: a transfer that breaks, a       *)
(* command that fails or is killed half way, a user who removes stamps,    *)
(* archives and build directories between two runs of make.                *)
(*                                                                         *)
(* A pattern rule for a stamp has no prerequisites: whether a step runs is *)
(* decided only by whether its stamp file exists.  That is why the visited *)
(* targets of a make need not be recorded here: nothing a make does on the *)
(* way forward removes a stamp, so "already visited" and "stamp present"   *)
(* are the same.                                                           *)
(***************************************************************************)
EXTENDS Naturals, FiniteSets

CONSTANTS
  Pkgs,         \* every package, the host-foo variants being packages of their own
  HostPkgs,     \* those with $(PKG)_TYPE = host
  StagingPkgs,  \* target packages with INSTALL_STAGING = YES
  TargetPkgs,   \* target packages with INSTALL_TARGET = YES
  PatchedPkgs,  \* packages whose patch step changes the source tree
  GitPkgs,      \* packages with SITE_METHOD = git
  Deps,         \* Deps[p]: $(PKG)_DEPENDENCIES
  Selected,     \* TARGETS: the target packages the configuration selects
  HasPrimary,   \* BR2_PRIMARY_SITE is set
  HasBackup,    \* BR2_BACKUP_SITE is set
  Mirrored,     \* packages those two sites serve
  MaxFaults,    \* bound: failures and kills of a running step
  MaxOps        \* bound: things the user asks for besides make world

ASSUME PackagesAssumption ==
  /\ HostPkgs \subseteq Pkgs
  /\ StagingPkgs \subseteq Pkgs \ HostPkgs
  /\ TargetPkgs \subseteq Pkgs \ HostPkgs
  /\ Pkgs \ HostPkgs = StagingPkgs \cup TargetPkgs
  /\ PatchedPkgs \subseteq Pkgs
  /\ GitPkgs \subseteq Pkgs
  /\ Selected \subseteq Pkgs \ HostPkgs
  /\ Deps \in [Pkgs -> SUBSET Pkgs]

(* GNU make drops circular prerequisites; no package set uses them. *)
ASSUME AcyclicAssumption ==
  \A p \in Pkgs : \E S \in SUBSET Pkgs :
     Deps[p] \subseteq S /\ (\A r \in S : Deps[r] \subseteq S) /\ p \notin S

ASSUME SitesAssumption ==
  /\ HasPrimary \in BOOLEAN /\ HasBackup \in BOOLEAN
  /\ Mirrored \subseteq IF HasPrimary \/ HasBackup THEN Pkgs ELSE {}

ASSUME BoundsAssumption == MaxFaults \in Nat /\ MaxOps \in Nat

-----------------------------------------------------------------------------
(* Steps, and the order make visits them in *)

Rank == [downloaded |-> 0, extracted |-> 1, patched |-> 2, configured |-> 3,
         built |-> 4, staging_installed |-> 5, target_installed |-> 5,
         host_installed |-> 5]

InstallSteps(p) ==
  IF p \in HostPkgs THEN {"host_installed"}
  ELSE {s \in {"staging_installed", "target_installed"} :
          p \in IF s = "staging_installed" THEN StagingPkgs ELSE TargetPkgs}

Steps(p) ==
  {"downloaded", "extracted", "patched", "configured", "built"} \cup InstallSteps(p)

Before(p, s) == {t \in Steps(p) : Rank[t] < Rank[s]}
After(p, s)  == {t \in Steps(p) : Rank[t] > Rank[s]}

(* The packages p-depends reaches: the least set that holds the            *)
(* dependencies of p and is closed under Deps.                             *)
Needed(p) ==
  {q \in Pkgs : \A S \in SUBSET Pkgs :
     (Deps[p] \subseteq S /\ \A r \in S : Deps[r] \subseteq S) => q \in S}

(* make source: the selected packages, the host packages they name, and    *)
(* one further level ("limit to 1 level for now").                         *)
TargetsHostDeps == HostPkgs \cap UNION {Deps[p] : p \in Selected}
SourcePkgs == Selected \cup TargetsHostDeps \cup UNION {Deps[h] : h \in TargetsHostDeps}

WorldPkgs == Selected \cup UNION {Needed(p) : p \in Selected}

Goals == [kind : {"world", "source"}, pkg : {"all"}]
         \cup [kind : {"uninstall", "clean", "dirclean"}, pkg : Pkgs]

World  == [kind |-> "world",  pkg |-> "all"]
Source == [kind |-> "source", pkg |-> "all"]

-----------------------------------------------------------------------------
VARIABLES
  archive,   \* archive[p]: the file in DL_DIR
  clone,     \* clone[p]: DL_DIR/BASE_NAME, the working copy git clone leaves
  tree,      \* tree[p]: the sources in the build directory of p
  origin,    \* origin[p]: what archive the tree was unpacked from
  output,    \* output[p]: steps whose products are complete on disk
  stamps,    \* stamps[p]: the .stamp_ files in the build directory of p
  goal,      \* what the current, or the last, make was asked for
  phase,     \* "none" before the first make, then running, ok or failed
  ran,       \* stampless targets this make has already run
  faults,    \* failures and kills so far
  ops        \* user operations so far

(* History: no action's guard or other effect depends on these two. *)
VARIABLES
  stale,     \* stale[p]: steps whose products predate the last run of an earlier step
  suspect    \* packages on which something other than a forward step left stamps behind

dlVars   == <<archive, clone>>
pkgVars  == <<tree, origin, output, stamps>>
makeVars == <<goal, phase, ran>>
vars == <<archive, clone, tree, origin, output, stamps, goal, phase, ran,
          faults, ops, stale, suspect>>

ArchiveStates == {"absent", "partial", "requested", "default"}
TreeStates    == {"none", "partial", "pristine", "mixed", "patched", "residue"}
Phases        == {"none", "running", "ok", "failed"}

TypeOK ==
  /\ archive \in [Pkgs -> ArchiveStates]
  /\ clone \in [Pkgs -> BOOLEAN]
  /\ tree \in [Pkgs -> TreeStates]
  /\ origin \in [Pkgs -> ArchiveStates]
  /\ \A p \in Pkgs : output[p] \subseteq Steps(p)
  /\ output \in [Pkgs -> SUBSET DOMAIN Rank]
  /\ \A p \in Pkgs : stamps[p] \subseteq Steps(p)
  /\ stamps \in [Pkgs -> SUBSET DOMAIN Rank]
  /\ stale \in [Pkgs -> SUBSET DOMAIN Rank]
  /\ goal \in Goals
  /\ phase \in Phases
  /\ ran \subseteq {"uninstalled", "cleaned", "dircleaned"}
  /\ faults \in 0..MaxFaults
  /\ ops \in 0..MaxOps
  /\ suspect \subseteq Pkgs

Init ==
  /\ archive = [p \in Pkgs |-> "absent"]
  /\ clone = [p \in Pkgs |-> FALSE]
  /\ tree = [p \in Pkgs |-> "none"]
  /\ origin = [p \in Pkgs |-> "absent"]
  /\ output = [p \in Pkgs |-> {}]
  /\ stamps = [p \in Pkgs |-> {}]
  /\ goal = World
  /\ phase = "none"
  /\ ran = {}
  /\ faults = 0
  /\ ops = 0
  /\ stale = [p \in Pkgs |-> {}]
  /\ suspect = {}

-----------------------------------------------------------------------------
(* What make looks at *)

Complete(q) == Steps(q) \subseteq stamps[q]

(* The stamps the current goal leads to. *)
Wanted(p, s) ==
  /\ phase = "running"
  /\ s \in Steps(p) \ stamps[p]
  /\ \/ goal = World /\ p \in WorldPkgs
     \/ goal = Source /\ p \in SourcePkgs /\ s = "downloaded"
     \/ /\ goal.kind \in {"uninstall", "clean"}
        /\ \/ p \in Needed(goal.pkg)
           \/ p = goal.pkg /\ Rank[s] <= Rank["configured"]

(* Seeded fault: p-extract without its dependency on p-depends. *)
ReadyAlone(p, s) == Wanted(p, s) /\ Before(p, s) \subseteq stamps[p]

(* p-extract depends on p-depends, hence on everything p needs installed;  *)
(* p-install names p-install-staging before p-install-target.              *)
Ready(p, s) ==
  /\ Wanted(p, s)
  /\ Before(p, s) \subseteq stamps[p]
  /\ s # "downloaded" => \A q \in Needed(p) : Complete(q)
  /\ s = "target_installed" /\ p \in StagingPkgs => "staging_installed" \in stamps[p]

Whole == {"requested", "default"}

(* Whether the effect of a step is on disk, whatever the stamps say. *)
InPlace(p, s) ==
  CASE s = "downloaded" -> archive[p] \in Whole
    [] s = "extracted"  -> tree[p] \in {"pristine", "mixed", "patched"}
    [] s = "patched"    -> tree[p] = "patched"
    [] OTHER            -> s \in output[p]

Touch(p, s) == stamps' = [stamps EXCEPT ![p] = @ \cup {s}]

(* Step s of p runs again: what later steps made is from before. *)
Outdate(p, s) == stale' = [stale EXCEPT ![p] = (@ \ {s}) \cup (After(p, s) \cap output[p])]

Stop == phase' = "failed" /\ UNCHANGED <<goal, ran>>

Fault == faults < MaxFaults /\ faults' = faults + 1

UserOp == ops < MaxOps /\ ops' = ops + 1

-----------------------------------------------------------------------------
(* .stamp_downloaded.  The sites are tried in turn, each behind a test -e  *)
(* of the file in DL_DIR: whatever is there, whole or not, is taken.  A    *)
(* mirror serves the tarball of the requested version over wget; the git   *)
(* method writes git archive of that version to SOURCE, removes it again   *)
(* and packs the working copy of the clone, which is the default branch.   *)
(* git clone refuses a directory an earlier clone has left.                *)

HasWget(p) == p \notin GitPkgs \/ p \in Mirrored

Deliveries(p) == {a \in Whole : IF a = "requested" THEN HasWget(p)
                                ELSE p \in GitPkgs /\ ~clone[p]}

Download(p) ==
  /\ Ready(p, "downloaded")
  /\ IF archive[p] # "absent" THEN UNCHANGED archive
     ELSE \E a \in Deliveries(p) : archive' = [archive EXCEPT ![p] = a]
  /\ Touch(p, "downloaded")
  /\ UNCHANGED <<clone, tree, origin, output, goal, phase, ran, faults, ops, stale, suspect>>

(* A transfer breaks off, or packing the clone does; the next site's       *)
(* test -e finds the fragment and the step succeeds.                       *)
DownloadTorn(p) ==
  /\ Ready(p, "downloaded") /\ archive[p] = "absent"
  /\ HasPrimary \/ HasBackup
  /\ Fault
  /\ archive' = [archive EXCEPT ![p] = "partial"]
  /\ \E c \in {clone[p], clone[p] \/ (p \in GitPkgs /\ HasBackup)} :
       clone' = [clone EXCEPT ![p] = c]
  /\ Touch(p, "downloaded")
  /\ UNCHANGED <<tree, origin, output, goal, phase, ran, ops, stale, suspect>>

(* What a killed or failed download can leave in DL_DIR. *)
Fragments(p) ==
  {f \in ArchiveStates \X BOOLEAN :
     \/ HasWget(p) /\ f[1] # "default" /\ f[2] = clone[p]
     \/ p \in GitPkgs /\ ~clone[p] /\ f[2]
     \/ p \in GitPkgs /\ ~clone[p] /\ f[1] \in {"absent", "default"} /\ ~f[2]}

DownloadBreaks(p) ==
  /\ Ready(p, "downloaded") /\ archive[p] = "absent"
  /\ Fault
  /\ \E f \in Fragments(p) : /\ archive' = [archive EXCEPT ![p] = f[1]]
                             /\ clone' = [clone EXCEPT ![p] = f[2]]
  /\ Stop
  /\ UNCHANGED <<pkgVars, ops, stale, suspect>>

(* No site is left to try: the clone of an earlier make is in the way. *)
DownloadRefused(p) ==
  /\ Ready(p, "downloaded") /\ archive[p] = "absent"
  /\ Deliveries(p) = {}
  /\ Stop
  /\ UNCHANGED <<dlVars, pkgVars, faults, ops, stale, suspect>>

-----------------------------------------------------------------------------
(* .stamp_extracted.  The status of the pipeline is that of tar, which     *)
(* reports a truncated stream.  Unpacking over what a removal left behind  *)
(* does not take away the files a patch had created.                       *)

Extract(p) ==
  /\ Ready(p, "extracted") /\ archive[p] \in Whole
  /\ \E t \in {"pristine"} \cup {u \in {"mixed"} : tree[p] = "residue" /\ p \in PatchedPkgs} :
       tree' = [tree EXCEPT ![p] = t]
  /\ origin' = [origin EXCEPT ![p] = archive[p]]
  /\ Touch(p, "extracted") /\ Outdate(p, "extracted")
  /\ UNCHANGED <<dlVars, output, makeVars, faults, ops, suspect>>

(* Seeded fault: mkdir without -p, which a build directory already there   *)
(* makes fail.                                                             *)
ExtractFailsAgain(p) ==
  /\ Ready(p, "extracted") /\ (archive[p] \notin Whole \/ tree[p] = "partial")
  /\ tree' = [tree EXCEPT ![p] = IF @ = "residue" THEN @ ELSE "partial"]
  /\ origin' = [origin EXCEPT ![p] = archive[p]]
  /\ Stop
  /\ UNCHANGED <<dlVars, output, stamps, faults, ops, stale, suspect>>

ExtractFails(p) ==
  /\ Ready(p, "extracted") /\ archive[p] \notin Whole
  /\ tree' = [tree EXCEPT ![p] = IF @ = "residue" THEN @ ELSE "partial"]
  /\ origin' = [origin EXCEPT ![p] = archive[p]]
  /\ Stop
  /\ UNCHANGED <<dlVars, output, stamps, faults, ops, stale, suspect>>

ExtractBreaks(p) ==
  /\ Ready(p, "extracted") /\ archive[p] \in Whole
  /\ Fault
  /\ \E t \in {"partial", "pristine"} :
       tree' = [tree EXCEPT ![p] = IF @ = "residue" THEN @ ELSE t]
  /\ origin' = [origin EXCEPT ![p] = archive[p]]
  /\ Stop
  /\ UNCHANGED <<dlVars, output, stamps, ops, stale, suspect>>

-----------------------------------------------------------------------------
(* .stamp_patched.  patch-kernel.sh applies the patches one after the      *)
(* other to the tree itself, stops at the first that fails and refuses a   *)
(* tree with rejects.  A second run starts again at the first patch.       *)

(* Seeded fault: patch-kernel.sh without its || exit 1. *)
PatchUnchecked(p) ==
  /\ Ready(p, "patched")
  /\ tree' = [tree EXCEPT ![p] = IF @ = "pristine" THEN "patched" ELSE "mixed"]
  /\ Touch(p, "patched") /\ Outdate(p, "patched")
  /\ UNCHANGED <<dlVars, origin, output, makeVars, faults, ops, suspect>>

Patch(p) ==
  /\ Ready(p, "patched")
  /\ tree[p] \in {"pristine", "residue"} \/ p \notin PatchedPkgs
  /\ tree' = [tree EXCEPT ![p] = IF @ = "pristine" THEN "patched" ELSE @]
  /\ Touch(p, "patched") /\ Outdate(p, "patched")
  /\ UNCHANGED <<dlVars, origin, output, makeVars, faults, ops, suspect>>

PatchFails(p) ==
  /\ Ready(p, "patched") /\ p \in PatchedPkgs
  /\ tree[p] \in {"mixed", "patched", "residue"}
  /\ tree' = [tree EXCEPT ![p] = IF @ = "residue" THEN @ ELSE "mixed"]
  /\ Stop
  /\ UNCHANGED <<dlVars, origin, output, stamps, faults, ops, stale, suspect>>

PatchBreaks(p) ==
  /\ Ready(p, "patched") /\ p \in PatchedPkgs /\ tree[p] = "pristine"
  /\ Fault
  /\ \E t \in {"pristine", "mixed", "patched"} : tree' = [tree EXCEPT ![p] = t]
  /\ Stop
  /\ UNCHANGED <<dlVars, origin, output, stamps, ops, stale, suspect>>

-----------------------------------------------------------------------------
(* .stamp_configured, .stamp_built and the install stamps: the package's   *)
(* own commands, which can run any number of times.  The stamp is touched  *)
(* last, so a step that breaks may have done its work, or spoilt it.       *)

LaterSteps(p) == {"configured", "built"} \cup InstallSteps(p)

RunStep(p, s) ==
  /\ s \in LaterSteps(p) /\ Ready(p, s)
  /\ output' = [output EXCEPT ![p] = @ \cup {s}]
  /\ Touch(p, s) /\ Outdate(p, s)
  /\ UNCHANGED <<dlVars, tree, origin, makeVars, faults, ops, suspect>>

BreakStep(p, s) ==
  /\ s \in LaterSteps(p) /\ Ready(p, s)
  /\ Fault
  /\ \E O \in {output[p] \cup {s}, output[p] \ {s}} : output' = [output EXCEPT ![p] = O]
  /\ Outdate(p, s)
  /\ Stop
  /\ UNCHANGED <<dlVars, tree, origin, stamps, ops, suspect>>

-----------------------------------------------------------------------------
(* p-uninstall, p-clean and p-dirclean.  Their stamps are never created,   *)
(* so they run every time.  p-uninstall first configures p (and installs   *)
(* what p depends on); p-clean first uninstalls.  Each removes the files   *)
(* first and the stamp after them.                                         *)

InstalledFiles == {"staging_installed", "target_installed"}

Configured(p) == Before(p, "built") \subseteq stamps[p] /\ \A q \in Needed(p) : Complete(q)

AtUninstall(p) ==
  /\ phase = "running" /\ goal.kind \in {"uninstall", "clean"} /\ goal.pkg = p
  /\ "uninstalled" \notin ran /\ Configured(p)

AtClean(p) ==
  /\ phase = "running" /\ goal.kind = "clean" /\ goal.pkg = p
  /\ "uninstalled" \in ran /\ "cleaned" \notin ran

AtDirClean(p) ==
  /\ phase = "running" /\ goal.kind = "dirclean" /\ goal.pkg = p
  /\ "dircleaned" \notin ran

(* Seeded fault: the files go and their stamps stay. *)
UninstallFiles(p) ==
  /\ AtUninstall(p)
  /\ output' = [output EXCEPT ![p] = @ \ InstalledFiles]
  /\ ran' = ran \cup {"uninstalled"}
  /\ UNCHANGED <<dlVars, tree, origin, stamps, goal, phase, faults, ops, stale, suspect>>

Uninstall(p) ==
  /\ AtUninstall(p)
  /\ output' = [output EXCEPT ![p] = @ \ InstalledFiles]
  /\ stamps' = [stamps EXCEPT ![p] = @ \ InstalledFiles]
  /\ ran' = ran \cup {"uninstalled"}
  /\ UNCHANGED <<dlVars, tree, origin, goal, phase, faults, ops, stale, suspect>>

(* Killed among: uninstall from staging, remove that stamp, uninstall from *)
(* target, remove that stamp.                                              *)
UninstallBreaks(p) ==
  /\ AtUninstall(p)
  /\ Fault
  /\ \E O \in {{"staging_installed"}, InstalledFiles},
        S \in {{}, {"staging_installed"}} :
       /\ O = InstalledFiles => S # {}
       /\ output' = [output EXCEPT ![p] = @ \ O]
       /\ stamps' = [stamps EXCEPT ![p] = @ \ S]
  /\ suspect' = suspect \cup {p}
  /\ Stop
  /\ UNCHANGED <<dlVars, tree, origin, ops, stale>>

(* Seeded fault: the rule ends like every other one, with touch $@. *)
CleanTouch(p) ==
  /\ AtClean(p)
  /\ output' = [output EXCEPT ![p] = @ \ {"built"}]
  /\ stamps' = [stamps EXCEPT ![p] = (@ \ {"built"}) \cup {"cleaned"}]
  /\ ran' = ran \cup {"cleaned"}
  /\ suspect' = IF p \in HostPkgs THEN suspect \cup {p} ELSE suspect
  /\ UNCHANGED <<dlVars, tree, origin, goal, phase, faults, ops, stale>>

(* Only .stamp_built goes: the .stamp_host_installed of a host package,    *)
(* which p-uninstall does not know of, survives the objects it came from.  *)
Clean(p) ==
  /\ AtClean(p)
  /\ output' = [output EXCEPT ![p] = @ \ {"built"}]
  /\ stamps' = [stamps EXCEPT ![p] = @ \ {"built"}]
  /\ ran' = ran \cup {"cleaned"}
  /\ suspect' = IF p \in HostPkgs THEN suspect \cup {p} ELSE suspect
  /\ UNCHANGED <<dlVars, tree, origin, goal, phase, faults, ops, stale>>

CleanBreaks(p) ==
  /\ AtClean(p)
  /\ Fault
  /\ output' = [output EXCEPT ![p] = @ \ {"built"}]
  /\ suspect' = suspect \cup {p}
  /\ Stop
  /\ UNCHANGED <<dlVars, tree, origin, stamps, ops, stale>>

(* rm -Rf of the build directory; what p installed stays installed. *)
DirClean(p) ==
  /\ AtDirClean(p)
  /\ tree' = [tree EXCEPT ![p] = "none"]
  /\ origin' = [origin EXCEPT ![p] = "absent"]
  /\ output' = [output EXCEPT ![p] = @ \cap InstallSteps(p)]
  /\ stamps' = [stamps EXCEPT ![p] = {}]
  /\ ran' = ran \cup {"dircleaned"}
  /\ suspect' = suspect \ {p}
  /\ UNCHANGED <<dlVars, goal, phase, faults, ops, stale>>

(* rm removes the files, stamps among them, in directory order. *)
DirCleanBreaks(p) ==
  /\ AtDirClean(p) /\ tree[p] # "none"
  /\ Fault
  /\ tree' = [tree EXCEPT ![p] = "residue"]
  /\ output' = [output EXCEPT ![p] = @ \cap InstallSteps(p)]
  /\ \E S \in SUBSET stamps[p] : stamps' = [stamps EXCEPT ![p] = S]
  /\ suspect' = suspect \cup {p}
  /\ Stop
  /\ UNCHANGED <<dlVars, origin, ops, stale>>

-----------------------------------------------------------------------------
(* A run of make: begin, end, killed between two steps *)

Achieved ==
  /\ goal = World  => \A p \in WorldPkgs : Complete(p)
  /\ goal = Source => \A p \in SourcePkgs : "downloaded" \in stamps[p]
  /\ goal.kind = "uninstall" => "uninstalled" \in ran
  /\ goal.kind = "clean"     => "cleaned" \in ran
  /\ goal.kind = "dirclean"  => "dircleaned" \in ran

StartMake(g) ==
  /\ phase # "running"
  /\ IF g = World THEN UNCHANGED ops ELSE UserOp
  /\ goal' = g /\ phase' = "running" /\ ran' = {}
  /\ UNCHANGED <<dlVars, pkgVars, faults, stale, suspect>>

Finish ==
  /\ phase = "running" /\ Achieved
  /\ phase' = "ok"
  /\ UNCHANGED <<dlVars, pkgVars, goal, ran, faults, ops, stale, suspect>>

Interrupt ==
  /\ phase = "running"
  /\ Fault
  /\ Stop
  /\ UNCHANGED <<dlVars, pkgVars, ops, stale, suspect>>

-----------------------------------------------------------------------------
(* The user, between two makes *)

(* The documentation's way to have steps run again without starting from   *)
(* scratch (docs/buildroot.html, "rebuild packages").                      *)
RemoveStamp(p, s) ==
  /\ phase # "running" /\ s \in {"configured", "built"} \cap stamps[p]
  /\ UserOp
  /\ stamps' = [stamps EXCEPT ![p] = @ \ {s}]
  /\ suspect' = suspect \cup {p}
  /\ phase' = "none"
  /\ UNCHANGED <<dlVars, tree, origin, output, goal, ran, faults, stale>>

RemoveDownload(p) ==
  /\ phase # "running" /\ (archive[p] # "absent" \/ clone[p])
  /\ UserOp
  /\ archive' = [archive EXCEPT ![p] = "absent"]
  /\ clone' = [clone EXCEPT ![p] = FALSE]
  /\ phase' = "none"
  /\ UNCHANGED <<pkgVars, goal, ran, faults, stale, suspect>>

-----------------------------------------------------------------------------
StepForward(p) ==
  \/ Download(p) \/ DownloadRefused(p)
  \/ Extract(p)  \/ ExtractFails(p)
  \/ Patch(p)    \/ PatchFails(p)
  \/ \E s \in LaterSteps(p) : RunStep(p, s)
  \/ Uninstall(p) \/ Clean(p) \/ DirClean(p)

StepBreaks(p) ==
  \/ DownloadTorn(p) \/ DownloadBreaks(p) \/ ExtractBreaks(p) \/ PatchBreaks(p)
  \/ \E s \in LaterSteps(p) : BreakStep(p, s)
  \/ UninstallBreaks(p) \/ CleanBreaks(p) \/ DirCleanBreaks(p)

User(p) == RemoveDownload(p) \/ \E s \in {"configured", "built"} : RemoveStamp(p, s)

Progress == Finish \/ \E p \in Pkgs : StepForward(p)

Next ==
  \/ Progress
  \/ Interrupt
  \/ \E p \in Pkgs : StepBreaks(p) \/ User(p)
  \/ \E g \in Goals : StartMake(g)

Spec == Init /\ [][Next]_vars

(* make runs as long as it can, and the user who wants the image starts    *)
(* make world again whenever it has stopped.                               *)
FairSpec == Spec /\ WF_vars(Progress) /\ WF_vars(StartMake(World))

-----------------------------------------------------------------------------
(* Properties *)

(* The stamps "just tell whether this or that action has been done"        *)
(* (docs/buildroot.html:462): whatever breaks while make goes forward,     *)
(* however often it is run again, every stamp of a package stands for a    *)
(* step whose product is on disk and no older than the steps before it.    *)
(* The download stamp is left out: test -e takes a fragment for an archive.*)
HonestStamps ==
  \A p \in Pkgs \ suspect : \A s \in stamps[p] \ {"downloaded"} :
     InPlace(p, s) /\ s \notin stale[p]

(* A package is configured and compiled only in a completely patched tree  *)
(* and with everything it needs, directly or not, installed.               *)
CompileSound ==
  [][\A p \in Pkgs : \A s \in {"configured", "built"} :
       /\ s \in stamps'[p] \ stamps[p]
       /\ ({p} \cup Needed(p)) \cap suspect = {}
       => /\ tree[p] = "patched"
          /\ \A q \in Needed(p) : InstallSteps(q) \subseteq output[q] \ stale[q]]_vars

(* What make world reports as built is built: each package of the image    *)
(* has its files installed, from the sources of a whole archive.           *)
ImageComplete ==
  phase = "ok" /\ goal = World =>
    \A p \in WorldPkgs \ suspect :
       /\ origin[p] \in Whole
       /\ InstallSteps(p) \subseteq output[p] \ stale[p]

(* What running make again cannot get past: a fragment or a removed file   *)
(* behind a download stamp or in DL_DIR, a clone left behind with no       *)
(* mirror to turn to, a tree that has already seen some of its patches.    *)
Wedged(p) ==
  \/ archive[p] = "partial" /\ "extracted" \notin stamps[p]
  \/ archive[p] = "absent" /\ "downloaded" \in stamps[p] /\ "extracted" \notin stamps[p]
  \/ archive[p] = "absent" /\ Deliveries(p) = {} /\ "downloaded" \notin stamps[p]
  \/ /\ p \in PatchedPkgs /\ "patched" \notin stamps[p]
     /\ tree[p] \in {"mixed", "patched", "residue"}

(* A user who keeps running make ends up with the image, or with a package *)
(* in one of those four states: nothing else stops a build for good.       *)
SettlesOrWedges ==
  <>[]((\A p \in WorldPkgs : Complete(p)) \/ \E p \in WorldPkgs : Wedged(p))

(* Claims of the documentation and of comments that the code does not keep *)

(* docs/buildroot.html:253-262: after make source one can disconnect: every *)
(* archive the build needs is in DL_DIR.                                   *)
OfflineSources ==
  phase = "ok" /\ goal = Source => \A p \in SourcePkgs : archive[p] \in Whole

(* docs/buildroot.html:472: without .stamp_configured a package is         *)
(* compiled again "from the configuration step".                           *)
RecompiledFromConfigure ==
  phase = "ok" /\ goal = World => \A p \in WorldPkgs : "built" \notin stale[p]

(* Makefile.package.in:88: the download helpers check out "the requested   *)
(* version / commit / tag" and archive it.                                 *)
RequestedRevision ==
  phase = "ok" /\ goal = World => \A p \in WorldPkgs : origin[p] = "requested"

=============================================================================
