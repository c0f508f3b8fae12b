------------------------ MODULE PackageBuild_proofs -------------------------
(***************************************************************************)
(* Proofs about PackageBuild, for every set of packages, every dependency  *)
(* relation and every bound.                                               *)
(***************************************************************************)
EXTENDS PackageBuild, TLAPS

AllSteps == {"downloaded", "extracted", "patched", "configured", "built",
             "staging_installed", "target_installed", "host_installed"}

(* The ranks are numbers, known for each step. *)
LEMMA RankFacts ==
  /\ DOMAIN Rank = AllSteps
  /\ \A s \in AllSteps : Rank[s] \in 0..5
  /\ Rank["downloaded"] = 0 /\ Rank["extracted"] = 1 /\ Rank["patched"] = 2
  /\ Rank["configured"] = 3 /\ Rank["built"] = 4
  /\ \A s \in {"staging_installed", "target_installed", "host_installed"} : Rank[s] = 5
BY DEF Rank, AllSteps

(* The steps of a package are among all steps. *)
LEMMA StepsFacts ==
  ASSUME NEW p \in Pkgs
  PROVE  /\ Steps(p) \subseteq AllSteps
         /\ InstallSteps(p) \subseteq Steps(p)
         /\ LaterSteps(p) \subseteq Steps(p)
         /\ {"downloaded", "extracted", "patched", "configured", "built"} \subseteq Steps(p)
BY DEF Steps, InstallSteps, LaterSteps, AllSteps

(* The initial state is well typed. *)
LEMMA InitTypeOK == Init => TypeOK
<1> SUFFICES ASSUME Init PROVE TypeOK
  OBVIOUS
<1>1. World \in Goals
  BY DEF World, Goals
<1>2. faults \in 0..MaxFaults /\ ops \in 0..MaxOps
  BY BoundsAssumption DEF Init
<1>3. QED
  BY <1>1, <1>2 DEF Init, TypeOK, ArchiveStates, TreeStates, Phases

(* The variables of a package: what each step may do to their types. *)
LEMMA StepTypeOK ==
  ASSUME TypeOK, NEW p \in Pkgs, StepForward(p) \/ StepBreaks(p)
  PROVE  TypeOK'
<1> USE StepsFacts, RankFacts, BoundsAssumption
<1> USE DEF TypeOK, ArchiveStates, TreeStates, Phases, Whole, Touch, Outdate, Stop, Fault,
        dlVars, pkgVars, makeVars, After
<1>1. CASE Download(p)
  BY <1>1 DEF Download, Deliveries
<1>2. CASE DownloadRefused(p)
  BY <1>2 DEF DownloadRefused
<1>3. CASE Extract(p)
  BY <1>3 DEF Extract
<1>4. CASE ExtractFails(p)
  BY <1>4 DEF ExtractFails
<1>5. CASE Patch(p)
  BY <1>5 DEF Patch
<1>6. CASE PatchFails(p)
  BY <1>6 DEF PatchFails
<1>7. ASSUME NEW s \in LaterSteps(p), RunStep(p, s) PROVE TypeOK'
  BY <1>7 DEF RunStep
<1>8. CASE Uninstall(p)
  BY <1>8 DEF Uninstall
<1>9. CASE Clean(p)
  BY <1>9 DEF Clean
<1>10. CASE DirClean(p)
  BY <1>10 DEF DirClean
<1>11. CASE DownloadTorn(p)
  <2>1. PICK c \in {clone[p], clone[p] \/ (p \in GitPkgs /\ HasBackup)} :
          clone' = [clone EXCEPT ![p] = c]
    BY <1>11 DEF DownloadTorn
  <2>2. c \in BOOLEAN
    <3>1. clone[p] \in BOOLEAN
      OBVIOUS
    <3>2. (clone[p] \/ (p \in GitPkgs /\ HasBackup)) \in BOOLEAN
      BY ZenonT(10)
    <3>3. QED
      BY <2>1, <3>1, <3>2, ZenonT(10)
  <2>3. clone' \in [Pkgs -> BOOLEAN]
    BY <2>1, <2>2
  <2>4. QED
    BY <1>11, <2>3 DEF DownloadTorn
<1>12. CASE DownloadBreaks(p)
  BY <1>12 DEF DownloadBreaks, Fragments
<1>13. CASE ExtractBreaks(p)
  BY <1>13 DEF ExtractBreaks
<1>14. CASE PatchBreaks(p)
  BY <1>14 DEF PatchBreaks
<1>15. ASSUME NEW s \in LaterSteps(p), BreakStep(p, s) PROVE TypeOK'
  BY <1>15 DEF BreakStep
<1>16. CASE UninstallBreaks(p)
  BY <1>16 DEF UninstallBreaks
<1>17. CASE CleanBreaks(p)
  BY <1>17 DEF CleanBreaks
<1>18. CASE DirCleanBreaks(p)
  BY <1>18 DEF DirCleanBreaks
<1>19. QED
  BY <1>1, <1>2, <1>3, <1>4, <1>5, <1>6, <1>7, <1>8, <1>9, <1>10, <1>11, <1>12, <1>13,
     <1>14, <1>15, <1>16, <1>17, <1>18 DEF StepForward, StepBreaks

(* Every step of the system keeps the variables well typed. *)
LEMMA NextTypeOK == TypeOK /\ [Next]_vars => TypeOK'
<1> SUFFICES ASSUME TypeOK, [Next]_vars PROVE TypeOK'
  OBVIOUS
<1> USE BoundsAssumption DEF dlVars, pkgVars, makeVars
<1>1. ASSUME NEW p \in Pkgs, StepForward(p) \/ StepBreaks(p) PROVE TypeOK'
  BY <1>1, StepTypeOK
<1>2. CASE Finish
  BY <1>2 DEF Finish, TypeOK, Phases
<1>3. CASE Interrupt
  BY <1>3 DEF Interrupt, TypeOK, Phases, Fault, Stop
<1>4. ASSUME NEW p \in Pkgs, RemoveDownload(p) PROVE TypeOK'
  BY <1>4 DEF RemoveDownload, TypeOK, Phases, ArchiveStates, UserOp
<1>5. ASSUME NEW p \in Pkgs, NEW s \in {"configured", "built"}, RemoveStamp(p, s)
      PROVE TypeOK'
  BY <1>5 DEF RemoveStamp, TypeOK, Phases, UserOp
<1>6. ASSUME NEW g \in Goals, StartMake(g) PROVE TypeOK'
  BY <1>6 DEF StartMake, TypeOK, Phases, UserOp
<1>7. CASE UNCHANGED vars
  BY <1>7 DEF vars, TypeOK
<1>8. QED
  BY <1>1, <1>2, <1>3, <1>4, <1>5, <1>6, <1>7 DEF Next, Progress, User

(* The variables of the package infrastructure keep their types.           *)
THEOREM TypeCorrect == Spec => []TypeOK
<1>1. QED
  BY InitTypeOK, NextTypeOK, PTL DEF Spec

-----------------------------------------------------------------------------
(* The inductive invariant.  HonestStamps alone is not inductive: that a   *)
(* step which runs again spoils no stamped product needs the stamps to be  *)
(* there in the order of the steps; that p-clean leaves no install stamp   *)
(* behind needs the p-uninstall before it; that a package without patches  *)
(* is never left half patched is a fact about the tree.                    *)

InOrder ==
  \A p \in Pkgs \ suspect : \A s \in stamps[p] : Before(p, s) \subseteq stamps[p]

OnlyPatchedMixed == \A p \in Pkgs : tree[p] = "mixed" => p \in PatchedPkgs

FromWholeArchive ==
  \A p \in Pkgs \ suspect : "extracted" \in stamps[p] => origin[p] \in Whole

UninstalledFirst ==
  phase = "running" /\ goal.kind = "clean" /\ "uninstalled" \in ran =>
    stamps[goal.pkg] \cap InstalledFiles = {}

WorldStamped ==
  phase = "ok" /\ goal = World => \A p \in WorldPkgs \ suspect : Complete(p)

IInv ==
  /\ TypeOK
  /\ HonestStamps
  /\ InOrder
  /\ OnlyPatchedMixed
  /\ FromWholeArchive
  /\ UninstalledFirst
  /\ WorldStamped

(* No package needs itself. *)
LEMMA NotNeededByItself == \A p \in Pkgs : p \notin Needed(p)
BY AcyclicAssumption DEF Needed

LEMMA NeededArePkgs == \A p : Needed(p) \subseteq Pkgs
BY DEF Needed

(* Which steps come before which. *)
LEMMA OrderFacts ==
  ASSUME NEW p \in Pkgs
  PROVE  /\ \A s, t \in Steps(p) : t \in After(p, s) <=> s \in Before(p, t)
         /\ "patched" \in Before(p, "configured")
         /\ "extracted" \in Before(p, "patched")
         /\ \A s \in LaterSteps(p) : {"extracted", "patched"} \subseteq Before(p, s)
         /\ \A s \in InstallSteps(p) : "built" \in Before(p, s)
         /\ \A s \in InstallSteps(p) : After(p, s) = {}
         /\ \A s \in Steps(p) : s \notin Before(p, s)
<1> USE StepsFacts, RankFacts DEF Before, After, AllSteps
<1>1. \A s, t \in Steps(p) : t \in After(p, s) <=> s \in Before(p, t)
  <2> SUFFICES ASSUME NEW s \in Steps(p), NEW t \in Steps(p)
               PROVE  Rank[t] > Rank[s] <=> Rank[s] < Rank[t]
    OBVIOUS
  <2>1. QED
    OBVIOUS
<1>2. "patched" \in Before(p, "configured") /\ "extracted" \in Before(p, "patched")
  OBVIOUS
<1>3. \A s \in LaterSteps(p) : Rank[s] >= 3
  BY DEF LaterSteps, InstallSteps
<1>4. \A s \in InstallSteps(p) : Rank[s] = 5
  BY DEF InstallSteps
<1>5. \A s \in LaterSteps(p) : {"extracted", "patched"} \subseteq Before(p, s)
  BY <1>3
<1>6. \A s \in InstallSteps(p) : "built" \in Before(p, s)
  BY <1>4
<1>7. \A s \in InstallSteps(p) : After(p, s) = {}
  BY <1>4
<1>8. \A s \in Steps(p) : s \notin Before(p, s)
  OBVIOUS
<1>9. QED
  BY <1>1, <1>2, <1>5, <1>6, <1>7, <1>8

LEMMA InitIInv == Init => IInv
BY InitTypeOK DEF Init, IInv, HonestStamps, InOrder, OnlyPatchedMixed, FromWholeArchive,
   UninstalledFirst, WorldStamped

(* No stamp of a package is later than a step that is ready to run, and    *)
(* such a step is one of the package's steps.                              *)
LEMMA ReadyFacts ==
  ASSUME IInv, NEW p \in Pkgs, NEW s, Ready(p, s)
  PROVE  /\ phase = "running"
         /\ s \in Steps(p) /\ s \notin stamps[p] /\ Before(p, s) \subseteq stamps[p]
         /\ p \notin suspect => After(p, s) \cap stamps[p] = {}
<1>1. phase = "running" /\ s \in Steps(p) /\ s \notin stamps[p] /\ Before(p, s) \subseteq stamps[p]
  BY DEF Ready, Wanted
<1>2. ASSUME p \notin suspect, NEW t \in After(p, s) \cap stamps[p] PROVE FALSE
  <2>1. t \in Steps(p) /\ s \in Before(p, t)
    BY <1>1, <1>2, OrderFacts DEF After
  <2>2. Before(p, t) \subseteq stamps[p]
    BY <1>2 DEF IInv, InOrder
  <2>3. QED
    BY <1>1, <2>1, <2>2
<1>3. QED
  BY <1>1, <1>2

(* A make that has uninstalled a package in order to clean it wants no     *)
(* install step of that package.                                           *)
LEMMA NoReinstall ==
  ASSUME IInv, NEW p \in Pkgs, NEW s, Ready(p, s), goal.kind = "clean", goal.pkg = p
  PROVE  s \notin InstalledFiles
<1>1. goal # World /\ goal # Source
  BY DEF World, Source
<1>2. p \notin Needed(goal.pkg)
  BY NotNeededByItself
<1>3. Rank[s] <= 3
  BY <1>1, <1>2, RankFacts DEF Ready, Wanted
<1>4. QED
  BY <1>3, RankFacts DEF InstalledFiles

(* A step that runs to its end: if its product is then in place and no     *)
(* other product has changed, the stamps stay honest and in order.         *)
LEMMA StampStep ==
  ASSUME IInv, NEW p \in Pkgs, NEW s, Ready(p, s), Touch(p, s), Outdate(p, s),
         UNCHANGED suspect,
         p \notin suspect => \A t \in stamps'[p] \ {"downloaded"} : InPlace(p, t)',
         \A q \in Pkgs \ {p} : tree'[q] = tree[q] /\ output'[q] = output[q]
  PROVE  HonestStamps' /\ InOrder'
<1>1. /\ stamps' = [stamps EXCEPT ![p] = @ \cup {s}]
      /\ stale' = [stale EXCEPT ![p] = (@ \ {s}) \cup (After(p, s) \cap output[p])]
      /\ stamps \in [Pkgs -> SUBSET DOMAIN Rank] /\ stale \in [Pkgs -> SUBSET DOMAIN Rank]
  BY DEF Touch, Outdate, IInv, TypeOK
<1>2. InOrder'
  BY <1>1, ReadyFacts DEF IInv, InOrder
<1>3. ASSUME NEW q \in Pkgs \ suspect, NEW t \in stamps'[q] \ {"downloaded"}
      PROVE  InPlace(q, t)' /\ t \notin stale'[q]
  <2>1. CASE q = p
    <3>1. t = s \/ (t \in stamps[p] /\ t \notin After(p, s))
      BY <1>1, <1>3, <2>1, ReadyFacts
    <3>2. t = s => t \notin After(p, s)
      BY OrderFacts, ReadyFacts
    <3>3. t # s => t \notin stale[p]
      BY <1>3, <2>1, <3>1 DEF IInv, HonestStamps
    <3>4. QED
      BY <1>1, <1>3, <2>1, <3>1, <3>2, <3>3
  <2>2. CASE q # p
    <3>1. t \in stamps[q] \ {"downloaded"} /\ stale'[q] = stale[q]
      BY <1>1, <1>3, <2>2
    <3>2. InPlace(q, t) /\ t \notin stale[q]
      BY <1>3, <3>1 DEF IInv, HonestStamps
    <3>3. QED
      BY <1>3, <2>2, <3>1, <3>2 DEF InPlace
  <2>3. QED
    BY <2>1, <2>2
<1>4. QED
  BY <1>2, <1>3 DEF HonestStamps

(* The parts of the invariant that look at one package, kept by a step     *)
(* that leaves its stamps, and all it has stamped, alone.                  *)
LEMMA UnstampedStep ==
  ASSUME IInv, suspect \subseteq suspect',
         \A q \in Pkgs \ suspect' :
            /\ stamps'[q] = stamps[q]
            /\ \A t \in stamps[q] \ {"downloaded"} :
                 InPlace(q, t) /\ t \notin stale[q] => InPlace(q, t)' /\ t \notin stale'[q]
  PROVE  HonestStamps' /\ InOrder'
BY DEF IInv, HonestStamps, InOrder

(* A step that goes forward and ends with its stamp. *)
LEMMA StampedStepIInv ==
  ASSUME IInv, NEW p \in Pkgs,
         Download(p) \/ DownloadTorn(p) \/ Extract(p) \/ Patch(p)
           \/ \E s \in LaterSteps(p) : RunStep(p, s)
  PROVE  /\ HonestStamps' /\ InOrder' /\ OnlyPatchedMixed' /\ FromWholeArchive'
         /\ UninstalledFirst' /\ WorldStamped'
<1> USE DEF dlVars, pkgVars, makeVars
<1>0. TypeOK
  BY DEF IInv
<1>1. ASSUME Download(p) \/ DownloadTorn(p)
      PROVE  HonestStamps' /\ InOrder' /\ OnlyPatchedMixed' /\ FromWholeArchive'
  <2>1. /\ Ready(p, "downloaded") /\ Touch(p, "downloaded")
        /\ UNCHANGED <<tree, origin, output, stale, suspect, goal, phase, ran>>
    BY <1>1 DEF Download, DownloadTorn
  <2>2. stamps' = [stamps EXCEPT ![p] = @ \cup {"downloaded"}]
    BY <2>1 DEF Touch
  <2>3. \A q \in Pkgs : /\ stamps'[q] \ {"downloaded"} = stamps[q] \ {"downloaded"}
                        /\ q # p => stamps'[q] = stamps[q]
    BY <1>0, <2>2 DEF TypeOK
  <2>4. HonestStamps'
    BY <2>1, <2>3 DEF IInv, HonestStamps, InPlace
  <2>5. InOrder'
    BY <1>0, <2>1, <2>2, <2>3, ReadyFacts DEF IInv, InOrder, TypeOK
  <2>6. FromWholeArchive' /\ OnlyPatchedMixed'
    BY <2>1, <2>3 DEF IInv, FromWholeArchive, OnlyPatchedMixed
  <2>7. QED
    BY <2>4, <2>5, <2>6
<1>2. ASSUME Extract(p)
      PROVE  HonestStamps' /\ InOrder' /\ OnlyPatchedMixed' /\ FromWholeArchive'
  <2>1. /\ Ready(p, "extracted") /\ Touch(p, "extracted") /\ Outdate(p, "extracted")
        /\ archive[p] \in Whole /\ origin' = [origin EXCEPT ![p] = archive[p]]
        /\ UNCHANGED <<output, suspect>>
    BY <1>2 DEF Extract
  <2>2. PICK t \in {"pristine"} \cup {u \in {"mixed"} : tree[p] = "residue" /\ p \in PatchedPkgs} :
          tree' = [tree EXCEPT ![p] = t]
    BY <1>2 DEF Extract
  <2>3. stamps' = [stamps EXCEPT ![p] = @ \cup {"extracted"}]
    BY <2>1 DEF Touch
  <2>4. ASSUME p \notin suspect, NEW u \in stamps[p] PROVE u = "downloaded"
    <3>1. u \in Steps(p) /\ u \notin After(p, "extracted") /\ u # "extracted"
      BY <1>0, <2>1, <2>4, ReadyFacts DEF TypeOK
    <3>2. Rank[u] <= 1
      BY <3>1, StepsFacts, RankFacts DEF After
    <3>3. QED
      BY <3>1, <3>2, StepsFacts, RankFacts DEF AllSteps
  <2>5. p \notin suspect => \A u \in stamps'[p] \ {"downloaded"} : InPlace(p, u)'
    BY <1>0, <2>2, <2>3, <2>4 DEF InPlace, TypeOK
  <2>6. \A q \in Pkgs \ {p} : tree'[q] = tree[q] /\ output'[q] = output[q]
    BY <1>0, <2>1, <2>2 DEF TypeOK
  <2>7. HonestStamps' /\ InOrder'
    BY <2>1, <2>5, <2>6, StampStep
  <2>8. OnlyPatchedMixed'
    BY <1>0, <2>2 DEF IInv, OnlyPatchedMixed, TypeOK
  <2>9. FromWholeArchive'
    BY <1>0, <2>1, <2>3 DEF IInv, FromWholeArchive, TypeOK
  <2>10. QED
    BY <2>7, <2>8, <2>9
<1>3. ASSUME Patch(p)
      PROVE  HonestStamps' /\ InOrder' /\ OnlyPatchedMixed' /\ FromWholeArchive'
  <2>1. /\ Ready(p, "patched") /\ Touch(p, "patched") /\ Outdate(p, "patched")
        /\ tree[p] \in {"pristine", "residue"} \/ p \notin PatchedPkgs
        /\ tree' = [tree EXCEPT ![p] = IF @ = "pristine" THEN "patched" ELSE @]
        /\ UNCHANGED <<output, origin, suspect>>
    BY <1>3 DEF Patch
  <2>2. stamps' = [stamps EXCEPT ![p] = @ \cup {"patched"}]
    BY <2>1 DEF Touch
  <2>3. ASSUME p \notin suspect PROVE tree'[p] = "patched"
    <3>1. "extracted" \in stamps[p]
      BY <2>1, ReadyFacts, OrderFacts
    <3>2. tree[p] \in {"pristine", "mixed", "patched"}
      BY <2>3, <3>1 DEF IInv, HonestStamps, InPlace
    <3>3. tree[p] # "mixed"
      BY <2>1 DEF IInv, OnlyPatchedMixed
    <3>4. QED
      BY <1>0, <2>1, <3>2, <3>3 DEF TypeOK
  <2>4. p \notin suspect => \A u \in stamps'[p] \ {"downloaded"} : InPlace(p, u)'
    BY <1>0, <2>1, <2>2, <2>3 DEF IInv, HonestStamps, InPlace, TypeOK
  <2>5. \A q \in Pkgs \ {p} : tree'[q] = tree[q] /\ output'[q] = output[q]
    BY <1>0, <2>1 DEF TypeOK
  <2>6. HonestStamps' /\ InOrder'
    BY <2>1, <2>4, <2>5, StampStep
  <2>7. OnlyPatchedMixed' /\ FromWholeArchive'
    BY <1>0, <2>1, <2>2 DEF IInv, OnlyPatchedMixed, FromWholeArchive, TypeOK
  <2>8. QED
    BY <2>6, <2>7
<1>4. ASSUME NEW s \in LaterSteps(p), RunStep(p, s)
      PROVE  HonestStamps' /\ InOrder' /\ OnlyPatchedMixed' /\ FromWholeArchive'
  <2>1. /\ Ready(p, s) /\ Touch(p, s) /\ Outdate(p, s)
        /\ output' = [output EXCEPT ![p] = @ \cup {s}]
        /\ UNCHANGED <<tree, origin, suspect>>
    BY <1>4 DEF RunStep
  <2>2. stamps' = [stamps EXCEPT ![p] = @ \cup {s}]
    BY <2>1 DEF Touch
  <2>3. s \notin {"downloaded", "extracted", "patched"}
    BY DEF LaterSteps, InstallSteps
  <2>4. p \notin suspect => \A u \in stamps'[p] \ {"downloaded"} : InPlace(p, u)'
    BY <1>0, <2>1, <2>2, <2>3 DEF IInv, HonestStamps, InPlace, TypeOK
  <2>5. \A q \in Pkgs \ {p} : tree'[q] = tree[q] /\ output'[q] = output[q]
    BY <1>0, <2>1 DEF TypeOK
  <2>6. HonestStamps' /\ InOrder'
    BY <2>1, <2>4, <2>5, StampStep
  <2>7. OnlyPatchedMixed' /\ FromWholeArchive'
    BY <1>0, <2>1, <2>2, <2>3 DEF IInv, OnlyPatchedMixed, FromWholeArchive, TypeOK
  <2>8. QED
    BY <2>6, <2>7
<1>5. UninstalledFirst' /\ WorldStamped'
  <2>1. PICK s : Ready(p, s) /\ Touch(p, s) /\ UNCHANGED <<goal, phase, ran>>
    BY DEF Download, DownloadTorn, Extract, Patch, RunStep
  <2>2. WorldStamped'
    BY <2>1, ReadyFacts DEF WorldStamped
  <2>3. stamps' = [stamps EXCEPT ![p] = @ \cup {s}]
    BY <2>1 DEF Touch
  <2>4. goal.kind = "clean" /\ goal.pkg = p => s \notin InstalledFiles
    BY <2>1, NoReinstall
  <2>5. goal.kind = "clean" => goal.pkg \in Pkgs
    BY <1>0 DEF TypeOK, Goals
  <2>6. UninstalledFirst'
    BY <1>0, <2>1, <2>3, <2>4, <2>5 DEF IInv, UninstalledFirst, TypeOK
  <2>7. QED
    BY <2>2, <2>6
<1>6. QED
  BY <1>1, <1>2, <1>3, <1>4, <1>5

(* A step that stops make before its stamp is there. *)
LEMMA StoppedStepIInv ==
  ASSUME IInv, NEW p \in Pkgs,
         \/ DownloadRefused(p) \/ DownloadBreaks(p)
         \/ ExtractFails(p) \/ ExtractBreaks(p)
         \/ PatchFails(p) \/ PatchBreaks(p)
         \/ \E s \in LaterSteps(p) : BreakStep(p, s)
  PROVE  /\ HonestStamps' /\ InOrder' /\ OnlyPatchedMixed' /\ FromWholeArchive'
         /\ UninstalledFirst' /\ WorldStamped'
<1> USE DEF dlVars, pkgVars, makeVars
<1>0. TypeOK /\ HonestStamps
  BY DEF IInv
<1>1. phase' = "failed" /\ UNCHANGED <<stamps, suspect>>
  BY DEF DownloadRefused, DownloadBreaks, ExtractFails, ExtractBreaks, PatchFails,
         PatchBreaks, BreakStep, Stop
<1>2. UninstalledFirst' /\ WorldStamped'
  BY <1>1 DEF UninstalledFirst, WorldStamped
<1>3. CASE DownloadRefused(p) \/ DownloadBreaks(p)
  <2>1. UNCHANGED <<tree, origin, output, stale>>
    BY <1>3 DEF DownloadRefused, DownloadBreaks
  <2>2. HonestStamps' /\ InOrder'
    BY <1>1, <2>1, UnstampedStep DEF InPlace
  <2>3. QED
    BY <1>1, <1>2, <2>1, <2>2 DEF IInv, OnlyPatchedMixed, FromWholeArchive
<1>4. CASE ExtractFails(p) \/ ExtractBreaks(p)
  <2>1. /\ Ready(p, "extracted") /\ UNCHANGED <<output, stale>>
        /\ origin' = [origin EXCEPT ![p] = archive[p]]
        /\ \E t \in {"partial", "pristine"} :
             tree' = [tree EXCEPT ![p] = IF @ = "residue" THEN @ ELSE t]
    BY <1>4 DEF ExtractFails, ExtractBreaks, Stop
  <2>2. "extracted" \notin stamps[p]
    BY <2>1, ReadyFacts
  <2>3. ASSUME p \notin suspect, NEW u \in stamps[p] PROVE u = "downloaded"
    <3>1. u \in Steps(p) /\ u \notin After(p, "extracted") /\ u # "extracted"
      BY <1>0, <2>1, <2>3, ReadyFacts DEF TypeOK
    <3>2. Rank[u] <= 1
      BY <3>1, StepsFacts, RankFacts DEF After
    <3>3. QED
      BY <3>1, <3>2, StepsFacts, RankFacts DEF AllSteps
  <2>4. \A q \in Pkgs \ {p} : tree'[q] = tree[q] /\ origin'[q] = origin[q]
    BY <1>0, <2>1 DEF TypeOK
  <2>5. HonestStamps' /\ InOrder'
    BY <1>1, <2>1, <2>3, <2>4, UnstampedStep DEF InPlace
  <2>6. tree'[p] = "mixed" => tree[p] = "mixed"
    BY <1>0, <2>1 DEF TypeOK
  <2>7. OnlyPatchedMixed'
    BY <2>4, <2>6 DEF IInv, OnlyPatchedMixed
  <2>8. FromWholeArchive'
    BY <1>1, <2>2, <2>4 DEF IInv, FromWholeArchive
  <2>9. QED
    BY <1>2, <2>5, <2>7, <2>8
<1>5. CASE PatchFails(p) \/ PatchBreaks(p)
  <2>1. /\ Ready(p, "patched") /\ UNCHANGED <<origin, output, stale>>
        /\ p \in PatchedPkgs
        /\ \E t \in {"pristine", "mixed", "patched"} :
             tree' = [tree EXCEPT ![p] = IF @ = "residue" THEN @ ELSE t]
    BY <1>5 DEF PatchFails, PatchBreaks, Stop
  <2>2. ASSUME p \notin suspect, NEW u \in stamps[p] PROVE u \in {"downloaded", "extracted"}
    <3>1. u \in Steps(p) /\ u \notin After(p, "patched") /\ u # "patched"
      BY <1>0, <2>1, <2>2, ReadyFacts DEF TypeOK
    <3>2. Rank[u] <= 2
      BY <3>1, StepsFacts, RankFacts DEF After
    <3>3. QED
      BY <3>1, <3>2, StepsFacts, RankFacts DEF AllSteps
  <2>3. \A q \in Pkgs \ {p} : tree'[q] = tree[q]
    BY <1>0, <2>1 DEF TypeOK
  <2>4. tree[p] # "residue" => tree'[p] \in {"pristine", "mixed", "patched"}
    BY <1>0, <2>1 DEF TypeOK
  <2>5. HonestStamps' /\ InOrder'
    <3>1. \A q \in Pkgs \ suspect' : \A u \in stamps[q] \ {"downloaded"} :
            InPlace(q, u) => InPlace(q, u)'
      BY <1>1, <2>1, <2>2, <2>3, <2>4 DEF InPlace
    <3>2. QED
      BY <1>1, <2>1, <3>1, UnstampedStep
  <2>6. OnlyPatchedMixed' /\ FromWholeArchive'
    BY <1>1, <2>1, <2>3 DEF IInv, OnlyPatchedMixed, FromWholeArchive
  <2>7. QED
    BY <1>2, <2>5, <2>6
<1>6. ASSUME NEW s \in LaterSteps(p), BreakStep(p, s)
      PROVE  HonestStamps' /\ InOrder' /\ OnlyPatchedMixed' /\ FromWholeArchive'
  <2>1. /\ Ready(p, s) /\ Outdate(p, s) /\ UNCHANGED <<tree, origin>>
        /\ \E O \in {output[p] \cup {s}, output[p] \ {s}} : output' = [output EXCEPT ![p] = O]
    BY <1>6 DEF BreakStep
  <2>2. /\ \A q \in Pkgs \ {p} : output'[q] = output[q] /\ stale'[q] = stale[q]
        /\ output[p] \ {s} \subseteq output'[p]
        /\ stale'[p] \subseteq stale[p] \cup After(p, s)
    BY <1>0, <2>1 DEF TypeOK, Outdate
  <2>3. s \notin stamps[p] /\ (p \notin suspect => After(p, s) \cap stamps[p] = {})
    BY <2>1, ReadyFacts
  <2>4. \A q \in Pkgs \ suspect' : \A u \in stamps[q] \ {"downloaded"} :
          InPlace(q, u) /\ u \notin stale[q] => InPlace(q, u)' /\ u \notin stale'[q]
    BY <1>1, <2>1, <2>2, <2>3 DEF InPlace
  <2>5. HonestStamps' /\ InOrder'
    BY <1>1, <2>4, UnstampedStep
  <2>6. OnlyPatchedMixed' /\ FromWholeArchive'
    BY <1>1, <2>1 DEF IInv, OnlyPatchedMixed, FromWholeArchive
  <2>7. QED
    BY <2>5, <2>6
<1>7. QED
  BY <1>2, <1>3, <1>4, <1>5, <1>6

(* p-uninstall, p-clean and p-dirclean that run to their end. *)
LEMMA RemovalIInv ==
  ASSUME IInv, NEW p \in Pkgs, Uninstall(p) \/ Clean(p) \/ DirClean(p)
  PROVE  /\ HonestStamps' /\ InOrder' /\ OnlyPatchedMixed' /\ FromWholeArchive'
         /\ UninstalledFirst' /\ WorldStamped'
<1> USE DEF dlVars, pkgVars, makeVars
<1>0. TypeOK /\ HonestStamps /\ InOrder
  BY DEF IInv
<1>1. CASE Uninstall(p)
  <2>1. /\ UNCHANGED <<tree, origin, stale, suspect, goal, phase>> /\ phase = "running"
        /\ output' = [output EXCEPT ![p] = @ \ InstalledFiles]
        /\ stamps' = [stamps EXCEPT ![p] = @ \ InstalledFiles]
        /\ goal.pkg = p
    BY <1>1 DEF Uninstall, AtUninstall
  <2>2. \A q \in Pkgs : stamps'[q] \subseteq stamps[q] /\ (q # p => stamps'[q] = stamps[q])
    BY <1>0, <2>1 DEF TypeOK
  <2>3. HonestStamps'
    <3> SUFFICES ASSUME NEW q \in Pkgs \ suspect, NEW t \in stamps'[q] \ {"downloaded"}
                 PROVE  InPlace(q, t)' /\ t \notin stale'[q]
      BY <2>1 DEF HonestStamps
    <3>1. InPlace(q, t) /\ t \notin stale[q]
      BY <1>0, <2>2 DEF HonestStamps
    <3>2. q = p => t \notin InstalledFiles
      BY <1>0, <2>1 DEF TypeOK
    <3>3. t \in output[q] => t \in output'[q]
      BY <1>0, <2>1, <3>2 DEF TypeOK
    <3>4. QED
      BY <2>1, <3>1, <3>3 DEF InPlace
  <2>4. InOrder'
    <3> SUFFICES ASSUME NEW q \in Pkgs \ suspect, NEW t \in stamps'[q]
                 PROVE  Before(q, t) \subseteq stamps'[q]
      BY <2>1 DEF InOrder
    <3>1. Before(q, t) \subseteq stamps[q] /\ t \in Steps(q)
      BY <1>0, <2>2 DEF InOrder, TypeOK
    <3>2. Before(q, t) \cap InstalledFiles = {}
      BY <3>1, StepsFacts, RankFacts DEF Before, InstalledFiles
    <3>3. QED
      BY <1>0, <2>1, <3>1, <3>2 DEF TypeOK
  <2>5. OnlyPatchedMixed' /\ FromWholeArchive' /\ WorldStamped'
    BY <2>1, <2>2 DEF IInv, OnlyPatchedMixed, FromWholeArchive, WorldStamped
  <2>6. UninstalledFirst'
    BY <1>0, <2>1 DEF UninstalledFirst, TypeOK
  <2>7. QED
    BY <2>3, <2>4, <2>5, <2>6
<1>2. CASE Clean(p)
  <2>1. /\ UNCHANGED <<tree, origin, stale, goal, phase>> /\ phase = "running"
        /\ output' = [output EXCEPT ![p] = @ \ {"built"}]
        /\ stamps' = [stamps EXCEPT ![p] = @ \ {"built"}]
        /\ suspect' = IF p \in HostPkgs THEN suspect \cup {p} ELSE suspect
        /\ goal.kind = "clean" /\ goal.pkg = p /\ "uninstalled" \in ran
    BY <1>2 DEF Clean, AtClean
  <2>2. \A q \in Pkgs : stamps'[q] \subseteq stamps[q] /\ (q # p => stamps'[q] = stamps[q])
    BY <1>0, <2>1 DEF TypeOK
  <2>3. HonestStamps'
    <3> SUFFICES ASSUME NEW q \in Pkgs \ suspect', NEW t \in stamps'[q] \ {"downloaded"}
                 PROVE  InPlace(q, t)' /\ t \notin stale'[q]
      BY DEF HonestStamps
    <3>0. q \notin suspect
      BY <2>1
    <3>1. InPlace(q, t) /\ t \notin stale[q]
      BY <1>0, <2>2, <3>0 DEF HonestStamps
    <3>2. q = p => t # "built"
      BY <1>0, <2>1 DEF TypeOK
    <3>3. t \in output[q] => t \in output'[q]
      BY <1>0, <2>1, <3>2 DEF TypeOK
    <3>4. QED
      BY <2>1, <3>1, <3>3 DEF InPlace
  <2>4. p \notin HostPkgs => stamps[p] \cap InstallSteps(p) = {}
    BY <2>1 DEF IInv, UninstalledFirst, InstalledFiles, InstallSteps
  <2>5. InOrder'
    <3> SUFFICES ASSUME NEW q \in Pkgs \ suspect', NEW t \in stamps'[q]
                 PROVE  Before(q, t) \subseteq stamps'[q]
      BY DEF InOrder
    <3>1. Before(q, t) \subseteq stamps[q] /\ t \in Steps(q)
      BY <1>0, <2>1, <2>2 DEF InOrder, TypeOK
    <3>2. CASE q # p
      BY <2>2, <3>1, <3>2
    <3>3. CASE q = p
      <4>1. t \notin InstallSteps(p) /\ t # "built"
        BY <1>0, <2>1, <2>2, <2>4, <3>3 DEF TypeOK
      <4>2. Rank[t] <= 3
        BY <3>1, <3>3, <4>1, RankFacts DEF Steps
      <4>3. "built" \notin Before(p, t)
        BY <3>1, <3>3, <4>2, StepsFacts, RankFacts DEF Before
      <4>4. QED
        BY <1>0, <2>1, <3>1, <3>3, <4>3 DEF TypeOK
    <3>4. QED
      BY <3>2, <3>3
  <2>6. OnlyPatchedMixed' /\ FromWholeArchive' /\ WorldStamped'
    BY <2>1, <2>2 DEF IInv, OnlyPatchedMixed, FromWholeArchive, WorldStamped
  <2>7. UninstalledFirst'
    BY <2>1, <2>2 DEF IInv, UninstalledFirst
  <2>8. QED
    BY <2>3, <2>5, <2>6, <2>7
<1>3. CASE DirClean(p)
  <2>1. /\ UNCHANGED <<stale, goal, phase>> /\ phase = "running" /\ goal.kind = "dirclean"
        /\ tree' = [tree EXCEPT ![p] = "none"]
        /\ origin' = [origin EXCEPT ![p] = "absent"]
        /\ output' = [output EXCEPT ![p] = @ \cap InstallSteps(p)]
        /\ stamps' = [stamps EXCEPT ![p] = {}]
        /\ suspect' = suspect \ {p}
    BY <1>3 DEF DirClean, AtDirClean
  <2>2. stamps'[p] = {}
    BY <1>0, <2>1 DEF TypeOK
  <2>3. \A q \in Pkgs \ {p} : /\ stamps'[q] = stamps[q] /\ tree'[q] = tree[q]
                              /\ origin'[q] = origin[q] /\ output'[q] = output[q]
    BY <1>0, <2>1 DEF TypeOK
  <2>4. HonestStamps' /\ InOrder' /\ FromWholeArchive'
    BY <1>0, <2>1, <2>2, <2>3 DEF IInv, HonestStamps, InOrder, FromWholeArchive, InPlace
  <2>5. OnlyPatchedMixed'
    BY <1>0, <2>1, <2>3 DEF IInv, OnlyPatchedMixed, TypeOK
  <2>6. UninstalledFirst' /\ WorldStamped'
    BY <2>1 DEF UninstalledFirst, WorldStamped
  <2>7. QED
    BY <2>4, <2>5, <2>6
<1>4. QED
  BY <1>1, <1>2, <1>3

(* Removals that are interrupted, and the user's own: p becomes suspect. *)
LEMMA SuspectStepIInv ==
  ASSUME IInv, NEW p \in Pkgs,
         \/ UninstallBreaks(p) \/ CleanBreaks(p) \/ DirCleanBreaks(p)
         \/ \E s \in {"configured", "built"} : RemoveStamp(p, s)
  PROVE  /\ HonestStamps' /\ InOrder' /\ OnlyPatchedMixed' /\ FromWholeArchive'
         /\ UninstalledFirst' /\ WorldStamped'
<1> USE DEF dlVars, pkgVars, makeVars
<1>0. TypeOK
  BY DEF IInv
<1>1. /\ suspect' = suspect \cup {p} /\ UNCHANGED <<origin, stale>>
      /\ phase' \in {"failed", "none"}
      /\ \A q \in Pkgs \ {p} : /\ stamps'[q] = stamps[q] /\ tree'[q] = tree[q]
                               /\ output'[q] = output[q]
      /\ tree'[p] = "mixed" => tree[p] = "mixed"
  <2>1. CASE UninstallBreaks(p)
    BY <1>0, <2>1 DEF UninstallBreaks, Stop, TypeOK
  <2>2. CASE CleanBreaks(p)
    BY <1>0, <2>2 DEF CleanBreaks, Stop, TypeOK
  <2>3. CASE DirCleanBreaks(p)
    BY <1>0, <2>3 DEF DirCleanBreaks, Stop, TypeOK
  <2>4. CASE \E s \in {"configured", "built"} : RemoveStamp(p, s)
    BY <1>0, <2>4 DEF RemoveStamp, TypeOK
  <2>5. QED
    BY <2>1, <2>2, <2>3, <2>4
<1>2. HonestStamps' /\ InOrder'
  BY <1>1, UnstampedStep DEF InPlace
<1>3. OnlyPatchedMixed' /\ FromWholeArchive'
  BY <1>1 DEF IInv, OnlyPatchedMixed, FromWholeArchive
<1>4. UninstalledFirst' /\ WorldStamped'
  BY <1>1 DEF UninstalledFirst, WorldStamped
<1>5. QED
  BY <1>2, <1>3, <1>4

(* Steps that change no package. *)
LEMMA MakeStepIInv ==
  ASSUME IInv,
         \/ Finish \/ Interrupt
         \/ \E p \in Pkgs : RemoveDownload(p)
         \/ \E g \in Goals : StartMake(g)
         \/ UNCHANGED vars
  PROVE  /\ HonestStamps' /\ InOrder' /\ OnlyPatchedMixed' /\ FromWholeArchive'
         /\ UninstalledFirst' /\ WorldStamped'
<1> USE DEF dlVars, pkgVars, makeVars
<1>1. UNCHANGED <<tree, origin, output, stamps, stale, suspect>>
  BY DEF Finish, Interrupt, RemoveDownload, StartMake, vars
<1>2. HonestStamps' /\ InOrder'
  BY <1>1, UnstampedStep DEF InPlace
<1>3. OnlyPatchedMixed' /\ FromWholeArchive'
  BY <1>1 DEF IInv, OnlyPatchedMixed, FromWholeArchive
<1>4. UninstalledFirst'
  BY <1>1 DEF IInv, UninstalledFirst, Finish, Interrupt, Stop, RemoveDownload, StartMake, vars
<1>5. WorldStamped'
  <2>1. CASE Finish
    BY <1>1, <2>1 DEF Finish, Achieved, WorldStamped, Complete
  <2>2. CASE ~Finish
    BY <1>1, <2>2 DEF IInv, WorldStamped, Complete, Interrupt, Stop, RemoveDownload,
                      StartMake, vars
  <2>3. QED
    BY <2>1, <2>2
<1>6. QED
  BY <1>2, <1>3, <1>4, <1>5

LEMMA NextIInv == IInv /\ [Next]_vars => IInv'
<1> SUFFICES ASSUME IInv, [Next]_vars PROVE IInv'
  OBVIOUS
<1>1. TypeOK'
  BY NextTypeOK DEF IInv
<1>2. ASSUME NEW p \in Pkgs, StepForward(p) \/ StepBreaks(p) \/ User(p)
      PROVE  /\ HonestStamps' /\ InOrder' /\ OnlyPatchedMixed' /\ FromWholeArchive'
             /\ UninstalledFirst' /\ WorldStamped'
  BY <1>2, StampedStepIInv, StoppedStepIInv, RemovalIInv, SuspectStepIInv, MakeStepIInv
     DEF StepForward, StepBreaks, User
<1>3. QED
  BY <1>1, <1>2, MakeStepIInv DEF Next, Progress, IInv

LEMMA Invariance == Spec => []IInv
BY InitIInv, NextIInv, PTL DEF Spec

-----------------------------------------------------------------------------
(* Along every run of make, however often it breaks and starts again, the  *)
(* stamps of a package that no removal has torn tell the truth.            *)
THEOREM StampsHonest == Spec => []HonestStamps
<1>1. IInv => HonestStamps
  BY DEF IInv
<1>2. QED
  BY <1>1, Invariance, PTL

(* A make world that ends well has installed every package of the image    *)
(* from a whole archive, with nothing older than what it was made from.    *)
THEOREM WorldComplete == Spec => []ImageComplete
<1>1. IInv => ImageComplete
  <2> SUFFICES ASSUME IInv, phase = "ok", goal = World, NEW p \in WorldPkgs \ suspect
               PROVE  origin[p] \in Whole /\ InstallSteps(p) \subseteq output[p] \ stale[p]
    BY DEF ImageComplete
  <2>0. p \in Pkgs
    BY PackagesAssumption, NeededArePkgs DEF WorldPkgs
  <2>1. Steps(p) \subseteq stamps[p]
    BY DEF IInv, WorldStamped, Complete
  <2>2. origin[p] \in Whole
    BY <2>0, <2>1, StepsFacts DEF IInv, FromWholeArchive
  <2>3. ASSUME NEW s \in InstallSteps(p) PROVE s \in output[p] \ stale[p]
    BY <2>0, <2>1, StepsFacts DEF IInv, HonestStamps, InPlace, InstallSteps
  <2>4. QED
    BY <2>2, <2>3
<1>2. QED
  BY <1>1, Invariance, PTL

(* No package is configured or compiled in a half patched tree, or while   *)
(* something it needs is missing or out of date.                           *)
THEOREM CompileIsSound == Spec => CompileSound
<1>1. ASSUME IInv, [Next]_vars, NEW p \in Pkgs, NEW s \in {"configured", "built"},
             s \in stamps'[p] \ stamps[p], ({p} \cup Needed(p)) \cap suspect = {}
      PROVE  /\ tree[p] = "patched"
             /\ \A q \in Needed(p) : InstallSteps(q) \subseteq output[q] \ stale[q]
  <2>0. TypeOK
    BY <1>1 DEF IInv
  <2>1. Ready(p, s)
    <3>1. PICK q \in Pkgs, t \in AllSteps : Ready(q, t) /\ Touch(q, t)
      <4>1. \E q \in Pkgs : StepForward(q) \/ StepBreaks(q) \/ User(q)
        BY <1>1 DEF Next, Progress, Finish, Interrupt, StartMake, vars, pkgVars
      <4>2. PICK q \in Pkgs : StepForward(q) \/ StepBreaks(q) \/ User(q)
        BY <4>1
      <4>3. ~ UNCHANGED stamps
        BY <1>1
      <4>4. ~(Uninstall(q) \/ Clean(q) \/ DirClean(q) \/ UninstallBreaks(q) \/ CleanBreaks(q)
                \/ DirCleanBreaks(q) \/ \E u \in {"configured", "built"} : RemoveStamp(q, u))
        BY <1>1, <2>0 DEF Uninstall, Clean, DirClean, UninstallBreaks, CleanBreaks,
           DirCleanBreaks, RemoveStamp, TypeOK, pkgVars
      <4>5. ~(DownloadRefused(q) \/ ExtractFails(q) \/ PatchFails(q) \/ DownloadBreaks(q)
                \/ ExtractBreaks(q) \/ PatchBreaks(q) \/ RemoveDownload(q)
                \/ \E u \in LaterSteps(q) : BreakStep(q, u))
        BY <4>3 DEF DownloadRefused, ExtractFails, PatchFails, DownloadBreaks, ExtractBreaks,
           PatchBreaks, RemoveDownload, BreakStep, pkgVars
      <4>6. \/ Download(q) \/ DownloadTorn(q) \/ Extract(q) \/ Patch(q)
            \/ \E u \in LaterSteps(q) : RunStep(q, u)
        BY <4>2, <4>4, <4>5 DEF StepForward, StepBreaks, User
      <4>7. LaterSteps(q) \subseteq AllSteps
        BY StepsFacts
      <4>8. QED
        BY <4>6, <4>7 DEF Download, DownloadTorn, Extract, Patch, RunStep, AllSteps
    <3>2. stamps' = [stamps EXCEPT ![q] = @ \cup {t}]
      BY <3>1 DEF Touch
    <3>3. q = p /\ t = s
      BY <1>1, <2>0, <3>2 DEF TypeOK
    <3>4. QED
      BY <3>1, <3>3
  <2>2. "patched" \in stamps[p]
    BY <2>1, OrderFacts, StepsFacts DEF Ready, LaterSteps
  <2>3. tree[p] = "patched"
    BY <1>1, <2>2 DEF IInv, HonestStamps, InPlace
  <2>4. ASSUME NEW q \in Needed(p), NEW u \in InstallSteps(q)
        PROVE  u \in output[q] \ stale[q]
    <3>1. q \in Pkgs \ suspect
      BY <1>1, NeededArePkgs
    <3>2. u \in stamps[q]
      BY <1>1, <2>1, <3>1, StepsFacts DEF Ready, Complete
    <3>3. QED
      BY <1>1, <3>1, <3>2 DEF IInv, HonestStamps, InPlace, InstallSteps
  <2>5. QED
    BY <2>3, <2>4
<1>2. IInv /\ [Next]_vars =>
        [\A p \in Pkgs : \A s \in {"configured", "built"} :
           /\ s \in stamps'[p] \ stamps[p]
           /\ ({p} \cup Needed(p)) \cap suspect = {}
           => /\ tree[p] = "patched"
              /\ \A q \in Needed(p) : InstallSteps(q) \subseteq output[q] \ stale[q]]_vars
  BY <1>1
<1>3. QED
  BY <1>2, Invariance, PTL DEF Spec, CompileSound

=============================================================================
