\* The defaults of Config.in: a backup site and no primary site.
SPECIFICATION FairSpec
CONSTANTS
  app = app
  lib = lib
  tool = tool
  Pkgs <- MCPkgs
  HostPkgs <- MCHostPkgs
  StagingPkgs <- MCStagingPkgs
  TargetPkgs <- MCTargetPkgs
  PatchedPkgs <- MCPatchedPkgs
  GitPkgs <- MCGitPkgs
  Deps <- MCDeps
  Selected <- MCSelected
  HasPrimary = FALSE
  HasBackup = TRUE
  Mirrored <- MCMirrored
  MaxFaults = 1
  MaxOps = 2
INVARIANTS
  TypeOK
  HonestStamps
  ImageComplete
PROPERTIES
  CompileSound
  SettlesOrWedges
