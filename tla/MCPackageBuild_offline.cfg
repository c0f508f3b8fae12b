\* One broken transfer during make source.
SPECIFICATION Spec
CONSTANTS
  app = app
  lib = lib
  tool = tool
  Pkgs <- MCPkgs
  HostPkgs <- MCHostPkgs
  StagingPkgs <- MCStagingPkgs
  TargetPkgs <- MCTargetPkgs
  PatchedPkgs <- MCPatchedPkgs
  GitPkgs <- MCGitPkgs
  Deps <- MCDeps
  Selected <- MCSelected
  HasPrimary = FALSE
  HasBackup = TRUE
  Mirrored <- MCMirrored
  MaxFaults = 1
  MaxOps = 1
INVARIANTS
  OfflineSources
