--------------------------- MODULE MCPackageBuild ---------------------------
(* A configuration with one of each kind: app, fetched with git, needs lib *)
(* and the host package tool; lib has patches and needs tool too.          *)
EXTENDS PackageBuild

CONSTANTS app, lib, tool

MCPkgs        == {app, lib, tool}
MCHostPkgs    == {tool}
MCStagingPkgs == {lib}
MCTargetPkgs  == {app, lib}
MCPatchedPkgs == {lib}
MCGitPkgs     == {app}
MCDeps        == [p \in MCPkgs |-> IF p = app THEN {lib} ELSE IF p = lib THEN {tool} ELSE {}]
MCMirrored    == {lib, tool}
MCSelected    == {app, lib}
=============================================================================
