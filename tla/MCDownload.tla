----------------------------- MODULE MCDownload -----------------------------
(* Small instances of Download for TLC.                                    *)
EXTENDS Download

CONSTANTS app, lib, tool, hostapp, appTar, appPatch, libTar, toolTar

\* app is fetched by wget and has a patch, and its host variant shares its archive;
\* lib and tool come from repositories.
MCPkgs      == {app, hostapp, lib, tool}
MCFiles     == {appTar, appPatch, libTar, toolTar}
MCSource    == [p \in MCPkgs |-> CASE p = lib -> libTar [] p = tool -> toolTar [] OTHER -> appTar]
MCPatchFile == [p \in MCPkgs |-> IF p = app THEN appPatch ELSE NoFile]
MCMethod    == [p \in MCPkgs |-> CASE p = lib -> "svn" [] p = tool -> "git" [] OTHER -> "wget"]

\* The primary site has the archive of app, its own site only the patch any
\* more; the backup site has all archives.
AllSites == {"primary", "own", "backup"}
MCServes == [s \in AllSites |-> CASE s = "primary" -> {appTar} [] s = "own" -> {appPatch, libTar, toolTar}
                                  [] OTHER -> {appTar, libTar, toolTar}]
\* no BR2_PRIMARY_SITE
NoPrimary     == {"own", "backup"}
ServesNoFirst == [s \in NoPrimary |-> MCServes[s]]
=============================================================================
