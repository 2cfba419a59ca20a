SPECIFICATION Spec
CONSTANTS
  app = app
  lib = lib
  tool = tool
  hostapp = hostapp
  appTar = appTar
  appPatch = appPatch
  libTar = libTar
  toolTar = toolTar
  NoPkg = NoPkg
  NoFile = NoFile
  Pkgs <- MCPkgs
  Files <- MCFiles
  Source <- MCSource
  PatchFile <- MCPatchFile
  Method <- MCMethod
  Enabled <- AllSites
  Serves <- MCServes
  BadVersion = {}
  CutLeaves = {"none", "part"}
  Modes = {"DOWNLOAD"}
  MaxFailures = 1
INVARIANTS NextSiteTried
