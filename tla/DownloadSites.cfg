SPECIFICATION FairSpec
CONSTANTS
  app = app
  lib = lib
  tool = tool
  hostapp = hostapp
  appTar = appTar
  appPatch = appPatch
  libTar = libTar
  toolTar = toolTar
  NoPkg = NoPkg
  NoFile = NoFile
  Pkgs <- MCPkgs
  Files <- MCFiles
  Source <- MCSource
  PatchFile <- MCPatchFile
  Method <- MCMethod
  Enabled <- NoPrimary
  Serves <- ServesNoFirst
  BadVersion = {tool}
  CutLeaves = {"none"}
  Modes = {"DOWNLOAD", "SOURCE_CHECK"}
  MaxFailures = 3
INVARIANTS TypeOK StampedHasFiles NextSiteTried
PROPERTIES NeverRefetched DeliversAsPromised EventuallyWhole
