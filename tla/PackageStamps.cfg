SPECIFICATION Spec
CONSTANTS
  app = app
  lib = lib
  tool = tool
  NoPkg = NoPkg
  Pkgs <- TwoPkgs
  Deps <- TwoDeps
  Places <- TwoPlaces
  Host = {}
  Override = {lib}
  Patched = {app}
  Selected = {app}
  Ops = {"all", "reconfigure", "clean", "dirclean"}
  StopIn = {"clear", "clean"}
  UserRemoves = {}
  MaxEdits = 1
  MaxFailures = 2
INVARIANTS TypeOK StampsInOrder InstallStampTrue FromScratch RebuildIsFresh
