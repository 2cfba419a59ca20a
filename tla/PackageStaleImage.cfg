SPECIFICATION Spec
CONSTANTS
  app = app
  lib = lib
  tool = tool
  NoPkg = NoPkg
  Pkgs <- TwoPkgs
  Deps <- TwoDeps
  Places <- TwoPlaces
  Host = {}
  Override = {lib}
  Patched = {app}
  Selected = {app}
  Ops = {"all", "clean"}
  StopIn = {}
  UserRemoves = {}
  MaxEdits = 1
  MaxFailures = 0
INVARIANT NoStaleInstall
