SPECIFICATION FairSpec
CONSTANTS
  app = app
  lib = lib
  tool = tool
  NoPkg = NoPkg
  Pkgs <- TwoPkgs
  Deps <- TwoDeps
  Places <- TwoPlaces
  Host = {}
  Override = {lib}
  Patched = {app}
  Selected = {app}
  Ops = {"all", "clean", "dirclean", "make_clean"}
  StopIn = {"clear", "clean", "dirclean", "make_clean"}
  UserRemoves = {}
  MaxEdits = 0
  MaxFailures = 1
PROPERTY EventuallyInstalled
