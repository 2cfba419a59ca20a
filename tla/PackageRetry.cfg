SPECIFICATION Spec
CONSTANTS
  app = app
  lib = lib
  tool = tool
  NoPkg = NoPkg
  Pkgs <- AppPkgs
  Deps <- AppDeps
  Places <- AppPlaces
  Host = {tool}
  Override = {lib}
  Patched = {app}
  Selected = {app, lib}
  Ops = {"all", "source", "configured", "depends"}
  StopIn = {}
  UserRemoves = {"configured"}
  MaxEdits = 0
  MaxFailures = 2
INVARIANTS DepsInstalledFirst RetrySucceeds OfflineReady
