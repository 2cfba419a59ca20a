----------------------------- MODULE MCPackage -----------------------------
(* Small instances of Package for TLC.                                     *)
EXTENDS Package

CONSTANTS app, lib, tool

NoPlaces == {}
\* app (patched, with an image) needs lib and the host tool; lib comes from an
\* override directory and needs tool as well.
AppPkgs   == {app, lib, tool}
AppDeps   == [p \in AppPkgs |-> CASE p = app -> {lib, tool} [] p = lib -> {tool}
                                  [] OTHER -> {}]
AppPlaces == [p \in AppPkgs |-> CASE p = app -> {"target_installed", "images_installed"}
                                  [] p = lib -> {"staging_installed", "target_installed"}
                                  [] OTHER -> NoPlaces]

\* one library from an override directory, one application on top of it
TwoPkgs   == {app, lib}
TwoDeps   == [p \in TwoPkgs |-> IF p = app THEN {lib} ELSE {}]
TwoPlaces == [p \in TwoPkgs |-> IF p = app THEN {"target_installed", "images_installed"}
                                ELSE {"staging_installed"}]
=============================================================================
