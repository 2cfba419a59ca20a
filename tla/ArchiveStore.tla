---------------------------- MODULE ArchiveStore ----------------------------
(***************************************************************************)
(* What the package infrastructure relies on when it unpacks an archive:   *)
(* DL_DIR only ever gains archives, and .stamp_downloaded appears only     *)
(* once the archive is there.  Download implements it with sites that fail *)
(* and makes that are killed; Package's Download is a delivery and a stamp *)
(* in one step.                                                            *)
(***************************************************************************)
CONSTANTS Pkgs

VARIABLES
  dl,       \* the packages whose complete archive is in DL_DIR
  stamped   \* the packages with a .stamp_downloaded

Init == dl = {} /\ stamped = {}

\* Archives arrive, and packages are stamped once they have theirs.
Deliver ==
  /\ dl \subseteq dl' /\ dl' \subseteq Pkgs
  /\ stamped \subseteq stamped' /\ stamped' \subseteq stamped \cup dl'

\* Build directories go away, or stamps do.
Forget ==
  /\ dl' = dl
  /\ stamped' \subseteq stamped

Next == Deliver \/ Forget
Spec == Init /\ [][Next]_<<dl, stamped>>

StampedIsThere == stamped \subseteq dl
=============================================================================
