----------------------------- MODULE MCAutoconf -----------------------------
(* Constants of Autoconf for TLC: a tristate that may be hidden, and a text *)
(* that has a line whenever it is seen.                                     *)
EXTENDS Autoconf

CONSTANTS tri, str, one, two

SomeConfigs ==
  {[s \in {tri, str} |-> IF s = tri THEN b ELSE x] :
     b \in {"y", "n", None}, x \in {one, two, None}}
=============================================================================
