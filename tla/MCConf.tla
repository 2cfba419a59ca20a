------------------------------- MODULE MCConf -------------------------------
(* Small Kconfig trees for TLC.                                            *)
EXTENDS ConfSession

CONSTANTS arch, tool, lib, static, shared, prefix, ch, empty, word

Always == {{}}
Is(s, x) == [sym |-> s, is |-> x]
If(s) == {{Is(s, "y")}}

\* tool (default y) selects lib; lib can only be set where arch is n, and has
\* below it the text prefix and one of the two values of the choice of arch.
MCSyms     == {arch, tool, lib, static, shared, prefix}
MCStrs     == {prefix}
MCInChoice == [s \in MCSyms |-> IF s \in {static, shared} THEN ch ELSE None]
MCPlace    == [s \in MCSyms |-> CASE s = arch -> 1 [] s = tool -> 2 [] s = lib -> 3
                                  [] s = prefix -> 4 [] s = static -> 5 [] OTHER -> 6]
MCUnder    == [s \in MCSyms |-> IF s = prefix THEN lib ELSE None]
MCPrompt   == [s \in MCSyms \cup {ch} |->
                 CASE s = lib -> {{Is(arch, "n")}} [] s = ch -> If(arch)
                   [] s \in {prefix, shared} -> If(lib) [] OTHER -> Always]
MCSelectedBy == [s \in MCSyms |-> IF s = lib THEN If(tool) ELSE {}]
MCDefaults == [s \in MCSyms |->
                 CASE s = tool -> <<[when |-> Always, val |-> Always]>>
                   [] s = prefix -> <<[when |-> If(tool), val |-> word]>>
                   [] OTHER -> <<>>]
MCChoiceDefaults == [c \in {ch} |-> <<[when |-> If(tool), val |-> shared]>>]

\* A .config of an earlier tree: any lines about the values of the choice and
\* the text, while arch and tool are set.
OldFiles == {NoFile} \cup
  {f \in Files : f[arch] = "y" /\ f[tool] # None /\ f[lib] = f[tool]}
\* another configuration, with lines of hidden symbols
MCOther == {[s \in MCSyms |->
  CASE s \in {arch, lib, static} -> "y" [] s = shared -> "n" [] OTHER -> None]}
\* no .config yet
FirstTime == {NoFile}

\* prefix has another default where it is hidden than where it is seen.
TwoDefaults == [MCDefaults EXCEPT ![prefix] =
                  <<[when |-> {{Is(lib, "n")}}, val |-> word]>>]
=============================================================================
