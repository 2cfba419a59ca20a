--------------------------- MODULE AutoconfProofs ---------------------------
(***************************************************************************)
(* Proofs about Autoconf, for every set of symbols and of .configs: the    *)
(* files are of one .config whenever make takes auto.conf to be up to      *)
(* date, and no change of a symbol is missed.  Only the type invariant,    *)
(* InStep, RunInv and ObjectsInv together are inductive: what Compile      *)
(* reads of autoconf.h is a value only because the files are in step.      *)
(***************************************************************************)
EXTENDS Autoconf, TLAPS

IInv == TypeOK /\ InStep /\ RunInv /\ ObjectsInv

-----------------------------------------------------------------------------
(* What the operators on files return.                                     *)

\* A .config gives a line to each symbol that is not n, of a value of its type.
LEMMA LinesOfType ==
  ASSUME NEW c \in Configs
  PROVE  LinesOf(c) \in Lines
<1>1. c \in [Syms -> Values] /\ \A s \in Syms : c[s] \in ValuesOf(s)
  BY ConfigsAssumption
<1>2. None # "n"
  BY SymsAssumption DEF Bools
<1>3. ASSUME NEW s \in Syms
      PROVE  LinesOf(c)[s] \in ValuesOf(s) \ {"n"} /\ LinesOf(c)[s] \in Values
  <2>1. CASE c[s] = "n"
    BY <1>2, <2>1 DEF LinesOf, ValuesOf, Values
  <2>2. CASE c[s] # "n"
    BY <1>1, <2>2 DEF LinesOf, ValuesOf, Values
  <2> QED  BY <2>1, <2>2
<1>4. LinesOf(c) \in [Syms -> Values]
  <2>1. LinesOf(c) = [s \in Syms |-> LinesOf(c)[s]]
    BY DEF LinesOf
  <2> QED  BY <1>3, <2>1
<1> QED  BY <1>3, <1>4 DEF Lines

LEMMA NoFileIsNoLines == NoFile \notin Lines
  BY SymsAssumption DEF Lines

LEMMA NoFileIsNoConfig == NoFile \notin Saved
  BY SymsAssumption DEF Saved

\* The old value of a symbol is one that a line can give, or None.
LEMMA OldValueType ==
  ASSUME TypeOK, NEW s \in Syms
  PROVE  OldValue(s) \in ValuesOf(s) \ {"n"}
<1>1. None # "n"
  BY SymsAssumption DEF Bools
<1> QED  BY <1>1 DEF TypeOK, OldValue, Lines, ValuesOf

\* conf_split_config touches the header of a symbol exactly if its line in
\* auto.conf will be another one, or appear, or go.
LEMMA TouchesWhatChanges ==
  ASSUME TypeOK, NEW c \in Configs, NEW s \in Syms
  PROVE  NeedsTouch(s, c) <=> LinesOf(c)[s] # OldValue(s)
<1>1. c[s] \in ValuesOf(s)
  BY ConfigsAssumption
<1>2. OldValue(s) # "n"
  BY OldValueType
<1>3. None # "n"
  BY SymsAssumption DEF Bools
<1>4. LinesOf(c)[s] = IF c[s] = "n" THEN None ELSE c[s]
  BY DEF LinesOf
<1>5. CASE c[s] = None
  BY <1>3, <1>4, <1>5 DEF NeedsTouch
<1>6. CASE c[s] # None /\ OldValue(s) # None
  BY <1>2, <1>4, <1>6 DEF NeedsTouch
<1>7. CASE c[s] # None /\ OldValue(s) = None
  <2>1. s \in Strs => c[s] # "n"
    BY <1>1, <1>7, SymsAssumption DEF ValuesOf, Bools
  <2> QED  BY <1>4, <1>7, <2>1 DEF NeedsTouch
<1> QED  BY <1>5, <1>6, <1>7

-----------------------------------------------------------------------------
(* The invariant.                                                          *)

LEMMA InitInv == Init => IInv
<1> SUFFICES ASSUME Init PROVE IInv
  OBVIOUS
<1>1. TypeOK
  <2>1. built \in [Syms -> Values \cup {Never}]
    BY DEF Init
  <2>2. saves \in 0 .. MaxSaves /\ failures \in 0 .. MaxFailures
    BY BoundsAssumption DEF Init
  <2> QED  BY <2>1, <2>2 DEF Init, TypeOK, Steps
<1>2. ~UpToDate
  BY DEF Init, UpToDate
<1>3. RunInv
  BY DEF Init, RunInv, Busy
<1>4. ObjectsInv
  BY DEF Init, ObjectsInv
<1> QED  BY <1>1, <1>2, <1>3, <1>4 DEF IInv, InStep

\* A step that changes neither the files nor the objects, and starts no renames.
LEMMA QuietStep ==
  ASSUME IInv, UNCHANGED <<files, objects>>, TypeOK',
         at' \in {"idle", "asks", "backs up", "replaces", "starts"},
         at' # "idle" => ~UpToDate,
         at' = "starts" => config # NoFile /\ config.agrees /\ config.val = values'
  PROVE  IInv'
<1>1. UpToDate' = UpToDate
  BY DEF UpToDate, files
<1>2. InStep'
  BY <1>1 DEF IInv, InStep, files, LinesOf, TristatesOf
<1>3. RunInv'
  BY <1>1 DEF RunInv, Busy, files
<1>4. ObjectsInv'
  BY DEF IInv, ObjectsInv, OldValue, files, objects
<1> QED  BY <1>2, <1>3, <1>4 DEF IInv

LEMMA MakeInv == ASSUME IInv, Make PROVE IInv'
<1>1. config \in Saved
  BY DEF IInv, TypeOK, Make
<1>2. TypeOK'
  BY <1>1 DEF IInv, TypeOK, Make, Process, Steps, Saved, files, objects
<1>3. at' \in {"asks", "starts"} /\ UNCHANGED <<files, objects>>
  BY DEF Make, Process
<1>4. ~UpToDate /\ config # NoFile /\ config.val = values'
  BY DEF Make
<1>5. at' = "starts" => config.agrees
  BY DEF Make, Process
<1> QED  BY <1>2, <1>3, <1>4, <1>5, QuietStep

LEMMA AskInv == ASSUME IInv, Ask PROVE IInv'
<1>1. TypeOK'
  BY DEF IInv, TypeOK, Ask, Process, Steps, files, objects
<1>2. ~UpToDate
  BY DEF IInv, RunInv, Ask
<1>3. at' = "backs up" /\ UNCHANGED <<files, objects>>
  BY DEF Ask, Process
<1> QED  BY <1>1, <1>2, <1>3, QuietStep

LEMMA DiesInv == ASSUME IInv, Dies PROVE IInv'
<1>1. TypeOK'
  <2>1. failures' \in 0 .. MaxFailures
    BY BoundsAssumption DEF IInv, TypeOK, Dies
  <2>2. /\ at' \in Steps /\ spent' \in BOOLEAN /\ todo' \subseteq Syms
        /\ UNCHANGED <<files, objects, values, saves>>
    BY DEF Dies, Steps
  <2> QED  BY <2>1, <2>2 DEF IInv, TypeOK, files, objects
<1>2. at' = "idle" /\ UNCHANGED <<files, objects>>
  BY DEF Dies
<1> QED  BY <1>1, <1>2, QuietStep

LEMMA BackUpInv == ASSUME IInv, BackUp PROVE IInv'
<1>1. TypeOK'
  BY DEF IInv, TypeOK, BackUp, Process, Steps, files, objects
<1>2. ~UpToDate /\ ~UpToDate'
  BY DEF IInv, RunInv, BackUp, UpToDate
<1>3. RunInv'
  BY <1>2 DEF BackUp, Process, RunInv, Busy
<1>4. ObjectsInv'
  BY DEF IInv, ObjectsInv, OldValue, BackUp, Process, objects
<1> QED  BY <1>1, <1>2, <1>3, <1>4 DEF IInv, InStep

LEMMA ReplaceInv == ASSUME IInv, Replace PROVE IInv'
<1>1. config' \in Saved /\ config' # NoFile
  <2>1. config' \in Saved
    BY DEF IInv, TypeOK, Replace, Saved
  <2> QED  BY <2>1, NoFileIsNoConfig
<1>2. TypeOK'
  BY <1>1 DEF IInv, TypeOK, Replace, Process, Steps, objects
<1>3. ~UpToDate'
  BY DEF Replace, UpToDate
<1>4. RunInv'
  BY <1>1, <1>3 DEF Replace, Process, RunInv, Busy
<1>5. ObjectsInv'
  BY DEF IInv, ObjectsInv, OldValue, Replace, Process, objects
<1> QED  BY <1>2, <1>3, <1>4, <1>5 DEF IInv, InStep

LEMMA StartInv == ASSUME IInv, StartAutoconf PROVE IInv'
<1>1. TypeOK'
  BY DEF IInv, TypeOK, StartAutoconf, Process, Steps, files, objects
<1>2. ~UpToDate /\ ~UpToDate'
  BY DEF IInv, RunInv, StartAutoconf, UpToDate, files
<1>3. RunInv'
  BY <1>2 DEF IInv, RunInv, Busy, StartAutoconf, Process, files
<1>4. \A s \in Syms : LinesOf(values)[s] # OldValue(s) => s \in todo'
  BY TouchesWhatChanges DEF IInv, TypeOK, StartAutoconf
<1>5. ObjectsInv'
  <2>1. \A s \in Syms : OldValue(s)' = OldValue(s)
    BY DEF OldValue, StartAutoconf, files
  <2> QED  BY <1>4, <2>1 DEF IInv, ObjectsInv, StartAutoconf, Process, objects, LinesOf
<1> QED  BY <1>1, <1>2, <1>3, <1>5 DEF IInv, InStep

LEMMA TouchInv == ASSUME IInv, NEW t \in Syms, Touch(t) PROVE IInv'
<1>1. TypeOK'
  BY DEF IInv, TypeOK, Touch, files
<1>2. ~UpToDate /\ ~UpToDate'
  BY DEF IInv, RunInv, Touch, UpToDate, files
<1>3. RunInv'
  BY <1>2 DEF IInv, RunInv, Busy, Touch, files
<1>4. ObjectsInv'
  <2>1. \A s \in Syms : OldValue(s)' = OldValue(s)
    BY DEF OldValue, Touch, files
  <2> QED  BY <2>1 DEF IInv, ObjectsInv, Touch, LinesOf
<1> QED  BY <1>1, <1>2, <1>3, <1>4 DEF IInv, InStep

\* conf_write has cleared no flag since the values were calculated.
LEMMA FlagsAreSet ==
  ASSUME IInv, at \in {"touches", "names tristate.conf", "names auto.conf"}
  PROVE  WithFlag = values /\ values \in Configs /\ LinesOf(values) \in Lines
  BY LinesOfType DEF IInv, TypeOK, RunInv, WithFlag

LEMMA NameHeaderInv == ASSUME IInv, NameHeader PROVE IInv'
<1>1. WithFlag = values /\ LinesOf(values) \in Lines
  BY FlagsAreSet DEF NameHeader
<1>2. TypeOK'
  BY <1>1 DEF IInv, TypeOK, NameHeader, Process, Steps, objects
<1>3. ~UpToDate /\ ~UpToDate'
  BY DEF IInv, RunInv, NameHeader, UpToDate
<1>4. RunInv'
  BY <1>1, <1>3 DEF IInv, RunInv, Busy, NameHeader, Process, LinesOf
<1>5. ObjectsInv'
  <2>1. \A s \in Syms : OldValue(s)' = OldValue(s)
    BY DEF OldValue, NameHeader
  <2> QED  BY <2>1 DEF IInv, ObjectsInv, NameHeader, Process, objects, LinesOf
<1> QED  BY <1>2, <1>3, <1>4, <1>5 DEF IInv, InStep

LEMMA NameTristateInv == ASSUME IInv, NameTristate PROVE IInv'
<1>1. WithFlag = values
  BY FlagsAreSet DEF NameTristate
<1>2. TypeOK'
  BY DEF IInv, TypeOK, NameTristate, Process, Steps, TristatesOf, objects
<1>3. ~UpToDate /\ ~UpToDate'
  BY DEF IInv, RunInv, NameTristate, UpToDate
<1>4. RunInv'
  BY <1>1, <1>3 DEF IInv, RunInv, Busy, NameTristate, Process, LinesOf, TristatesOf
<1>5. ObjectsInv'
  <2>1. \A s \in Syms : OldValue(s)' = OldValue(s)
    BY DEF OldValue, NameTristate
  <2> QED  BY <2>1 DEF IInv, ObjectsInv, NameTristate, Process, objects, LinesOf
<1> QED  BY <1>2, <1>3, <1>4, <1>5 DEF IInv, InStep

LEMMA NameAutoInv == ASSUME IInv, NameAuto PROVE IInv'
<1>1. WithFlag = values /\ values \in Configs /\ LinesOf(values) \in Lines
  BY FlagsAreSet DEF NameAuto
<1>2. TypeOK'
  BY <1>1 DEF IInv, TypeOK, NameAuto, Process, Steps, objects
<1>3. InStep'
  BY <1>1 DEF IInv, RunInv, Busy, NameAuto, Process, InStep, LinesOf, TristatesOf
<1>4. RunInv'
  BY DEF RunInv, Busy, NameAuto, Process
<1>5. ObjectsInv'
  <2>1. ASSUME NEW s \in Syms, built[s] # Never, s \notin touched
        PROVE  built[s] = OldValue(s)' \/ (s \in orphans /\ OldValue(s)' = None)
    <3>1. OldValue(s)' = LinesOf(values)[s]
      BY <1>1, NoFileIsNoLines DEF OldValue, NameAuto
    <3>2. LinesOf(values)[s] = OldValue(s)
      BY <2>1 DEF IInv, RunInv, ObjectsInv, NameAuto
    <3> QED  BY <2>1, <3>1, <3>2 DEF IInv, ObjectsInv
  <2> QED  BY <2>1 DEF ObjectsInv, NameAuto, Process, objects
<1> QED  BY <1>2, <1>3, <1>4, <1>5 DEF IInv

LEMMA SaveInv == ASSUME IInv, Save PROVE IInv'
<1>1. TypeOK'
  BY BoundsAssumption DEF IInv, TypeOK, Save, objects, process
<1>2. ~UpToDate'
  BY DEF Save, UpToDate
<1>3. RunInv'
  BY DEF RunInv, Busy, Save, process
<1>4. ObjectsInv'
  BY DEF IInv, ObjectsInv, OldValue, Save, process, objects
<1> QED  BY <1>1, <1>2, <1>3, <1>4 DEF IInv, InStep

LEMMA ChangeTreeInv == ASSUME IInv, ChangeTree PROVE IInv'
<1>1. config \in Saved
  BY DEF IInv, TypeOK, ChangeTree
<1>2. config' \in Saved /\ config' # NoFile /\ config'.val = config.val
  <2>1. config' \in Saved /\ config'.val = config.val
    BY <1>1 DEF ChangeTree, Saved
  <2> QED  BY <2>1, NoFileIsNoConfig
<1>3. TypeOK'
  BY <1>2, BoundsAssumption DEF IInv, TypeOK, ChangeTree, objects, process
<1>4. UpToDate' = UpToDate
  BY DEF ChangeTree, UpToDate
<1>5. InStep'
  BY <1>2, <1>4 DEF IInv, InStep, ChangeTree, LinesOf, TristatesOf
<1>6. RunInv'
  BY DEF RunInv, Busy, ChangeTree, process
<1>7. ObjectsInv'
  BY DEF IInv, ObjectsInv, OldValue, ChangeTree, process, objects
<1> QED  BY <1>3, <1>5, <1>6, <1>7 DEF IInv

LEMMA CompileInv == ASSUME IInv, NEW t \in Syms, Compile(t) PROVE IInv'
<1>1. header = auto /\ auto \in Lines /\ header[t] = OldValue(t)
  BY DEF IInv, TypeOK, InStep, Compile, UpToDate, OldValue
<1>2. TypeOK'
  <2>1. header[t] \in Values
    BY <1>1 DEF Lines
  <2> QED  BY <2>1 DEF IInv, TypeOK, Compile, files, process
<1>3. UpToDate' = UpToDate
  BY DEF Compile, UpToDate, files
<1>4. InStep'
  BY <1>3 DEF IInv, InStep, Compile, files, LinesOf, TristatesOf
<1>5. RunInv'
  BY DEF RunInv, Busy, Compile, process
<1>6. ObjectsInv'
  <2>1. at' = "idle"
    BY DEF Compile, process
  <2>2. ASSUME NEW s \in Syms, built'[s] # Never, s \notin touched'
        PROVE  built'[s] = OldValue(s)' \/ (s \in orphans' /\ OldValue(s)' = None)
    <3>1. OldValue(s)' = OldValue(s)
      BY DEF OldValue, Compile, files
    <3>2. CASE s = t
      BY <1>1, <3>1, <3>2 DEF IInv, TypeOK, Compile
    <3>3. CASE s # t
      BY <2>2, <3>1, <3>3 DEF IInv, TypeOK, ObjectsInv, Compile
    <3> QED  BY <3>2, <3>3
  <2> QED  BY <2>1, <2>2 DEF ObjectsInv
<1> QED  BY <1>2, <1>4, <1>5, <1>6 DEF IInv

LEMMA CleanInv == ASSUME IInv, Clean PROVE IInv'
<1>1. TypeOK'
  BY DEF IInv, TypeOK, Clean, process
<1>2. ~UpToDate'
  BY DEF Clean, UpToDate
<1>3. RunInv'
  BY DEF RunInv, Busy, Clean, process
<1>4. ObjectsInv'
  BY DEF ObjectsInv, Clean, process
<1> QED  BY <1>1, <1>2, <1>3, <1>4 DEF IInv, InStep

LEMMA CleanStopsInv == ASSUME IInv, CleanStops PROVE IInv'
<1>1. PICK gone \in SUBSET Syms :
        /\ built' = [s \in Syms |-> IF s \in gone THEN Never ELSE built[s]]
        /\ touched' = touched \ gone
  BY DEF CleanStops
<1>2. built' \in [Syms -> Values \cup {Never}]
  BY <1>1 DEF IInv, TypeOK
<1>3. TypeOK'
  BY <1>1, <1>2, BoundsAssumption DEF IInv, TypeOK, CleanStops, process
<1>4. ~UpToDate'
  BY DEF CleanStops, UpToDate
<1>5. RunInv'
  BY DEF RunInv, Busy, CleanStops, process
<1>6. ObjectsInv'
  BY DEF ObjectsInv, OldValue, CleanStops, process
<1> QED  BY <1>3, <1>4, <1>5, <1>6 DEF IInv, InStep

LEMMA StutterInv == ASSUME IInv, UNCHANGED vars PROVE IInv'
  BY DEF vars, files, objects, process, IInv, TypeOK, InStep, UpToDate, RunInv, Busy,
         ObjectsInv, OldValue, LinesOf, TristatesOf

LEMMA StepInv == ASSUME IInv, [Next]_vars PROVE IInv'
<1>1. CASE Make        BY <1>1, MakeInv
<1>2. CASE Ask         BY <1>2, AskInv
<1>3. CASE BackUp      BY <1>3, BackUpInv
<1>4. CASE Replace     BY <1>4, ReplaceInv
<1>5. CASE StartAutoconf  BY <1>5, StartInv
<1>6. CASE \E s \in Syms : Touch(s)  BY <1>6, TouchInv
<1>7. CASE NameHeader    BY <1>7, NameHeaderInv
<1>8. CASE NameTristate  BY <1>8, NameTristateInv
<1>9. CASE NameAuto      BY <1>9, NameAutoInv
<1>10. CASE Dies         BY <1>10, DiesInv
<1>11. CASE Save         BY <1>11, SaveInv
<1>12. CASE ChangeTree   BY <1>12, ChangeTreeInv
<1>13. CASE Clean        BY <1>13, CleanInv
<1>14. CASE CleanStops   BY <1>14, CleanStopsInv
<1>15. CASE \E s \in Syms : Compile(s)  BY <1>15, CompileInv
<1>16. CASE UNCHANGED vars  BY <1>16, StutterInv
<1> QED
  BY <1>1, <1>2, <1>3, <1>4, <1>5, <1>6, <1>7, <1>8, <1>9, <1>10, <1>11, <1>12,
     <1>13, <1>14, <1>15, <1>16 DEF Next, Silentoldconfig

LEMMA AlwaysInv == Spec => []IInv
<1>1. IInv /\ [Next]_vars => IInv'
  BY StepInv
<1> QED  BY InitInv, <1>1, PTL DEF Spec

-----------------------------------------------------------------------------
(* The theorems.                                                           *)

\* Every state has the types that TypeOK gives, whatever is killed.
THEOREM TypeCorrect == Spec => []TypeOK
<1>1. IInv => TypeOK
  BY DEF IInv
<1> QED  BY AlwaysInv, <1>1, PTL

\* Whenever make takes auto.conf to be up to date, autoconf.h, tristate.conf
\* and auto.conf are of the .config that is there: the order of the renames in
\* conf_write_autoconf is enough, for any number of kills.
THEOREM FilesInStep == Spec => []InStep
<1>1. IInv => InStep
  BY DEF IInv
<1> QED  BY AlwaysInv, <1>1, PTL

\* No change of a symbol is missed by what is compiled against it, because
\* conf_split_config compares with the auto.conf of the last run that finished
\* and a header that was touched once stays touched.
THEOREM NoChangeIsMissed == Spec => []ChangesReachObjects
<1>1. IInv => ChangesReachObjects
  BY DEF IInv, ObjectsInv, ChangesReachObjects, UpToDate, OldValue
<1> QED  BY AlwaysInv, <1>1, PTL
=============================================================================
