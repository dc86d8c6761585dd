---------------------------- MODULE ImportCache ----------------------------
(***************************************************************************)
(* The preprocessed data of one module on disk, over crashes and restarts   *)
(* of the program.  The import operation compares the import.ini of the     *)
(* module's directory with the present input; if they differ, it builds the *)
(* data anew, in place, and then writes import.ini                          *)
(* (modules/osrm/src/osrm.cc:72-85, osr/src/osr.cc:342-351,                 *)
(* adr/src/adr.cc:69-76).  Two modules deviate: tiles writes import.ini in  *)
(* any case (tiles/src/tiles.cc:109-147), and ppr builds the data again if  *)
(* it cannot load what import.ini vouches for (ppr/src/ppr.cc:366-427).     *)
(*                                                                          *)
(* A crash ends the process; what it has written stays.  The files are      *)
(* taken to be written in the order of the calls.  Between two runs the     *)
(* program may be replaced by another version, of which import.ini keeps    *)
(* no record.                                                               *)
(***************************************************************************)
EXTENDS Naturals

CONSTANTS
  Inputs,     \* import_state: the path, hash and size of the input files
  Versions,   \* of the program and of the format of its data
  None,       \* read_ini of no file or an empty one: import_state{}
  Partial,    \* the data of a build that did not end
  MaxFaults   \* bound on crashes and exceptions

ASSUME CacheAssumption ==
  /\ None \notin Inputs /\ Partial \notin Inputs
  /\ None # Partial
  /\ MaxFaults \in Nat

VARIABLES
  kind,     \* the module: "plain" (adr, osr, osrm), "tiles" or "ppr"
  input,    \* the state computed from the dependencies
  program,  \* the version that is running
  ini,      \* import.ini
  data,     \* the preprocessed files: None, Partial, or the input they are of
  builtBy,  \* the version that wrote them
  spoiled,  \* history: the input an ini vouches for although its data was overwritten
  needless, \* history: builds that began although the data was there already
  faults,
  pc        \* "off", "check", "build", "open", "write", "load", "loadNew", "up", "failed"

vars == <<kind, input, program, ini, data, builtBy, spoiled, needless, faults, pc>>

files == <<ini, data, builtBy, spoiled, needless>>

Init ==
  /\ kind \in {"plain", "tiles", "ppr"}
  /\ input \in Inputs /\ program \in Versions
  /\ ini = None /\ data = None /\ builtBy = program /\ spoiled = None
  /\ needless = 0 /\ faults = 0
  /\ pc = "off"

\* The program is started, in the same version or another, with the same input
\* files or with others.
Start ==
  /\ pc = "off"
  /\ input' \in Inputs /\ program' \in Versions
  /\ pc' = "check"
  /\ UNCHANGED <<kind, files, faults>>

\* What the program needs is on disk.
AtHand == data = input /\ builtBy = program

\* The build overwrites the old data; import.ini stays.
BeginBuild ==
  /\ pc' = "build"
  /\ data' = Partial /\ builtBy' = program
  /\ spoiled' = ini
  /\ needless' = IF AtHand THEN needless + 1 ELSE needless
  /\ UNCHANGED ini

\* Mutant: import.ini is trusted if it exists
CheckExists ==
  /\ pc = "check"
  /\ IF ini = None THEN BeginBuild ELSE pc' = "load" /\ UNCHANGED files
  /\ UNCHANGED <<kind, input, program, faults>>

\* Mutant: a missing import.ini passes for unchanged input
CheckMissing ==
  /\ pc = "check"
  /\ IF ini \notin {None, input} THEN BeginBuild ELSE pc' = "load" /\ UNCHANGED files
  /\ UNCHANGED <<kind, input, program, faults>>

\* if (read_ini(import.ini) != state).
Check ==
  /\ pc = "check"
  /\ IF ini # input
     THEN BeginBuild
     ELSE pc' = (IF kind = "tiles" THEN "open" ELSE "load") /\ UNCHANGED files
  /\ UNCHANGED <<kind, input, program, faults>>

\* Mutant: the errors of the build go unnoticed
BuildUnchecked ==
  /\ pc = "build"
  /\ data' \in {input, Partial}
  /\ pc' = "open"
  /\ UNCHANGED <<kind, input, program, ini, builtBy, spoiled, needless, faults>>

Build ==
  /\ pc = "build"
  /\ data' = input
  /\ spoiled' = IF ini = input THEN None ELSE spoiled
  /\ pc' = "open"
  /\ UNCHANGED <<kind, input, program, ini, builtBy, needless, faults>>

\* Mutant: an import.ini that exists is not written again
OpenOnce ==
  /\ pc = "open"
  /\ pc' = IF ini = None THEN "write" ELSE "loadNew"
  /\ UNCHANGED <<kind, input, program, files, faults>>

\* write_ini opens the file, which empties it, and writes the fields.
OpenIni ==
  /\ pc = "open"
  /\ ini' = None
  /\ spoiled' = IF data = input THEN None ELSE spoiled
  /\ pc' = "write"
  /\ UNCHANGED <<kind, input, program, data, builtBy, needless, faults>>

WriteIni ==
  /\ pc = "write"
  /\ ini' = input
  /\ pc' = "loadNew"
  /\ UNCHANGED <<kind, input, program, data, builtBy, spoiled, needless, faults>>

Fault == faults < MaxFaults /\ faults' = faults + 1

\* Whole data can be loaded whatever input it is of.  Partial data and those of
\* another version may be accepted or not.
Load ==
  /\ pc \in {"load", "loadNew"}
  /\ pc' = "up"
  /\ UNCHANGED <<kind, input, program, files, faults>>

\* Mutant: the ppr gives up where it cannot load the graph it finds
LoadFailsForGood ==
  /\ pc \in {"load", "loadNew"}
  /\ (data = Partial \/ builtBy # program) /\ UNCHANGED faults
  /\ pc' = "failed"
  /\ UNCHANGED <<kind, input, program, files>>

\* Files the program cannot read, or a fault of the system.  The ppr builds the
\* graph it found again, in place, and gives up if it cannot load the new one.
LoadFails ==
  /\ pc \in {"load", "loadNew"}
  /\ \/ (data = Partial \/ builtBy # program) /\ UNCHANGED faults
     \/ Fault
  /\ IF kind = "ppr" /\ pc = "load"
     THEN BeginBuild
     ELSE pc' = "failed" /\ UNCHANGED files
  /\ UNCHANGED <<kind, input, program>>

(***************************************************************************)
(* Faults and the user.  An exception of the build or of write_ini ends the *)
(* import of the module: it is not repeated before the next start.  The     *)
(* user may end a program that is up and starts one again that has failed.  *)
(***************************************************************************)
ImportThrows ==
  /\ Fault
  /\ pc \in {"build", "open", "write"}
  /\ pc' = "failed"
  /\ UNCHANGED <<kind, input, program, files>>

Crash ==
  /\ Fault
  /\ pc \notin {"off", "up", "failed"}
  /\ pc' = "off"
  /\ UNCHANGED <<kind, input, program, files>>

End ==
  /\ pc \in {"up", "failed"}
  /\ pc' = "off"
  /\ UNCHANGED <<kind, input, program, files, faults>>

Go == Start \/ Check \/ Build \/ OpenIni \/ WriteIni \/ Load \/ LoadFails

Next == Go \/ ImportThrows \/ Crash \/ End

Spec == Init /\ [][Next]_vars

\* The import is one thread that goes on, and a program that is off or whose
\* import has failed is started again.
FairSpec == Spec /\ WF_vars(Go) /\ WF_vars(pc = "failed" /\ End)

-----------------------------------------------------------------------------
\* The types; while a build is under way its data is partial, and something
\* has been built whenever data is loaded.
TypeOK ==
  /\ kind \in {"plain", "tiles", "ppr"}
  /\ input \in Inputs /\ {program, builtBy} \subseteq Versions
  /\ ini \in Inputs \cup {None}
  /\ data \in Inputs \cup {None, Partial}
  /\ spoiled \in Inputs \cup {None}
  /\ needless \in Nat
  /\ faults \in 0 .. MaxFaults
  /\ pc \in {"off", "check", "build", "open", "write", "load", "loadNew", "up", "failed"}
  /\ pc = "build" => data = Partial
  /\ pc \in {"load", "loadNew", "up"} => data # None

\* A module that is up serves the data of its present input, unless the last
\* build that began was for another input and did not get as far as to touch
\* the import.ini that vouches for the present one.  (Then it may serve
\* partial data, or those of the other input.)
UpWithItsInput == pc = "up" => data = input \/ spoiled = input

\* import.ini vouches for data that is whole and of that input, from the
\* moment it is written until the next build begins.
IniVouches == ini # None /\ spoiled # ini => data = ini

\* Data that is there already is built again only after a fault, and once for
\* each: a crash or an exception between the build and the end of write_ini,
\* or a load that failed although the data is whole and of this version.
\* However often the program ends, is replaced and starts with other inputs,
\* all other builds are for data that is not there.
NeedlessBuilds == needless <= faults

\* However often the program is started, once the faults cease it comes up
\* again; the ppr always does.  The others may not where import.ini vouches for
\* data that a build for another input destroyed, or that another version wrote.
ComesUp ==
  []<>(\/ pc = "up"
       \/ kind # "ppr" /\ (spoiled = input \/ builtBy # program))
=============================================================================
