-------------------------- MODULE ImportCacheProofs --------------------------
(***************************************************************************)
(* Proofs about ImportCache: for any number of inputs, versions and faults, *)
(* what import.ini vouches for, what a module that is up serves, and how    *)
(* often it builds what is there already.                                   *)
(***************************************************************************)
EXTENDS ImportCache, TLAPS

\* What holds at each step of the import, besides IniVouches.
Progressing ==
  /\ data = None => ini = None /\ pc \in {"off", "check"}
  /\ pc = "open" => data = input \/ (spoiled = input /\ ini = input)
  /\ pc = "write" => ini = None /\ (data = input \/ spoiled = input)
  /\ pc \in {"load", "loadNew", "up"} => ini = input

\* Whole data that no import.ini vouches for, and that is not about to get one,
\* is the work of a fault that no needless build has used up.
Due ==
  /\ data \in Inputs /\ ini # data
  /\ pc \in {"open", "write"} => data # input

Paid == needless <= faults /\ (Due => needless < faults)

IInv == TypeOK /\ IniVouches /\ Progressing /\ Paid

LEMMA InitInv == Init => IInv
  BY CacheAssumption DEF Init, IInv, TypeOK, IniVouches, Progressing, Paid, Due

LEMMA TypeStep == IInv /\ [Next]_vars => TypeOK' /\ IniVouches' /\ Progressing'
<1> SUFFICES ASSUME IInv, [Next]_vars PROVE TypeOK' /\ IniVouches' /\ Progressing'
  OBVIOUS
<1> USE CacheAssumption DEF IInv, TypeOK, IniVouches, Progressing, files
<1>1. CASE Start
  BY <1>1 DEF Start
<1>2. CASE Check
  <2>1. CASE ini # input
    BY <1>2, <2>1 DEF Check, BeginBuild
  <2>2. CASE ini = input
    BY <1>2, <2>2 DEF Check
  <2> QED
    BY <2>1, <2>2
<1>3. CASE Build
  BY <1>3 DEF Build
<1>4. CASE OpenIni
  BY <1>4 DEF OpenIni
<1>5. CASE WriteIni
  BY <1>5 DEF WriteIni
<1>6. CASE Load
  BY <1>6 DEF Load
<1>7. CASE LoadFails
  <2>1. CASE kind = "ppr" /\ pc = "load"
    BY <1>7, <2>1 DEF LoadFails, BeginBuild, Fault
  <2>2. CASE ~(kind = "ppr" /\ pc = "load")
    BY <1>7, <2>2 DEF LoadFails, Fault
  <2> QED
    BY <2>1, <2>2
<1>8. CASE ImportThrows
  BY <1>8 DEF ImportThrows, Fault
<1>9. CASE Crash
  BY <1>9 DEF Crash, Fault
<1>10. CASE End
  BY <1>10 DEF End
<1>11. CASE UNCHANGED vars
  BY <1>11 DEF vars
<1> QED
  BY <1>1, <1>2, <1>3, <1>4, <1>5, <1>6, <1>7, <1>8, <1>9, <1>10, <1>11 DEF Next, Go

\* A build that begins for data that is at hand is paid for, by the fault that
\* kept import.ini from being written or by the one that fails the load.
LEMMA PaidStep == IInv /\ [Next]_vars => Paid'
<1> SUFFICES ASSUME IInv, [Next]_vars PROVE Paid'
  OBVIOUS
<1> USE CacheAssumption DEF IInv, TypeOK, Progressing, Paid, Due, files
<1>1. CASE Start
  BY <1>1 DEF Start
<1>2. CASE Check
  <2>1. CASE ini # input
    <3>1. AtHand => needless < faults
      BY <1>2, <2>1 DEF Check, AtHand
    <3> QED
      BY <1>2, <2>1, <3>1 DEF Check, BeginBuild
  <2>2. CASE ini = input
    BY <1>2, <2>2 DEF Check
  <2> QED
    BY <2>1, <2>2
<1>3. CASE Build
  BY <1>3 DEF Build
<1>4. CASE OpenIni
  BY <1>4 DEF OpenIni
<1>5. CASE WriteIni
  BY <1>5 DEF WriteIni
<1>6. CASE Load
  BY <1>6 DEF Load
<1>7. CASE LoadFails
  <2>1. CASE kind = "ppr" /\ pc = "load"
    <3>1. AtHand => faults' = faults + 1
      BY <1>7 DEF LoadFails, AtHand, Fault
    <3>2. faults' \in Nat /\ faults' >= faults
      BY <1>7 DEF LoadFails, Fault
    <3> QED
      BY <1>7, <2>1, <3>1, <3>2 DEF LoadFails, BeginBuild
  <2>2. CASE ~(kind = "ppr" /\ pc = "load")
    BY <1>7, <2>2 DEF LoadFails, Fault
  <2> QED
    BY <2>1, <2>2
<1>8. CASE ImportThrows
  BY <1>8 DEF ImportThrows, Fault
<1>9. CASE Crash
  BY <1>9 DEF Crash, Fault
<1>10. CASE End
  BY <1>10 DEF End
<1>11. CASE UNCHANGED vars
  BY <1>11 DEF vars
<1> QED
  BY <1>1, <1>2, <1>3, <1>4, <1>5, <1>6, <1>7, <1>8, <1>9, <1>10, <1>11 DEF Next, Go

LEMMA InvCorrect == Spec => []IInv
<1>1. IInv /\ [Next]_vars => IInv'
  BY TypeStep, PaidStep DEF IInv
<1> QED
  BY <1>1, InitInv, PTL DEF Spec

\* Type correctness: while a build is under way its data is partial, and data
\* is loaded only after something was built.
THEOREM TypeCorrect == Spec => []TypeOK
<1>1. IInv => TypeOK
  BY DEF IInv
<1> QED
  BY <1>1, InvCorrect, PTL

\* import.ini vouches for whole data of its input, crashes or not, as long as
\* no build has begun since it was written.
THEOREM IniVouchesCorrect == Spec => []IniVouches
<1>1. IInv => IniVouches
  BY DEF IInv
<1> QED
  BY <1>1, InvCorrect, PTL

\* A module that is up serves the data of its present input, but for a build
\* for another input that was interrupted after import.ini had been written.
THEOREM UpWithItsInputCorrect == Spec => []UpWithItsInput
<1>1. IInv => UpWithItsInput
  BY CacheAssumption DEF IInv, TypeOK, IniVouches, Progressing, UpWithItsInput
<1> QED
  BY <1>1, InvCorrect, PTL

\* There are at most as many builds of data that is there already as faults,
\* over any number of starts, inputs and versions of the program.
THEOREM NeedlessBuildsCorrect == Spec => []NeedlessBuilds
<1>1. IInv => NeedlessBuilds
  BY DEF IInv, Paid, NeedlessBuilds
<1> QED
  BY <1>1, InvCorrect, PTL
=============================================================================
