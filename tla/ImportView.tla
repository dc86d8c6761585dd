----------------------------- MODULE ImportView -----------------------------
(***************************************************************************)
(* What the import promises to whoever configures the modules, independent  *)
(* of subscriptions, messages and their order: an operation runs at most    *)
(* once, and not before everything it needs was given with the input files  *)
(* or left by operations that succeeded; the import is over only when no    *)
(* operation is left that could run.                                        *)
(***************************************************************************)

VARIABLES
  given,    \* events of the input files that somebody accepts
  needs,    \* per operation: the events it requires
  gives,    \* per operation: the events it publishes if it succeeds
  outcome,  \* per operation: "none", "ok" or "failed"
  over      \* the import has ended

vars == <<given, needs, gives, outcome, over>>

Operations == DOMAIN needs

Available == given \cup UNION {gives[c] : c \in {d \in Operations : outcome[d] = "ok"}}

CanRun(c) == outcome[c] = "none" /\ needs[c] \subseteq Available

Init ==
  /\ outcome = [c \in Operations |-> "none"]
  /\ over = FALSE

Run(c, result) ==
  /\ ~over /\ CanRun(c)
  /\ outcome' = [outcome EXCEPT ![c] = result]
  /\ UNCHANGED <<given, needs, gives, over>>

End ==
  /\ ~over /\ \A c \in Operations : ~CanRun(c)
  /\ over' = TRUE
  /\ UNCHANGED <<given, needs, gives, outcome>>

Next == End \/ \E c \in Operations, result \in {"ok", "failed"} : Run(c, result)

Spec == Init /\ [][Next]_vars
=============================================================================
