---------------------------- MODULE ImportClosure ----------------------------
(***************************************************************************)
(* What the loader promises: a program is put together from modules, each  *)
(* added once and after everything it imports, so that imports never form  *)
(* a cycle; and nothing is accepted in which an import leads nowhere.      *)
(***************************************************************************)
CONSTANT Nowhere  \* what an import without a target leads to

VARIABLES
  uses,     \* the modules so far, each with what it imports
  verdict   \* "none" while building

closureVars == <<uses, verdict>>

ClosureInit == DOMAIN uses = {} /\ verdict = "none"

\* One module more, which uses modules that are there.
Add ==
  /\ verdict = "none"
  /\ \E d \in DOMAIN uses' \ DOMAIN uses :
       /\ DOMAIN uses' = DOMAIN uses \cup {d}
       /\ uses'[d] \subseteq DOMAIN uses \cup {Nowhere}
  /\ \A e \in DOMAIN uses : uses'[e] = uses[e]
  /\ UNCHANGED verdict

Accept ==
  /\ verdict = "none" /\ DOMAIN uses # {}
  /\ \A d \in DOMAIN uses : Nowhere \notin uses[d]
  /\ verdict' = "ok" /\ UNCHANGED uses

Reject ==
  /\ verdict = "none" /\ verdict' \in {"diag", "cycle", "fatal"}
  /\ UNCHANGED uses

\* The maps are gone when the loader has returned.
Forget ==
  /\ verdict # "none"
  /\ DOMAIN uses' = {} /\ UNCHANGED verdict

ClosureNext == Add \/ Accept \/ Reject \/ Forget
ClosureSpec == ClosureInit /\ [][ClosureNext]_closureVars
=============================================================================
