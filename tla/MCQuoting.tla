------------------------------ MODULE MCQuoting ------------------------------
(* Quoting from both sides: one template, name by name (Quote), or one path through the tree    *)
(* of one, with the passes it comes through (TreeWalks).  The two have no state in common; a    *)
(* behaviour is one of either, and the other stands at an end of its own.                       *)
EXTENDS Quote, TreeWalks

QuoteParked ==
  /\ scopes = <<>> /\ gensym = 0 /\ kept = {} /\ last = Nothing /\ status = "done"
WalkParked ==
  /\ root = "Import" /\ at = "Import" /\ inside = {} /\ come = DOMAIN Follows

QuotingInit == (QuoteInit /\ WalkParked) \/ (WalkInit /\ QuoteParked)
QuotingNext ==
  \/ OpenBlock /\ UNCHANGED walkVars
  \/ \E S \in SUBSET Names : OpenSkipped(S) /\ UNCHANGED walkVars
  \/ \E S \in SUBSET Names \ {{}} : OpenArm(S) /\ UNCHANGED walkVars
  \/ \E S \in SUBSET Names \ {{}} : Let(S) /\ UNCHANGED walkVars
  \/ Close /\ UNCHANGED walkVars
  \/ \E x \in Names : Use(x) /\ UNCHANGED walkVars
  \/ \E x \in Names : UseCallee(x) /\ UNCHANGED walkVars
  \/ \E x \in Names : LetSpliced(x) /\ UNCHANGED walkVars
  \/ \E x \in Names, kind, position \in Kinds : SpliceIn(kind, position, x) /\ UNCHANGED walkVars
  \/ SpliceFails /\ UNCHANGED walkVars
  \/ EndTemplate /\ UNCHANGED walkVars
  \/ Descend /\ UNCHANGED quoteVars
QuotingSpec == QuotingInit /\ [][QuotingNext]_<<quoteVars, walkVars>>
=============================================================================
