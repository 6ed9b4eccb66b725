----------------------------- MODULE IRFlowProofs -----------------------------
(***************************************************************************)
(* validateDefiniteAssignment is right for functions of any number of      *)
(* blocks, however they branch and loop: FlowExact is an invariant.  Two   *)
(* facts make FlowExact inductive.  What is missing from an outSet is      *)
(* missing for a reason: a path that stores it nowhere (Justified).  And   *)
(* what the round has passed without a change is settled, so that at its   *)
(* end the sets solve the equations (Settled).                             *)
(*                                                                         *)
(* From there to the run of what was validated: a frame at a block lacks   *)
(* only what some path to the block does not store (Running), so that no   *)
(* load fails (ValidatedRuns); and what is inlined brings the stores that  *)
(* its loads need and takes numbers that nothing else has (Made), so that  *)
(* Optimize leaves no path to a load that was not one before               *)
(* (OptimizedValid).  Last, the two functions side by side: their frames   *)
(* agree on what both have (Agree), within an inlined call but for the     *)
(* temporary that it sets (AgreeBut), and there what is inlined has a copy *)
(* of every value that the callee has set (Mirrors), so that nobody sees   *)
(* a difference (SameMeaning).  Instructions and blocks are passed over    *)
(* one by one; what holds after each of them is shown by Inductive.        *)
(***************************************************************************)
EXTENDS IRFlow, FiniteSetTheorems, SequenceTheorems, WellFoundedInduction, TLAPS

LoadsDeclared ==
  \A l \in DOMAIN blocks : \A i \in DOMAIN blocks[l].code :
    blocks[l].code[i].op = "load" => blocks[l].code[i].name \in Declared
Settled == ~changed => \A l \in ReachableBlocks(blocks) : l < turn => outs[l] = OutSet(l)
Justified ==
  \A l \in DOMAIN blocks, n \in Declared :
    n \notin outs[l] =>
      n \notin Names(source.params) /\ n \notin Stores(blocks[l].code) /\ l \in Reached(blocks, Bypassed(n))
BlocksOK ==
  /\ source \in Programs
  /\ Entry \in DOMAIN blocks /\ DOMAIN blocks \subseteq 1 .. Len(source.blocks)
RoundOK ==
  /\ turn \in Nat /\ changed \in BOOLEAN
  /\ outs \in [DOMAIN blocks -> SUBSET Declared]
FlowInv ==
  /\ BlocksOK
  /\ stage = "flow" => LoadsDeclared /\ RoundOK /\ Settled /\ Justified
  /\ FlowExact

----------------------------------------------------------------------------
(* Programs.                                                               *)

\* There is a first block.
LEMMA ProgramShape ==
  ASSUME NEW p \in Programs
  PROVE  Len(p.blocks) \in Nat \ {0} /\ DOMAIN p.blocks = 1 .. Len(p.blocks)
<1>1. p.blocks \in Seq(Elements(p.blocks)) /\ p.blocks # <<>>
  BY ProgramsAssumption DEF ProgramsAssumption, IsSequence
<1> QED
  BY <1>1, EmptySeq, LenProperties

----------------------------------------------------------------------------
(* Reachability.                                                           *)

\* The entry is reached (reachableBlocks starts there).
LEMMA EntryReached ==
  ASSUME NEW bs, NEW T, Entry \in DOMAIN bs
  PROVE  Entry \in Reached(bs, T)
BY DEF Reached, Closed

\* What a block in Through that is reached jumps to is reached.
LEMMA TargetReached ==
  ASSUME NEW bs, NEW T, NEW l \in Reached(bs, T), l \in T,
         NEW k \in Targets(bs[l].term), k \in DOMAIN bs
  PROVE  k \in Reached(bs, T)
BY DEF Reached, Closed

\* Nothing else is reached.
LEMMA ReachedLeast ==
  ASSUME NEW bs, NEW T, NEW S \in SUBSET DOMAIN bs, Closed(bs, T, S)
  PROVE  Reached(bs, T) \subseteq S
BY DEF Reached

\* Fewer blocks to go through reach no more.
LEMMA ReachedReachable ==
  ASSUME NEW bs, NEW T, Entry \in DOMAIN bs
  PROVE  Reached(bs, T) \subseteq ReachableBlocks(bs)
<1>1. ReachableBlocks(bs) \in SUBSET DOMAIN bs
  BY DEF ReachableBlocks, Reached
<1>2. Entry \in ReachableBlocks(bs)
  BY EntryReached DEF ReachableBlocks
<1>3. ASSUME NEW l \in ReachableBlocks(bs) \cap T, NEW k \in Targets(bs[l].term) \cap DOMAIN bs
      PROVE  k \in ReachableBlocks(bs)
  BY <1>1, TargetReached DEF ReachableBlocks
<1>4. Closed(bs, T, ReachableBlocks(bs))
  BY <1>2, <1>3 DEF Closed
<1> QED
  BY <1>1, <1>4, ReachedLeast

\* A block that is reached and is not the entry has a predecessor that is reached.
LEMMA HasPredecessor ==
  ASSUME NEW bs, Entry \in DOMAIN bs, NEW l \in ReachableBlocks(bs), l # Entry
  PROVE  \E k \in ReachableBlocks(bs) : l \in Targets(bs[k].term)
<1> DEFINE R == ReachableBlocks(bs) \ {l}
<1> SUFFICES ASSUME \A k \in ReachableBlocks(bs) : l \notin Targets(bs[k].term)
             PROVE  FALSE
  OBVIOUS
<1>1. R \in SUBSET DOMAIN bs
  BY DEF ReachableBlocks, Reached
<1>2. Entry \in R
  BY EntryReached DEF ReachableBlocks
<1>3. ASSUME NEW j \in R, NEW k \in Targets(bs[j].term) \cap DOMAIN bs
      PROVE  k \in R
  <2>1. k \in ReachableBlocks(bs)
    BY <1>1, <1>3, TargetReached DEF ReachableBlocks
  <2> QED
    BY <2>1
<1>4. Closed(bs, DOMAIN bs, R)
  BY <1>2, <1>3 DEF Closed
<1>5. ReachableBlocks(bs) \subseteq R
  BY <1>1, <1>4, ReachedLeast DEF ReachableBlocks
<1> QED
  BY <1>5

----------------------------------------------------------------------------
(* The rounds.                                                             *)

\* The sets of a block are sets of declared names.
LEMMA SetsDeclared ==
  ASSUME NEW l \in DOMAIN blocks
  PROVE  InSet(l) \subseteq Declared /\ OutSet(l) \subseteq Declared
<1>1. Names(source.params) \subseteq Declared /\ Stores(blocks[l].code) \subseteq Declared
  BY DEF Declared
<1>2. InSet(l) \subseteq Declared
  BY <1>1 DEF InSet
<1> QED
  BY <1>1, <1>2 DEF OutSet

\* What is missing at the start of a block is missing for a reason.
LEMMA MissingJustified ==
  ASSUME BlocksOK, Justified,
         NEW l \in ReachableBlocks(blocks), NEW n \in Declared, n \notin InSet(l)
  PROVE  n \notin Names(source.params) /\ l \in Reached(blocks, Bypassed(n))
<1>1. ReachableBlocks(blocks) \subseteq DOMAIN blocks
  BY DEF ReachableBlocks, Reached
<1>2. CASE l = Entry
  BY <1>1, <1>2, EntryReached DEF BlocksOK, InSet
<1>3. CASE l # Entry
  <2>1. Predecessors(l) # {}
    BY <1>3, HasPredecessor DEF BlocksOK, Predecessors
  <2>2. PICK k \in Predecessors(l) : n \notin outs[k]
    BY <1>3, <2>1 DEF InSet
  <2>3. k \in DOMAIN blocks /\ l \in Targets(blocks[k].term)
    BY <1>1, <2>2 DEF Predecessors
  <2>4. /\ n \notin Names(source.params) /\ n \notin Stores(blocks[k].code)
        /\ k \in Reached(blocks, Bypassed(n))
    BY <2>2, <2>3 DEF Justified
  <2>5. k \in Bypassed(n)
    BY <2>3, <2>4 DEF Bypassed
  <2> QED
    BY <1>1, <2>3, <2>4, <2>5, TargetReached
<1> QED
  BY <1>2, <1>3

\* Settled sets that have a name at the start of a block have it on every path to the block.
LEMMA SettledSound ==
  ASSUME BlocksOK, NEW n \in Declared, n \notin Names(source.params),
         \A l \in ReachableBlocks(blocks) : outs[l] = OutSet(l)
  PROVE  \A l \in Reached(blocks, Bypassed(n)) : n \notin InSet(l)
<1> DEFINE S == {l \in ReachableBlocks(blocks) : n \notin InSet(l)}
<1>1. ReachableBlocks(blocks) \subseteq DOMAIN blocks
  BY DEF ReachableBlocks, Reached
<1>2. Entry \in S
  BY EntryReached DEF BlocksOK, ReachableBlocks, InSet
<1>3. ASSUME NEW l \in S \cap Bypassed(n), NEW k \in Targets(blocks[l].term) \cap DOMAIN blocks
      PROVE  k \in S
  <2>1. k \in ReachableBlocks(blocks)
    BY <1>1, <1>3, TargetReached DEF ReachableBlocks
  <2>2. l \in Predecessors(k)
    BY <1>3 DEF Predecessors
  <2>3. n \notin outs[l]
    BY <1>3 DEF OutSet, Bypassed
  <2>4. n \notin InSet(k)
    BY <1>2, <2>2, <2>3 DEF InSet
  <2> QED
    BY <2>1, <2>4
<1>4. Closed(blocks, Bypassed(n), S)
  BY <1>2, <1>3 DEF Closed
<1>5. S \in SUBSET DOMAIN blocks
  BY <1>1
<1>6. Reached(blocks, Bypassed(n)) \subseteq S
  BY <1>4, <1>5, ReachedLeast
<1> QED
  BY <1>6

\* A load that is rejected when the sets are settled is exposed, and if none is rejected none is.
LEMMA SettleExact ==
  ASSUME BlocksOK, LoadsDeclared, RoundOK, Settled, Justified, turn = RoundEnd, ~changed
  PROVE  (\E l \in ReachableBlocks(blocks) : Misuses(blocks[l].code, InSet(l))) <=> Exposed
<1>1. ReachableBlocks(blocks) \subseteq DOMAIN blocks
  BY DEF ReachableBlocks, Reached
<1>2. ASSUME NEW l \in ReachableBlocks(blocks), Misuses(blocks[l].code, InSet(l))
      PROVE  Exposed
  <2>1. PICK i \in DOMAIN blocks[l].code :
          /\ blocks[l].code[i].op = "load"
          /\ blocks[l].code[i].name \notin InSet(l) \cup Stores(SubSeq(blocks[l].code, 1, i - 1))
    BY <1>2 DEF Misuses
  <2> DEFINE n == blocks[l].code[i].name
  <2>2. n \in Declared
    BY <1>1, <2>1 DEF LoadsDeclared
  <2>3. n \notin Names(source.params) /\ l \in Reached(blocks, Bypassed(n))
    BY <2>1, <2>2, MissingJustified
  <2> QED
    BY <2>1, <2>2, <2>3 DEF Exposed
<1>3. ASSUME Exposed
      PROVE  \E l \in ReachableBlocks(blocks) : Misuses(blocks[l].code, InSet(l))
  <2>1. PICK n \in Declared \ Names(source.params) :
          \E l \in Reached(blocks, Bypassed(n)) :
            \E i \in DOMAIN blocks[l].code :
              /\ blocks[l].code[i].op = "load" /\ blocks[l].code[i].name = n
              /\ n \notin Stores(SubSeq(blocks[l].code, 1, i - 1))
    BY <1>3 DEF Exposed
  <2>2. PICK l \in Reached(blocks, Bypassed(n)) :
          \E i \in DOMAIN blocks[l].code :
            /\ blocks[l].code[i].op = "load" /\ blocks[l].code[i].name = n
            /\ n \notin Stores(SubSeq(blocks[l].code, 1, i - 1))
    BY <2>1
  <2>3. l \in ReachableBlocks(blocks)
    BY <2>2, ReachedReachable DEF BlocksOK
  <2>4. Len(source.blocks) \in Nat
    BY ProgramShape DEF BlocksOK
  <2>5. \A k \in ReachableBlocks(blocks) : k < turn
    BY <1>1, <2>4 DEF BlocksOK, RoundEnd
  <2>6. \A k \in ReachableBlocks(blocks) : outs[k] = OutSet(k)
    BY <2>5 DEF Settled
  <2>7. n \notin InSet(l)
    BY <2>2, <2>6, SettledSound
  <2>8. Misuses(blocks[l].code, InSet(l))
    BY <2>2, <2>7 DEF Misuses
  <2> QED
    BY <2>3, <2>8
<1> QED
  BY <1>2, <1>3

----------------------------------------------------------------------------
(* The invariant.                                                          *)

\* What is read is a list of blocks.
LEMMA FlowInit == IRInit => FlowInv
<1> SUFFICES ASSUME IRInit PROVE FlowInv
  OBVIOUS
<1>1. BlocksOK
  <2>1. source \in Programs /\ blocks = source.blocks
    BY DEF IRInit
  <2>2. Len(source.blocks) \in Nat \ {0} /\ DOMAIN source.blocks = 1 .. Len(source.blocks)
    BY <2>1, ProgramShape
  <2>3. 1 \in 1 .. Len(source.blocks)
    BY <2>2
  <2> QED
    BY <2>1, <2>2, <2>3 DEF BlocksOK, Entry
<1>2. FlowExact
  BY DEF IRInit, FlowExact
<1> QED
  BY <1>1, <1>2 DEF IRInit, FlowInv

\* The structural part of Validate: then the sets start with everything.
LEMMA CheckKeeps == FlowInv /\ Check => FlowInv'
<1> SUFFICES ASSUME FlowInv, Check PROVE FlowInv'
  OBVIOUS
<1> USE DEF Check
<1>1. BlocksOK'
  BY DEF FlowInv, BlocksOK
<1>2. Declared' = Declared
  BY DEF Declared
<1>3. stage' = "flow" => LoadsDeclared'
  <2> SUFFICES ASSUME stage' = "flow", NEW l \in DOMAIN blocks, NEW i \in DOMAIN blocks[l].code,
                      blocks[l].code[i].op = "load"
               PROVE  blocks[l].code[i].name \in Declared
    BY <1>2 DEF LoadsDeclared
  <2>1. blocks[l].code[i] \in Elements(blocks[l].code)
    BY DEF Elements
  <2>2. ValidBlock(blocks[l])
    OBVIOUS
  <2> QED
    BY <2>1, <2>2 DEF ValidBlock, ValidInstr
<1>4. stage' = "flow" => RoundOK'
  <2> SUFFICES ASSUME stage' = "flow" PROVE RoundOK'
    OBVIOUS
  <2>1. outs' = [l \in DOMAIN blocks |-> Declared] /\ turn' = Entry /\ changed' = FALSE
    BY DEF StartSets
  <2>2. outs' \in [DOMAIN blocks -> SUBSET Declared]
    BY <2>1
  <2> QED
    BY <1>2, <2>1, <2>2 DEF RoundOK, Entry
<1>5. stage' = "flow" => Settled'
  <2> SUFFICES ASSUME stage' = "flow", NEW l \in ReachableBlocks(blocks'), l < Entry
               PROVE  FALSE
    BY DEF Settled
  <2>1. l \in DOMAIN blocks
    BY DEF ReachableBlocks, Reached
  <2>2. Len(source.blocks) \in Nat
    BY ProgramShape DEF FlowInv, BlocksOK
  <2> QED
    BY <2>1, <2>2 DEF FlowInv, BlocksOK, Entry
<1>6. stage' = "flow" => Justified'
  BY <1>2 DEF Justified, StartSets
<1>7. FlowExact'
  BY DEF FlowExact
<1> QED
  BY <1>1, <1>3, <1>4, <1>5, <1>6, <1>7 DEF FlowInv

\* What stays the same while a round of validateDefiniteAssignment goes on.
LEMMA SameBlocks ==
  ASSUME UNCHANGED <<source, blocks>>
  PROVE  /\ Declared' = Declared
         /\ ReachableBlocks(blocks)' = ReachableBlocks(blocks)
         /\ \A n : Reached(blocks, Bypassed(n))' = Reached(blocks, Bypassed(n))
         /\ BlocksOK' = BlocksOK /\ LoadsDeclared' = LoadsDeclared /\ RoundEnd' = RoundEnd
         /\ Exposed' = Exposed
BY DEF Declared, ReachableBlocks, Reached, Closed, Bypassed, BlocksOK, LoadsDeclared, Exposed, RoundEnd

\* A block of a round: what is missing behind it is justified, and if nothing changes it is settled.
LEMMA VisitKeeps == FlowInv /\ Visit => FlowInv'
<1> SUFFICES ASSUME FlowInv, Visit PROVE FlowInv'
  OBVIOUS
<1>1. /\ UNCHANGED <<source, blocks, stage>> /\ stage = "flow" /\ turn' = turn + 1
      /\ outs' = IF turn \in ReachableBlocks(blocks) THEN [outs EXCEPT ![turn] = OutSet(turn)] ELSE outs
      /\ changed' = (changed \/ outs' # outs)
  BY DEF Visit
<1>2. BlocksOK /\ LoadsDeclared /\ RoundOK /\ Settled /\ Justified
  BY <1>1 DEF FlowInv
<1>3. ReachableBlocks(blocks) \subseteq DOMAIN blocks
  BY DEF ReachableBlocks, Reached
<1>4. RoundOK'
  <2>1. turn' \in Nat /\ changed' \in BOOLEAN
    BY <1>1, <1>2 DEF RoundOK
  <2>2. outs' \in [DOMAIN blocks -> SUBSET Declared]
    BY <1>1, <1>2, <1>3, SetsDeclared DEF RoundOK
  <2> QED
    BY <1>1, <2>1, <2>2, SameBlocks DEF RoundOK
<1>5. Settled'
  <2> SUFFICES ASSUME ~changed', NEW l \in ReachableBlocks(blocks), l < turn + 1
               PROVE  outs'[l] = OutSet(l)'
    BY <1>1, SameBlocks DEF Settled
  <2>1. outs' = outs /\ ~changed
    BY <1>1, <1>2 DEF RoundOK
  <2>2. OutSet(l)' = OutSet(l)
    BY <1>1, <2>1, SameBlocks DEF OutSet, InSet, Predecessors
  <2>3. Len(source.blocks) \in Nat
    BY <1>2, ProgramShape DEF BlocksOK
  <2>4. l < turn \/ l = turn
    BY <1>2, <1>3, <2>3 DEF BlocksOK, RoundOK
  <2>5. CASE l < turn
    BY <1>2, <2>1, <2>2, <2>5 DEF Settled
  <2>6. CASE l = turn
    BY <1>1, <1>2, <1>3, <2>1, <2>2, <2>6 DEF RoundOK
  <2> QED
    BY <2>4, <2>5, <2>6
<1>6. Justified'
  <2> SUFFICES ASSUME NEW l \in DOMAIN blocks, NEW n \in Declared, n \notin outs'[l]
               PROVE  /\ n \notin Names(source.params) /\ n \notin Stores(blocks[l].code)
                      /\ l \in Reached(blocks, Bypassed(n))
    BY <1>1, SameBlocks DEF Justified
  <2>1. CASE n \notin outs[l]
    BY <1>2, <2>1 DEF Justified
  <2>2. CASE n \in outs[l]
    <3>1. l = turn /\ l \in ReachableBlocks(blocks) /\ outs'[l] = OutSet(l)
      BY <1>1, <1>2, <2>2 DEF RoundOK
    <3>2. n \notin InSet(l) /\ n \notin Stores(blocks[l].code)
      BY <3>1 DEF OutSet
    <3> QED
      BY <1>2, <3>1, <3>2, MissingJustified
  <2> QED
    BY <2>1, <2>2
<1> QED
  BY <1>1, <1>2, <1>4, <1>5, <1>6, SameBlocks DEF FlowInv, FlowExact

\* Another round.
LEMMA AgainKeeps == FlowInv /\ Again => FlowInv'
<1> SUFFICES ASSUME FlowInv, Again PROVE FlowInv'
  OBVIOUS
<1>1. UNCHANGED <<source, blocks, stage, outs>> /\ stage = "flow" /\ turn' = Entry /\ changed' = FALSE
  BY DEF Again
<1>2. BlocksOK /\ LoadsDeclared /\ RoundOK /\ Justified
  BY <1>1 DEF FlowInv
<1>3. RoundOK' /\ Justified'
  BY <1>1, <1>2, SameBlocks DEF RoundOK, Justified, Entry
<1>4. Settled'
  <2> SUFFICES ASSUME NEW l \in ReachableBlocks(blocks), l < Entry
               PROVE  FALSE
    BY <1>1, SameBlocks DEF Settled
  <2>1. l \in DOMAIN blocks /\ Len(source.blocks) \in Nat
    BY <1>2, ProgramShape DEF ReachableBlocks, Reached, BlocksOK
  <2> QED
    BY <1>2, <2>1 DEF BlocksOK, Entry
<1> QED
  BY <1>1, <1>2, <1>3, <1>4, SameBlocks DEF FlowInv, FlowExact

\* The verdict.
LEMMA SettleKeeps == FlowInv /\ Settle => FlowInv'
<1> SUFFICES ASSUME FlowInv, Settle PROVE FlowInv'
  OBVIOUS
<1>1. UNCHANGED <<source, blocks, outs, turn, changed>> /\ stage = "flow" /\ turn = RoundEnd /\ ~changed
  BY DEF Settle, flow
<1>2. BlocksOK /\ LoadsDeclared /\ RoundOK /\ Settled /\ Justified
  BY <1>1 DEF FlowInv
<1>3. stage' = IF Exposed THEN "rejected" ELSE "valid"
  BY <1>1, <1>2, SettleExact DEF Settle
<1>4. FlowExact'
  BY <1>1, <1>3, SameBlocks DEF FlowExact
<1> QED
  BY <1>1, <1>2, <1>3, <1>4, SameBlocks DEF FlowInv

\* Optimize leaves the entry, and blocks of what was read.
LEMMA OptimizeKeeps == FlowInv /\ Optimize => FlowInv'
<1> SUFFICES ASSUME FlowInv, Optimize PROVE FlowInv'
  OBVIOUS
<1> DEFINE bs == [l \in DOMAIN blocks |-> [code |-> InlineCalls.codes[l], term |-> Fold(blocks[l].term)]]
<1>1. blocks' = PruneUnreachable(bs) /\ source' = source /\ stage' = "optimized"
  BY DEF Optimize
<1>2. DOMAIN blocks' = ReachableBlocks(bs)
  BY <1>1 DEF PruneUnreachable, Restrict
<1>3. Entry \in ReachableBlocks(bs) /\ ReachableBlocks(bs) \subseteq DOMAIN blocks
  <2>1. DOMAIN bs = DOMAIN blocks
    OBVIOUS
  <2>2. Entry \in DOMAIN bs
    BY <2>1 DEF FlowInv, BlocksOK
  <2> HIDE DEF bs
  <2>3. Entry \in ReachableBlocks(bs)
    BY <2>2, EntryReached DEF ReachableBlocks
  <2> QED
    BY <2>1, <2>3 DEF ReachableBlocks, Reached
<1> HIDE DEF bs
<1>4. BlocksOK'
  BY <1>1, <1>2, <1>3 DEF FlowInv, BlocksOK
<1> QED
  BY <1>1, <1>4 DEF FlowInv, FlowExact

\* The run is of no concern.
LEMMA RunKeeps == FlowInv /\ (Start \/ RunBlock) => FlowInv'
<1> SUFFICES ASSUME FlowInv, Start \/ RunBlock PROVE FlowInv'
  OBVIOUS
<1>1. UNCHANGED <<source, blocks>> /\ stage' \in {"run", "ended"}
  BY DEF Start, RunBlock
<1> QED
  BY <1>1, SameBlocks DEF FlowInv, FlowExact

\* Every step keeps the invariant.
LEMMA FlowStep == FlowInv /\ [IRNext]_irVars => FlowInv'
<1> SUFFICES ASSUME FlowInv, [IRNext]_irVars PROVE FlowInv'
  OBVIOUS
<1>1. CASE UNCHANGED irVars
  <2>1. UNCHANGED <<source, blocks, stage, outs, turn, changed>>
    BY <1>1 DEF irVars, flow
  <2>2. RoundOK' = RoundOK /\ Justified' = Justified
    BY <2>1, SameBlocks DEF RoundOK, Justified
  <2>3. Settled' = Settled
    BY <2>1, SameBlocks DEF Settled, OutSet, InSet, Predecessors
  <2> QED
    BY <2>1, <2>2, <2>3, SameBlocks DEF FlowInv, FlowExact
<1> QED
  BY <1>1, CheckKeeps, VisitKeeps, AgainKeeps, SettleKeeps, OptimizeKeeps, RunKeeps DEF IRNext

\* validateDefiniteAssignment accepts a function exactly if no path from the entry comes to a load
\* without a store of its name, for functions of any shape and size.
THEOREM FlowIsExact == IRSpec => []FlowExact
<1>1. FlowInv => FlowExact
  BY DEF FlowInv
<1> QED
  BY <1>1, FlowInit, FlowStep, PTL DEF IRSpec

----------------------------------------------------------------------------
(* Induction over numbers, and sequences.                                  *)

\* A sequence is indexed from 1 to its length.
LEMMA SequenceShape ==
  ASSUME NEW s, IsSequence(s)
  PROVE  Len(s) \in Nat /\ DOMAIN s = 1 .. Len(s)
BY LenProperties DEF IsSequence

\* A sequence of anything is one of its own elements.
LEMMA IntoSequence ==
  ASSUME NEW S, NEW s \in Seq(S)
  PROVE  IsSequence(s)
<1>1. Len(s) \in Nat /\ s \in [1 .. Len(s) -> S]
  BY LenProperties
<1>2. \A i \in 1 .. Len(s) : s[i] \in Elements(s)
  BY <1>1 DEF Elements
<1>3. s \in [1 .. Len(s) -> Elements(s)]
  BY <1>1, <1>2
<1> QED
  BY <1>1, <1>3 DEF IsSequence

\* Nothing is a sequence.
LEMMA EmptySequence == IsSequence(<<>>) /\ Len(<<>>) = 0
<1>1. <<>> \in Seq({}) /\ Len(<<>>) = 0
  BY EmptySeq
<1> QED
  BY <1>1, IntoSequence

\* One element more.
LEMMA AppendSequence ==
  ASSUME NEW s, IsSequence(s), NEW e
  PROVE  /\ IsSequence(Append(s, e)) /\ Len(Append(s, e)) = Len(s) + 1
         /\ \A i \in 1 .. Len(s) : Append(s, e)[i] = s[i]
         /\ Append(s, e)[Len(s) + 1] = e
<1> DEFINE U == Elements(s) \cup {e}
<1>1. s \in Seq(U) /\ e \in U
  BY SeqMonotonic DEF IsSequence
<1> HIDE DEF U
<1>2. Append(s, e) \in Seq(U) /\ Len(Append(s, e)) = Len(s) + 1
      /\ (\A i \in 1 .. Len(s) : Append(s, e)[i] = s[i])
      /\ Append(s, e)[Len(s) + 1] = e
  BY <1>1
<1> QED
  BY <1>2, IntoSequence

\* One sequence behind another.
LEMMA ConcatSequence ==
  ASSUME NEW s, IsSequence(s), NEW t, IsSequence(t)
  PROVE  /\ IsSequence(s \o t) /\ Len(s \o t) = Len(s) + Len(t)
         /\ \A i \in 1 .. Len(s) : (s \o t)[i] = s[i]
         /\ \A i \in 1 .. Len(t) : (s \o t)[Len(s) + i] = t[i]
<1> DEFINE U == Elements(s) \cup Elements(t)
<1>1. s \in Seq(U) /\ t \in Seq(U) /\ Len(s) \in Nat /\ Len(t) \in Nat
  BY SeqMonotonic, SequenceShape DEF IsSequence
<1> HIDE DEF U
<1>2. /\ s \o t \in Seq(U) /\ Len(s \o t) = Len(s) + Len(t)
      /\ \A i \in 1 .. Len(s) + Len(t) : (s \o t)[i] = IF i <= Len(s) THEN s[i] ELSE t[i - Len(s)]
  BY <1>1, ConcatProperties
<1>3. ASSUME NEW i \in 1 .. Len(t) PROVE (s \o t)[Len(s) + i] = t[i]
  <2>1. Len(s) + i \in 1 .. Len(s) + Len(t) /\ ~(Len(s) + i <= Len(s)) /\ Len(s) + i - Len(s) = i
    BY <1>1
  <2> QED
    BY <1>2, <2>1
<1>4. \A i \in 1 .. Len(s) : (s \o t)[i] = s[i]
  BY <1>1, <1>2
<1>5. IsSequence(s \o t)
  BY <1>2, IntoSequence
<1> QED
  BY <1>2, <1>3, <1>4, <1>5

\* A function on 1 .. n is a sequence.
LEMMA ListSequence ==
  ASSUME NEW n \in Nat, NEW s, s = [i \in 1 .. n |-> s[i]]
  PROVE  IsSequence(s) /\ Len(s) = n
<1> DEFINE U == Elements(s)
<1>1. \A i \in 1 .. n : s[i] \in U
  BY DEF Elements
<1> HIDE DEF U
<1>2. s \in [1 .. n -> U]
  BY <1>1
<1>3. s \in Seq(U)
  BY <1>2
<1>4. Len(s) = n
  BY <1>2
<1> QED
  BY <1>3, <1>4, IntoSequence

\* Everything that holds at 0 and is passed on holds of every number (induction over a set).
LEMMA Inductive ==
  ASSUME NEW S, 0 \in S, \A n \in Nat : n \in S => n + 1 \in S
  PROVE  Nat \subseteq S
<1> SUFFICES ASSUME Nat \ S # {} PROVE FALSE
  OBVIOUS
<1>1. PICK n \in Nat \ S : \A m \in Nat \ S : <<m, n>> \notin OpToRel(<, Nat)
  BY NatLessThanWellFounded, WFMin, Zenon
<1>2. n # 0 /\ n - 1 \in Nat /\ n - 1 \in S
  <2>1. n - 1 \in Nat /\ n - 1 < n
    OBVIOUS
  <2> QED
    BY <1>1, <2>1 DEF OpToRel
<1> QED
  BY <1>2

\* A frame after each instruction of a callee is what the instruction makes of the one before.
LEMMA CalledStep ==
  ASSUME NEW fr, NEW code, IsSequence(code)
  PROVE  /\ Called(fr, code)[0] = fr
         /\ \A n \in 1 .. Len(code) : Called(fr, code)[n] = Simple(Called(fr, code)[n - 1], code[n])
<1> DEFINE N == Len(code)
           Runs(g, k) == g = [n \in 0 .. k |-> IF n = 0 THEN fr ELSE Simple(g[n - 1], code[n])]
           S == {k \in Nat : \E g : Runs(g, k)}
<1>1. N \in Nat
  BY LenProperties DEF IsSequence
<1> HIDE DEF N
<1>2. 0 \in S
  <2>1. Runs([n \in 0 .. 0 |-> fr], 0)
    <3>1. \A n \in 0 .. 0 : n = 0
      OBVIOUS
    <3> QED
      BY <3>1
  <2> QED
    BY <2>1
<1>3. ASSUME NEW k \in Nat, k \in S PROVE k + 1 \in S
  <2>1. PICK g : Runs(g, k)
    BY <1>3
  <2> DEFINE h == [n \in 0 .. k + 1 |-> IF n = k + 1 THEN Simple(g[k], code[k + 1]) ELSE g[n]]
  <2>2. Runs(h, k + 1)
    <3> SUFFICES ASSUME NEW n \in 0 .. k + 1
                 PROVE  h[n] = IF n = 0 THEN fr ELSE Simple(h[n - 1], code[n])
      OBVIOUS
    <3>1. CASE n = 0
      BY <2>1, <3>1
    <3>2. CASE n = k + 1
      BY <2>1, <3>2
    <3>3. CASE n # 0 /\ n # k + 1
      <4>1. n \in 0 .. k /\ n - 1 \in 0 .. k /\ n - 1 # k + 1
        BY <3>3
      <4>2. g[n] = Simple(g[n - 1], code[n])
        BY <2>1, <3>3, <4>1
      <4> QED
        BY <3>3, <4>1, <4>2
    <3> QED
      BY <3>1, <3>2, <3>3
  <2> HIDE DEF h
  <2> QED
    BY <2>2
<1>4. N \in S
  <2> HIDE DEF S
  <2> QED
    BY <1>1, <1>2, <1>3, Inductive
<1>5. PICK g : Runs(g, N)
  BY <1>4
<1>6. Called(fr, code) = CHOOSE x : Runs(x, N)
  BY DEF Called, N
<1>7. Runs(Called(fr, code), N)
  <2> HIDE DEF Runs
  <2> QED
    BY <1>5, <1>6
<1> QED
  BY <1>1, <1>7 DEF N
\* A frame after each instruction of a block is what the instruction makes of the one before.
LEMMA ExecutedStep ==
  ASSUME NEW fr, NEW code, IsSequence(code)
  PROVE  /\ Executed(fr, code)[0] = fr
         /\ \A n \in 1 .. Len(code) : Executed(fr, code)[n] = ExecInstr(Executed(fr, code)[n - 1], code[n])
<1> DEFINE N == Len(code)
           Runs(g, k) == g = [n \in 0 .. k |-> IF n = 0 THEN fr ELSE ExecInstr(g[n - 1], code[n])]
           S == {k \in Nat : \E g : Runs(g, k)}
<1>1. N \in Nat
  BY LenProperties DEF IsSequence
<1> HIDE DEF N
<1>2. 0 \in S
  <2>1. Runs([n \in 0 .. 0 |-> fr], 0)
    <3>1. \A n \in 0 .. 0 : n = 0
      OBVIOUS
    <3> QED
      BY <3>1
  <2> QED
    BY <2>1
<1>3. ASSUME NEW k \in Nat, k \in S PROVE k + 1 \in S
  <2>1. PICK g : Runs(g, k)
    BY <1>3
  <2> DEFINE h == [n \in 0 .. k + 1 |-> IF n = k + 1 THEN ExecInstr(g[k], code[k + 1]) ELSE g[n]]
  <2>2. Runs(h, k + 1)
    <3> SUFFICES ASSUME NEW n \in 0 .. k + 1
                 PROVE  h[n] = IF n = 0 THEN fr ELSE ExecInstr(h[n - 1], code[n])
      OBVIOUS
    <3>1. CASE n = 0
      BY <2>1, <3>1
    <3>2. CASE n = k + 1
      BY <2>1, <3>2
    <3>3. CASE n # 0 /\ n # k + 1
      <4>1. n \in 0 .. k /\ n - 1 \in 0 .. k /\ n - 1 # k + 1
        BY <3>3
      <4>2. g[n] = ExecInstr(g[n - 1], code[n])
        BY <2>1, <3>3, <4>1
      <4> QED
        BY <3>3, <4>1, <4>2
    <3> QED
      BY <3>1, <3>2, <3>3
  <2> HIDE DEF h
  <2> QED
    BY <2>2
<1>4. N \in S
  <2> HIDE DEF S
  <2> QED
    BY <1>1, <1>2, <1>3, Inductive
<1>5. PICK g : Runs(g, N)
  BY <1>4
<1>6. Executed(fr, code) = CHOOSE x : Runs(x, N)
  BY DEF Executed, N
<1>7. Runs(Executed(fr, code), N)
  <2> HIDE DEF Runs
  <2> QED
    BY <1>5, <1>6
<1> QED
  BY <1>1, <1>7 DEF N

----------------------------------------------------------------------------
(* Code that stores what it loads.                                         *)

StoredBefore(code, n) == {code[k].name : k \in {j \in DOMAIN code : j < n /\ code[j].op = "store"}}
ReadsStored(code, names) ==
  \A i \in DOMAIN code : code[i].op = "load" => code[i].name \in names \cup StoredBefore(code, i)
Fields == {"temps", "vars", "out", "bad", "at"}
Sound(fr) == DOMAIN fr = Fields /\ fr.bad = FALSE /\ IsSequence(fr.out)

\* Misuses and Stores in terms of positions.
LEMMA StoresBefore ==
  ASSUME NEW code, IsSequence(code), NEW i \in DOMAIN code
  PROVE  Stores(SubSeq(code, 1, i - 1)) = StoredBefore(code, i)
<1> DEFINE sub == SubSeq(code, 1, i - 1)
<1>1. code \in Seq(Elements(code)) /\ DOMAIN code = 1 .. Len(code) /\ Len(code) \in Nat
  BY LenProperties DEF IsSequence
<1>2. \A j \in 1 .. i - 1 : code[j] \in Elements(code)
  BY <1>1 DEF Elements
<1>3. /\ sub \in Seq(Elements(code))
      /\ Len(sub) = i - 1
      /\ \A j \in 1 .. i - 1 : sub[j] = code[j]
  <2>1. /\ sub \in Seq(Elements(code))
        /\ Len(sub) = IF 1 <= i - 1 THEN i - 1 - 1 + 1 ELSE 0
        /\ \A j \in 1 .. i - 1 - 1 + 1 : sub[j] = code[1 + j - 1]
    BY <1>1, <1>2, SubSeqProperties
  <2> QED
    BY <1>1, <2>1
<1>4. DOMAIN sub = 1 .. i - 1
  BY <1>3, LenProperties
<1> HIDE DEF sub
<1>5. DOMAIN sub = {j \in DOMAIN code : j < i}
  BY <1>1, <1>4
<1>6. Elements(sub) = {code[j] : j \in {k \in DOMAIN code : k < i}}
  BY <1>1, <1>3, <1>4, <1>5 DEF Elements
<1>7. Stores(sub) = StoredBefore(code, i)
  BY <1>6 DEF Stores, StoredBefore
<1> QED
  BY <1>7 DEF sub

\* What code stores is stored before its end.
LEMMA StoresAll ==
  ASSUME NEW code, IsSequence(code)
  PROVE  Stores(code) = StoredBefore(code, Len(code) + 1)
<1>1. DOMAIN code = 1 .. Len(code) /\ Len(code) \in Nat
  BY LenProperties DEF IsSequence
<1>2. DOMAIN code = {j \in DOMAIN code : j < Len(code) + 1}
  BY <1>1
<1> QED
  BY <1>2 DEF Stores, StoredBefore, Elements

\* What is stored before one instruction and before the next.
LEMMA StoredStep ==
  ASSUME NEW code, IsSequence(code)
  PROVE  /\ StoredBefore(code, 1) = {}
         /\ \A n \in 1 .. Len(code) :
              StoredBefore(code, n + 1)
                = StoredBefore(code, n) \cup IF code[n].op = "store" THEN {code[n].name} ELSE {}
<1>1. DOMAIN code = 1 .. Len(code) /\ Len(code) \in Nat
  BY LenProperties DEF IsSequence
<1>2. ASSUME NEW n \in 1 .. Len(code)
      PROVE  {j \in DOMAIN code : j < n + 1 /\ code[j].op = "store"}
               = {j \in DOMAIN code : j < n /\ code[j].op = "store"}
                   \cup IF code[n].op = "store" THEN {n} ELSE {}
  BY <1>1
<1>3. {j \in DOMAIN code : j < 1 /\ code[j].op = "store"} = {}
  BY <1>1
<1> QED
  BY <1>2, <1>3 DEF StoredBefore

\* An instruction that loads what has been stored, if anything, fails nothing (execInstr).
LEMMA SimpleSafe ==
  ASSUME NEW fr, NEW c, Sound(fr), c.op = "load" => c.name \in DOMAIN fr.vars
  PROVE  /\ Sound(Simple(fr, c)) /\ Simple(fr, c).at = fr.at
         /\ DOMAIN Simple(fr, c).vars = DOMAIN fr.vars \cup IF c.op = "store" THEN {c.name} ELSE {}
<1>1. \A n, v : /\ Sound(SetTemp(fr, n, v)) /\ SetTemp(fr, n, v).at = fr.at
                /\ SetTemp(fr, n, v).vars = fr.vars
  BY DEF SetTemp, Sound, Fields
<1> DEFINE vs == Values(fr, c.args)
<1>2. CASE c.op = "store"
  <2>1. Simple(fr, c) = [fr EXCEPT !.vars = WithVar(@, c.name, vs[1])]
    BY <1>2 DEF Simple
  <2>2. DOMAIN WithVar(fr.vars, c.name, vs[1]) = DOMAIN fr.vars \cup {c.name}
    BY DEF WithVar
  <2>3. \A f : /\ Sound([fr EXCEPT !.vars = f]) /\ [fr EXCEPT !.vars = f].at = fr.at
               /\ [fr EXCEPT !.vars = f].vars = f
    BY DEF Sound, Fields
  <2> QED
    BY <1>2, <2>1, <2>2, <2>3
<1>3. CASE c.op = "load"
  <2>1. Simple(fr, c) = SetTemp(fr, c.dst, fr.vars[c.name])
    BY <1>3 DEF Simple
  <2> QED
    BY <1>1, <1>3, <2>1
<1>4. CASE c.op = "ext"
  <2> DEFINE s == SetTemp(fr, c.dst, Mix(vs))
  <2>1. Simple(fr, c) = [s EXCEPT !.out = Append(@, vs)]
    BY <1>4 DEF Simple
  <2>2. Sound(s) /\ s.at = fr.at /\ s.vars = fr.vars
    BY <1>1
  <2> HIDE DEF s
  <2>3. \A o : IsSequence(o) => /\ Sound([s EXCEPT !.out = o]) /\ [s EXCEPT !.out = o].at = s.at
                               /\ [s EXCEPT !.out = o].vars = s.vars
    BY <2>2 DEF Sound, Fields
  <2>4. IsSequence(Append(s.out, vs))
    BY <2>2, AppendSequence DEF Sound
  <2>5. [s EXCEPT !.out = Append(@, vs)] = [s EXCEPT !.out = Append(s.out, vs)]
    OBVIOUS
  <2> QED
    BY <1>4, <2>1, <2>2, <2>3, <2>4, <2>5
<1>5. CASE c.op \notin {"store", "load", "ext"}
  <2>1. Simple(fr, c) = SetTemp(fr, c.dst, Mix(vs))
    BY <1>5 DEF Simple
  <2> QED
    BY <1>1, <1>5, <2>1
<1> QED
  BY <1>2, <1>3, <1>4, <1>5

\* A callee that loads nothing but what it has stored runs to its end.
LEMMA CalledSafe ==
  ASSUME NEW fr, NEW code, IsSequence(code), Sound(fr), ReadsStored(code, DOMAIN fr.vars)
  PROVE  \A n \in 0 .. Len(code) :
           LET after == Called(fr, code)
           IN  /\ Sound(after[n])
               /\ DOMAIN after[n].vars = DOMAIN fr.vars \cup StoredBefore(code, n + 1)
<1> DEFINE after == Called(fr, code)
           S == {n \in Nat : n <= Len(code) =>
                   Sound(after[n]) /\ DOMAIN after[n].vars = DOMAIN fr.vars \cup StoredBefore(code, n + 1)}
<1>1. DOMAIN code = 1 .. Len(code) /\ Len(code) \in Nat
  BY LenProperties DEF IsSequence
<1>2. 0 \in S
  BY CalledStep, StoredStep
<1>3. ASSUME NEW n \in Nat, n \in S, n + 1 <= Len(code)
      PROVE  /\ Sound(after[n + 1])
             /\ DOMAIN after[n + 1].vars = DOMAIN fr.vars \cup StoredBefore(code, n + 1 + 1)
  <2>1. n <= Len(code) /\ n + 1 \in 1 .. Len(code) /\ n + 1 - 1 = n
    BY <1>1, <1>3
  <2>2. Sound(after[n]) /\ DOMAIN after[n].vars = DOMAIN fr.vars \cup StoredBefore(code, n + 1)
    BY <1>3, <2>1
  <2>3. after[n + 1] = Simple(after[n], code[n + 1])
    BY <2>1, CalledStep
  <2> HIDE DEF after
  <2>4. code[n + 1].op = "load" => code[n + 1].name \in DOMAIN after[n].vars
    BY <1>1, <2>1, <2>2 DEF ReadsStored
  <2>5. StoredBefore(code, n + 1 + 1)
          = StoredBefore(code, n + 1) \cup IF code[n + 1].op = "store" THEN {code[n + 1].name} ELSE {}
    BY <2>1, StoredStep
  <2> QED
    BY <2>2, <2>3, <2>4, <2>5, SimpleSafe
<1>4. \A n \in Nat : n \in S => n + 1 \in S
  BY <1>3
<1>5. Nat \subseteq S
  <2> HIDE DEF S
  <2> QED
    BY <1>2, <1>4, Inductive
<1>6. \A n \in 0 .. Len(code) : n \in S /\ n \in Nat /\ n <= Len(code)
  BY <1>1, <1>5
<1> QED
  BY <1>6

\* The callee as ValidCallee knows it runs to its end on whatever arguments.
LEMMA CalleeSafe ==
  ASSUME source \in Programs, ValidCallee(source.callee), NEW vs
  PROVE  LET f == source.callee
             after == Called(Frame(f.params, f.temps, vs), f.code)
         IN  \A n \in 0 .. Len(f.code) :
               /\ Sound(after[n])
               /\ DOMAIN after[n].vars = Names(f.params) \cup StoredBefore(f.code, n + 1)
<1> DEFINE f == source.callee
           fr == Frame(f.params, f.temps, vs)
<1>1. IsSequence(f.code)
  BY ProgramsAssumption DEF ProgramsAssumption, Readable
<1>2. Sound(fr) /\ DOMAIN fr.vars = Names(f.params)
  BY EmptySequence DEF Frame, Sound, Fields
<1>3. ~Misuses(f.code, Names(f.params))
  BY DEF ValidCallee
<1> HIDE DEF fr, f
<1>4. ReadsStored(f.code, DOMAIN fr.vars)
  BY <1>1, <1>2, <1>3, StoresBefore DEF Misuses, ReadsStored
<1>5. \A n \in 0 .. Len(f.code) :
        /\ Sound(Called(fr, f.code)[n])
        /\ DOMAIN Called(fr, f.code)[n].vars = Names(f.params) \cup StoredBefore(f.code, n + 1)
  BY <1>1, <1>2, <1>4, CalledSafe
<1> QED
  BY <1>5 DEF f, fr

\* And so is a call (callFunction).
LEMMA ExecSafe ==
  ASSUME source \in Programs, ValidCallee(source.callee),
         NEW fr, NEW c, Sound(fr), c.op = "load" => c.name \in DOMAIN fr.vars
  PROVE  /\ Sound(ExecInstr(fr, c)) /\ ExecInstr(fr, c).at = fr.at
         /\ DOMAIN ExecInstr(fr, c).vars = DOMAIN fr.vars \cup IF c.op = "store" THEN {c.name} ELSE {}
<1>1. CASE c.op # "call"
  BY <1>1, SimpleSafe DEF ExecInstr
<1>2. CASE c.op = "call"
  <2> DEFINE f == source.callee
             inner == Called(Frame(f.params, f.temps, Values(fr, c.args)), f.code)[Len(f.code)]
             s == SetTemp(fr, c.dst, ValueOf(inner, f.ret))
  <2>1. ExecInstr(fr, c) = [s EXCEPT !.out = @ \o inner.out, !.bad = @ \/ inner.bad]
    BY <1>2 DEF ExecInstr
  <2>2. inner.bad = FALSE /\ IsSequence(inner.out)
    <3>1. IsSequence(f.code)
      BY ProgramsAssumption DEF ProgramsAssumption, Readable
    <3>2. Len(f.code) \in 0 .. Len(f.code)
      BY <3>1, SequenceShape
    <3> QED
      BY <3>2, CalleeSafe DEF Sound
  <2>3. Sound(s) /\ s.at = fr.at /\ s.vars = fr.vars
    BY DEF SetTemp, Sound, Fields
  <2> HIDE DEF s, inner
  <2> DEFINE e == [s EXCEPT !.out = @ \o inner.out, !.bad = @ \/ inner.bad]
  <2>4. DOMAIN e = Fields /\ e.at = s.at /\ e.vars = s.vars
    BY <2>3 DEF Sound, Fields
  <2>5. e.bad = (s.bad \/ inner.bad)
    BY <2>3 DEF Sound, Fields
  <2>6. e.bad = FALSE
    BY <2>2, <2>3, <2>5 DEF Sound
  <2>7. e.out = s.out \o inner.out
    BY <2>3 DEF Sound, Fields
  <2>8. IsSequence(e.out)
    BY <2>2, <2>3, <2>7, ConcatSequence DEF Sound
  <2> QED
    BY <1>2, <2>1, <2>3, <2>4, <2>6, <2>8 DEF Sound
<1> QED
  BY <1>1, <1>2

\* A block does no wrong if it loads only what was stored before or in it, and leaves behind what
\* was there and what it stores.
LEMMA ExecutedSafe ==
  ASSUME source \in Programs, ValidCallee(source.callee),
         NEW fr, NEW code, IsSequence(code), Sound(fr), ReadsStored(code, DOMAIN fr.vars)
  PROVE  \A n \in 0 .. Len(code) :
           LET after == Executed(fr, code)
           IN  /\ Sound(after[n]) /\ after[n].at = fr.at
               /\ DOMAIN after[n].vars = DOMAIN fr.vars \cup StoredBefore(code, n + 1)
<1> DEFINE after == Executed(fr, code)
           S == {n \in Nat : n <= Len(code) =>
                   /\ Sound(after[n]) /\ after[n].at = fr.at
                   /\ DOMAIN after[n].vars = DOMAIN fr.vars \cup StoredBefore(code, n + 1)}
<1>1. DOMAIN code = 1 .. Len(code) /\ Len(code) \in Nat
  BY LenProperties DEF IsSequence
<1>2. 0 \in S
  BY ExecutedStep, StoredStep
<1>3. ASSUME NEW n \in Nat, n \in S, n + 1 <= Len(code)
      PROVE  /\ Sound(after[n + 1]) /\ after[n + 1].at = fr.at
             /\ DOMAIN after[n + 1].vars = DOMAIN fr.vars \cup StoredBefore(code, n + 1 + 1)
  <2>1. n <= Len(code) /\ n + 1 \in 1 .. Len(code) /\ n + 1 - 1 = n
    BY <1>1, <1>3
  <2>2. /\ Sound(after[n]) /\ after[n].at = fr.at
        /\ DOMAIN after[n].vars = DOMAIN fr.vars \cup StoredBefore(code, n + 1)
    BY <1>3, <2>1
  <2>3. after[n + 1] = ExecInstr(after[n], code[n + 1])
    BY <2>1, ExecutedStep
  <2> HIDE DEF after
  <2>4. code[n + 1].op = "load" => code[n + 1].name \in DOMAIN after[n].vars
    BY <1>1, <2>1, <2>2 DEF ReadsStored
  <2>5. StoredBefore(code, n + 1 + 1)
          = StoredBefore(code, n + 1) \cup IF code[n + 1].op = "store" THEN {code[n + 1].name} ELSE {}
    BY <2>1, StoredStep
  <2> QED
    BY <2>2, <2>3, <2>4, <2>5, ExecSafe
<1>4. \A n \in Nat : n \in S => n + 1 \in S
  BY <1>3
<1>5. Nat \subseteq S
  <2> HIDE DEF S
  <2> QED
    BY <1>2, <1>4, Inductive
<1>6. \A n \in 0 .. Len(code) : n \in S /\ n \in Nat /\ n <= Len(code)
  BY <1>1, <1>5
<1> QED
  BY <1>6

----------------------------------------------------------------------------
(* A program that was accepted, whether as it was read or as it is now.    *)

NamesOf(bs) == Names(source.params) \cup UNION {Stores(bs[l].code) : l \in DOMAIN bs}
PastStores(bs, n) == {l \in DOMAIN bs : n \notin Stores(bs[l].code)}
ValidBlocks(bs, k) ==
  \A l \in DOMAIN bs :
    /\ IsSequence(bs[l].code)
    /\ \A i \in DOMAIN bs[l].code : ValidInstr(bs[l].code[i], k, NamesOf(bs))
    /\ Targets(bs[l].term) \subseteq DOMAIN bs
    /\ bs[l].term.op = "branch" => ValidTemp(bs[l].term.cond, k)
    /\ bs[l].term.op = "return" => ValidTemp(bs[l].term.val, k)
Unexposed(bs) ==
  \A n \in NamesOf(bs) \ Names(source.params) :
    \A l \in Reached(bs, PastStores(bs, n)) :
      \A i \in DOMAIN bs[l].code :
        bs[l].code[i].op = "load" /\ bs[l].code[i].name = n => n \in StoredBefore(bs[l].code, i)
Accepted(bs, k) == Entry \in DOMAIN bs /\ 0 \notin DOMAIN bs /\ ValidBlocks(bs, k) /\ Unexposed(bs)

\* What is not in a frame at a block may be missing: a path comes to the block without a store.
Running(fr, bs) ==
  /\ Sound(fr)
  /\ fr.at \in DOMAIN bs =>
       /\ Names(source.params) \subseteq DOMAIN fr.vars
       /\ \A n \in NamesOf(bs) \ DOMAIN fr.vars : fr.at \in Reached(bs, PastStores(bs, n))
  /\ fr.at \in DOMAIN bs \cup {0}

\* Every step of an accepted program keeps its frame so (execFrame).
LEMMA StepKeeps ==
  ASSUME source \in Programs, ValidCallee(source.callee), NEW bs, NEW k, Accepted(bs, k),
         NEW fr, Running(fr, bs), fr.at \in DOMAIN bs
  PROVE  Running(Step(fr, bs), bs)
<1> DEFINE code == bs[fr.at].code
           fr0 == [fr EXCEPT !.out = <<>>]
           done == ExecBlock(fr, bs)
           t == bs[fr.at].term
           to == Goto(done, t)
           next == [done EXCEPT !.at = to]
<1>1. IsSequence(code) /\ Targets(t) \subseteq DOMAIN bs
  BY DEF Accepted, ValidBlocks
<1>2. Sound(fr0) /\ fr0.at = fr.at /\ fr0.vars = fr.vars
  BY EmptySequence DEF Running, Sound, Fields
<1>3. ReadsStored(code, DOMAIN fr.vars)
  <2> SUFFICES ASSUME NEW i \in DOMAIN code, code[i].op = "load", code[i].name \notin DOMAIN fr.vars
               PROVE  code[i].name \in StoredBefore(code, i)
    BY DEF ReadsStored
  <2>1. code[i].name \in NamesOf(bs)
    BY DEF Accepted, ValidBlocks, ValidInstr
  <2>2. code[i].name \notin Names(source.params) /\ fr.at \in Reached(bs, PastStores(bs, code[i].name))
    BY <2>1 DEF Running
  <2> QED
    BY <2>1, <2>2 DEF Accepted, Unexposed
<1>4. Sound(done) /\ done.at = fr.at /\ DOMAIN done.vars = DOMAIN fr.vars \cup Stores(code)
  <2> HIDE DEF fr0, code
  <2>1. done = Executed(fr0, code)[Len(code)]
    BY DEF ExecBlock, fr0, code
  <2> HIDE DEF done
  <2>2. Len(code) \in 0 .. Len(code) /\ Stores(code) = StoredBefore(code, Len(code) + 1)
    BY <1>1, SequenceShape, StoresAll
  <2> QED
    BY <1>1, <1>2, <1>3, <2>1, <2>2, ExecutedSafe
<1>5. Step(fr, bs) = next
  BY DEF Step
<1>6. to \in Targets(t) \cup {0}
  BY DEF Goto, Targets
<1> HIDE DEF done, to
<1>7. Sound(next) /\ next.at = to /\ next.vars = done.vars
  BY <1>4 DEF Sound, Fields
<1>8. ASSUME to \in DOMAIN bs, NEW n \in NamesOf(bs) \ DOMAIN next.vars
      PROVE  to \in Reached(bs, PastStores(bs, n))
  <2>1. n \notin DOMAIN fr.vars /\ n \notin Stores(code)
    BY <1>4, <1>7, <1>8
  <2>2. fr.at \in Reached(bs, PastStores(bs, n)) /\ fr.at \in PastStores(bs, n)
    BY <2>1, <1>8 DEF Running, PastStores
  <2>3. to \in Targets(t)
    BY <1>6, <1>8 DEF Accepted
  <2> QED
    BY <1>8, <2>2, <2>3, TargetReached
<1>9. Names(source.params) \subseteq DOMAIN next.vars
  BY <1>4, <1>7 DEF Running
<1> HIDE DEF next
<1>10. Running(next, bs)
  BY <1>1, <1>6, <1>7, <1>8, <1>9 DEF Running
<1> QED
  BY <1>5, <1>10

\* A frame begins with its parameters (callFunction).
LEMMA FrameRuns ==
  ASSUME NEW bs, NEW k, Accepted(bs, k), NEW n, NEW vs
  PROVE  Running(Frame(source.params, n, vs), bs)
<1> DEFINE fr == Frame(source.params, n, vs)
<1>1. Sound(fr) /\ fr.at = Entry /\ DOMAIN fr.vars = Names(source.params)
  BY EmptySequence DEF Frame, Sound, Fields
<1>2. \A m : Entry \in Reached(bs, PastStores(bs, m))
  BY EntryReached DEF Accepted
<1>3. fr.at \in DOMAIN bs
  BY <1>1 DEF Accepted
<1> HIDE DEF fr
<1>4. Running(fr, bs)
  BY <1>1, <1>2, <1>3 DEF Running
<1> QED
  BY <1>4 DEF fr

----------------------------------------------------------------------------
(* inlineCall.                                                             *)

\* What tempMap numbers the callee's temporaries with fits into what Used makes room for.
LEMMA CountBelow ==
  ASSUME NEW t \in Nat, NEW S, S \subseteq 0 .. t - 1
  PROVE  IsFiniteSet(S) /\ Cardinality(S) \in 0 .. t
<1>1. IsFiniteSet(0 .. t - 1) /\ Cardinality(0 .. t - 1) = t
  BY FS_Interval
<1>2. IsFiniteSet(S) /\ Cardinality(S) <= Cardinality(0 .. t - 1)
  BY <1>1, FS_Subset
<1>3. Cardinality(S) \in Nat
  BY <1>2, FS_CardinalityType
<1> QED
  BY <1>1, <1>2, <1>3

\* So every number that tempMap gives is below the TempCount that is left (inlineCall).
LEMMA TempsFit ==
  ASSUME NEW c, NEW f, f.temps \in Nat, f.ret = <<f.ret[1], f.ret[2]>>, ValidTemp(f.ret, f.temps),
         NEW base \in Nat, NEW next \in Nat, base <= next,
         c.dst \in 0 .. base - 1 \/ c.dst = NoDst,
         c.dst # NoDst => IsTemp(f.ret)
  PROVE  /\ \A t \in 0 .. f.temps - 1 : TempMap(c, f, next)[t] \in 0 .. next + Used(c, f) - 1
         /\ Used(c, f) \in Nat /\ f.temps <= next + Used(c, f)
<1>1. CASE c.dst = NoDst
  <2>1. Used(c, f) = f.temps
    BY <1>1 DEF Used
  <2>2. ASSUME NEW t \in 0 .. f.temps - 1
        PROVE  TempMap(c, f, next)[t] \in 0 .. next + f.temps - 1
    <3> DEFINE S == {u \in 0 .. t - 1 : ~(f.ret = Temp(u) /\ c.dst # NoDst)}
    <3>1. TempMap(c, f, next)[t] = next + Cardinality(S)
      BY <1>1 DEF TempMap
    <3>2. t \in Nat /\ S \subseteq 0 .. t - 1
      OBVIOUS
    <3> HIDE DEF S
    <3>3. Cardinality(S) \in 0 .. t
      BY <3>2, CountBelow
    <3> QED
      BY <3>1, <3>3
  <2> QED
    BY <2>1, <2>2
<1>2. CASE c.dst # NoDst
  <2> DEFINE r == f.ret[2]
  <2>1. f.ret = Temp(r) /\ r \in 0 .. f.temps - 1 /\ IsTemp(f.ret)
    BY <1>2 DEF IsTemp, ValidTemp, Temp
  <2>2. \A u : f.ret = Temp(u) <=> u = r
    BY <2>1 DEF Temp
  <2>3. Used(c, f) = f.temps - 1
    BY <1>2, <2>1 DEF Used
  <2> HIDE DEF r
  <2>4. ASSUME NEW t \in 0 .. f.temps - 1
        PROVE  TempMap(c, f, next)[t] \in 0 .. next + (f.temps - 1) - 1
    <3> DEFINE S == {u \in 0 .. t - 1 : ~(f.ret = Temp(u) /\ c.dst # NoDst)}
    <3>1. CASE t = r
      <4>1. TempMap(c, f, next)[t] = c.dst
        BY <1>2, <2>1, <3>1 DEF TempMap
      <4> QED
        BY <1>2, <2>1, <4>1
    <3>2. CASE t # r
      <4>1. TempMap(c, f, next)[t] = next + Cardinality(S)
        BY <2>2, <3>2 DEF TempMap
      <4>2. S = (0 .. t - 1) \ {r}
        BY <1>2, <2>2
      <4> HIDE DEF S
      <4>3. CASE t < r
        <5>1. Cardinality(S) \in 0 .. t
          BY <4>2, CountBelow
        <5> QED
          BY <2>1, <4>1, <4>3, <5>1
      <4>4. CASE r < t
        <5>1. IsFiniteSet(0 .. t - 1) /\ Cardinality(0 .. t - 1) = t
          <6>1. 0 \in Int /\ t - 1 \in Int /\ ~(0 > t - 1) /\ t - 1 - 0 + 1 = t
            BY <2>1, <4>4
          <6> DEFINE b == t - 1
          <6> HIDE DEF b
          <6>2. IsFiniteSet(0 .. b) /\ Cardinality(0 .. b) = IF 0 > b THEN 0 ELSE b - 0 + 1
            BY <6>1, FS_Interval DEF b
          <6> QED
            BY <6>1, <6>2 DEF b
        <5>2. r \in 0 .. t - 1
          BY <2>1, <4>4
        <5>3. Cardinality(S) = t - 1
          BY <4>2, <5>1, <5>2, FS_RemoveElement
        <5> QED
          BY <2>1, <4>1, <4>4, <5>3
      <4> QED
        BY <2>1, <3>2, <4>3, <4>4
    <3> QED
      BY <3>1, <3>2
  <2>5. f.temps - 1 \in Nat /\ base >= 1
    BY <1>2, <2>1 DEF NoDst
  <2> QED
    BY <2>3, <2>4, <2>5
<1> QED
  BY <1>1, <1>2

Fits(c, k) ==
  /\ c.dst \in 0 .. k - 1 \/ (c.dst = NoDst /\ c.op \in {"store", "call", "ext", "deep"})
  /\ \A a \in Elements(c.args) : ValidTemp(a, k)

\* Every load lies behind a store of its name.
Closes(code) == \A i \in DOMAIN code : code[i].op = "load" => code[i].name \in StoredBefore(code, i)

\* What inlining has made of the first n instructions: it has all their stores, and its loads lie
\* behind stores of their own or are loads of theirs, behind the stores that they lay behind.
Made(code, n, new, k) ==
  /\ IsSequence(new)
  /\ \A i \in DOMAIN new : Fits(new[i], k)
  /\ StoredBefore(code, n + 1) \subseteq Stores(new)
  /\ \A i \in DOMAIN new :
       new[i].op = "load" =>
         \/ new[i].name \in StoredBefore(new, i)
         \/ \E j \in 1 .. n : /\ code[j].op = "load" /\ code[j].name = new[i].name
                              /\ StoredBefore(code, j) \subseteq StoredBefore(new, i)

\* A greater TempCount does no harm.
LEMMA FitsMore ==
  ASSUME NEW c, NEW k \in Nat, NEW m \in Nat, k <= m, Fits(c, k)
  PROVE  Fits(c, m)
BY DEF Fits, ValidTemp

\* What is stored before an instruction is stored.
LEMMA StoredIn ==
  ASSUME NEW code, IsSequence(code)
  PROVE  \A i : StoredBefore(code, i) \subseteq Stores(code)
BY DEF StoredBefore, Stores, Elements

\* Stores of a sequence in a longer one that begins with it.
LEMMA StoredPrefix ==
  ASSUME NEW s, IsSequence(s), NEW t, IsSequence(t), Len(s) <= Len(t),
         \A i \in 1 .. Len(s) : t[i] = s[i]
  PROVE  /\ Stores(s) \subseteq Stores(t)
         /\ \A i \in 1 .. Len(s) : StoredBefore(s, i) = StoredBefore(t, i)
         /\ \A i \in Len(s) + 1 .. Len(t) : Stores(s) \subseteq StoredBefore(t, i)
<1>1. /\ DOMAIN s = 1 .. Len(s) /\ DOMAIN t = 1 .. Len(t) /\ Len(s) \in Nat /\ Len(t) \in Nat
  BY SequenceShape
<1>2. ASSUME NEW i \in 1 .. Len(s)
      PROVE  {j \in DOMAIN s : j < i /\ s[j].op = "store"} = {j \in DOMAIN t : j < i /\ t[j].op = "store"}
  BY <1>1
<1>3. ASSUME NEW i \in 1 .. Len(s)
      PROVE  StoredBefore(s, i) = StoredBefore(t, i)
  <2> DEFINE J == {j \in DOMAIN s : j < i /\ s[j].op = "store"}
  <2>1. \A j \in J : t[j] = s[j]
    BY <1>1
  <2>2. J = {j \in DOMAIN t : j < i /\ t[j].op = "store"}
    BY <1>2
  <2>3. StoredBefore(s, i) = {s[j].name : j \in J}
    BY DEF StoredBefore
  <2>4. StoredBefore(t, i) = {t[j].name : j \in J}
    BY <2>2 DEF StoredBefore
  <2> HIDE DEF J
  <2> QED
    BY <2>1, <2>3, <2>4
<1>4. ASSUME NEW n \in Stores(s), NEW i \in Len(s) + 1 .. Len(t) + 1
      PROVE  n \in StoredBefore(t, i)
  <2>1. PICK j \in 1 .. Len(s) : s[j].op = "store" /\ s[j].name = n
    BY <1>1 DEF Stores, Elements
  <2>2. j \in DOMAIN t /\ j < i /\ t[j].op = "store" /\ t[j].name = n
    BY <1>1, <2>1
  <2> QED
    BY <2>2 DEF StoredBefore
<1>5. \A i \in Len(s) + 1 .. Len(t) : Stores(s) \subseteq StoredBefore(t, i)
  BY <1>1, <1>4
<1>6. Stores(s) \subseteq Stores(t)
  <2>1. Len(t) + 1 \in Len(s) + 1 .. Len(t) + 1
    BY <1>1
  <2>2. Stores(s) \subseteq StoredBefore(t, Len(t) + 1)
    BY <1>4, <2>1
  <2> QED
    BY <2>2, StoresAll
<1> QED
  BY <1>3, <1>5, <1>6

\* Stores of a sequence in one that ends with it.
LEMMA StoredSuffix ==
  ASSUME NEW s, IsSequence(s), NEW t, IsSequence(t)
  PROVE  \A i \in 1 .. Len(t) : StoredBefore(t, i) \subseteq StoredBefore(s \o t, Len(s) + i)
<1>1. /\ DOMAIN t = 1 .. Len(t) /\ Len(s) \in Nat /\ Len(t) \in Nat
      /\ DOMAIN (s \o t) = 1 .. Len(s) + Len(t)
  BY SequenceShape, ConcatSequence
<1> SUFFICES ASSUME NEW i \in 1 .. Len(t), NEW n \in StoredBefore(t, i)
             PROVE  n \in StoredBefore(s \o t, Len(s) + i)
  OBVIOUS
<1>2. PICK j \in 1 .. Len(t) : j < i /\ t[j].op = "store" /\ t[j].name = n
  BY <1>1 DEF StoredBefore
<1>3. (s \o t)[Len(s) + j] = t[j]
  BY <1>2, ConcatSequence
<1>4. Len(s) + j \in DOMAIN (s \o t) /\ Len(s) + j < Len(s) + i
  BY <1>1, <1>2
<1> QED
  BY <1>2, <1>3, <1>4 DEF StoredBefore

\* An instruction that stays as it is.
LEMMA MadeAppend ==
  ASSUME NEW code, IsSequence(code), NEW n \in 1 .. Len(code), NEW s, NEW k \in Nat,
         Made(code, n - 1, s, k), Fits(code[n], k)
  PROVE  Made(code, n, Append(s, code[n]), k)
<1> DEFINE t == Append(s, code[n])
<1>1. /\ IsSequence(s) /\ IsSequence(t) /\ Len(t) = Len(s) + 1 /\ Len(s) \in Nat
      /\ DOMAIN s = 1 .. Len(s) /\ DOMAIN t = 1 .. Len(s) + 1
      /\ \A i \in 1 .. Len(s) : t[i] = s[i]
      /\ t[Len(s) + 1] = code[n]
  <2>1. IsSequence(s)
    BY DEF Made
  <2>2. IsSequence(t) /\ Len(t) = Len(s) + 1 /\ t[Len(s) + 1] = code[n] /\ \A i \in 1 .. Len(s) : t[i] = s[i]
    BY <2>1, AppendSequence
  <2> HIDE DEF t
  <2> QED
    BY <2>1, <2>2, SequenceShape
<1> HIDE DEF t
<1>2. Len(s) <= Len(t) /\ Len(code) \in Nat /\ n - 1 + 1 = n
  BY <1>1, SequenceShape
<1>3. /\ Stores(s) \subseteq Stores(t)
      /\ \A i \in 1 .. Len(s) : StoredBefore(s, i) = StoredBefore(t, i)
      /\ \A i \in Len(s) + 1 .. Len(t) : Stores(s) \subseteq StoredBefore(t, i)
  BY <1>1, <1>2, StoredPrefix
<1>4. StoredBefore(code, n) \subseteq Stores(s)
  BY <1>2 DEF Made
<1>5. ASSUME NEW i \in DOMAIN t PROVE Fits(t[i], k)
  <2>1. i \in DOMAIN s \/ i = Len(s) + 1
    BY <1>1
  <2> QED
    BY <1>1, <2>1 DEF Made
<1>6. StoredBefore(code, n + 1) \subseteq Stores(t)
  <2>1. code[n].op = "store" => code[n].name \in Stores(t)
    <3>1. Len(s) + 1 \in DOMAIN t
      BY <1>1
    <3> QED
      BY <1>1, <3>1 DEF Stores, Elements
  <2> QED
    BY <1>3, <1>4, <2>1, StoredStep
<1>7. ASSUME NEW i \in DOMAIN t, t[i].op = "load"
      PROVE  \/ t[i].name \in StoredBefore(t, i)
             \/ \E j \in 1 .. n : /\ code[j].op = "load" /\ code[j].name = t[i].name
                                  /\ StoredBefore(code, j) \subseteq StoredBefore(t, i)
  <2>1. CASE i \in DOMAIN s
    <3>1. t[i] = s[i] /\ StoredBefore(s, i) = StoredBefore(t, i)
      BY <1>1, <1>3, <2>1
    <3>2. \A j \in 1 .. n - 1 : j \in 1 .. n
      BY <1>2
    <3> QED
      BY <1>7, <2>1, <3>1, <3>2 DEF Made
  <2>2. CASE i = Len(s) + 1
    <3>1. Stores(s) \subseteq StoredBefore(t, i) /\ t[i] = code[n] /\ n \in 1 .. n
      BY <1>1, <1>2, <1>3, <2>2
    <3> QED
      BY <1>4, <1>7, <3>1
  <2> QED
    BY <1>1, <2>1, <2>2
<1>8. Made(code, n, t, k)
  BY <1>1, <1>5, <1>6, <1>7 DEF Made
<1> QED
  BY <1>8 DEF t

\* A call in whose place comes code that brings what it loads.
LEMMA MadeConcat ==
  ASSUME NEW code, IsSequence(code), NEW n \in 1 .. Len(code), NEW s, NEW k \in Nat,
         Made(code, n - 1, s, k), code[n].op = "call",
         NEW t, IsSequence(t), Closes(t), NEW m \in Nat, k <= m, \A i \in DOMAIN t : Fits(t[i], m)
  PROVE  Made(code, n, s \o t, m)
<1> DEFINE u == s \o t
<1>1. /\ IsSequence(s) /\ IsSequence(u) /\ Len(u) = Len(s) + Len(t) /\ Len(s) \in Nat /\ Len(t) \in Nat
      /\ DOMAIN s = 1 .. Len(s) /\ DOMAIN t = 1 .. Len(t) /\ DOMAIN u = 1 .. Len(s) + Len(t)
      /\ \A i \in 1 .. Len(s) : u[i] = s[i]
      /\ \A i \in 1 .. Len(t) : u[Len(s) + i] = t[i]
  <2>1. IsSequence(s)
    BY DEF Made
  <2>2. /\ IsSequence(u) /\ Len(u) = Len(s) + Len(t)
        /\ \A i \in 1 .. Len(s) : u[i] = s[i]
        /\ \A i \in 1 .. Len(t) : u[Len(s) + i] = t[i]
    BY <2>1, ConcatSequence
  <2> HIDE DEF u
  <2> QED
    BY <2>1, <2>2, SequenceShape
<1>2. \A i \in 1 .. Len(t) : StoredBefore(t, i) \subseteq StoredBefore(u, Len(s) + i)
  BY <1>1, StoredSuffix
<1> HIDE DEF u
<1>3. Len(s) <= Len(u) /\ Len(code) \in Nat /\ n - 1 + 1 = n
  BY <1>1, SequenceShape
<1>4. /\ Stores(s) \subseteq Stores(u)
      /\ \A i \in 1 .. Len(s) : StoredBefore(s, i) = StoredBefore(u, i)
  BY <1>1, <1>3, StoredPrefix
<1>5. ASSUME NEW i \in DOMAIN u
      PROVE  i \in DOMAIN s \/ \E j \in DOMAIN t : i = Len(s) + j
  <2>1. i \in DOMAIN s \/ (i - Len(s) \in DOMAIN t /\ i = Len(s) + (i - Len(s)))
    BY <1>1
  <2> QED
    BY <2>1
<1>6. ASSUME NEW i \in DOMAIN u PROVE Fits(u[i], m)
  <2>1. CASE i \in DOMAIN s
    <3>1. u[i] = s[i] /\ Fits(s[i], k)
      BY <1>1, <2>1 DEF Made
    <3> QED
      BY <3>1, FitsMore
  <2>2. CASE \E j \in DOMAIN t : i = Len(s) + j
    BY <1>1, <2>2
  <2> QED
    BY <1>5, <2>1, <2>2
<1>7. StoredBefore(code, n + 1) \subseteq Stores(u)
  <2>1. StoredBefore(code, n + 1) = StoredBefore(code, n)
    <3>1. code[n].op # "store"
      OBVIOUS
    <3>2. StoredBefore(code, n + 1)
            = StoredBefore(code, n) \cup IF code[n].op = "store" THEN {code[n].name} ELSE {}
      BY StoredStep
    <3> QED
      BY <3>1, <3>2
  <2> QED
    BY <1>3, <1>4, <2>1 DEF Made
<1>8. ASSUME NEW i \in DOMAIN u, u[i].op = "load"
      PROVE  \/ u[i].name \in StoredBefore(u, i)
             \/ \E j \in 1 .. n : /\ code[j].op = "load" /\ code[j].name = u[i].name
                                  /\ StoredBefore(code, j) \subseteq StoredBefore(u, i)
  <2>1. CASE i \in DOMAIN s
    <3>1. u[i] = s[i] /\ StoredBefore(s, i) = StoredBefore(u, i)
      BY <1>1, <1>4, <2>1
    <3>2. \A j \in 1 .. n - 1 : j \in 1 .. n
      BY <1>3
    <3> QED
      BY <1>8, <2>1, <3>1, <3>2 DEF Made
  <2>2. CASE \E j \in DOMAIN t : i = Len(s) + j
    <3>1. PICK j \in DOMAIN t : i = Len(s) + j
      BY <2>2
    <3>2. u[i] = t[j] /\ StoredBefore(t, j) \subseteq StoredBefore(u, i)
      BY <1>1, <1>2, <3>1
    <3> QED
      BY <1>8, <3>2 DEF Closes
  <2> QED
    BY <1>5, <2>1, <2>2
<1>9. Made(code, n, u, m)
  BY <1>1, <1>6, <1>7, <1>8 DEF Made
<1> QED
  BY <1>9 DEF u

\* What is known of a program that Check and the type checker let pass.
CalleeOK ==
  /\ source \in Programs
  /\ ValidCallee(source.callee)
  /\ IsSequence(source.callee.code) /\ IsSequence(source.callee.params)

\* An instruction is a record.
HasAll(c) == DOMAIN c = {"op", "dst", "name", "args"}

\* A map of the temporaries below n to temporaries below m.
MapsInto(map, n, m) ==
  n \in Nat /\ m \in Nat /\ n <= m /\ \A t \in 0 .. n - 1 : map[t] \in 0 .. m - 1

\* What remapInstr makes of an instruction.
Remapped(r, c, id, m) ==
  /\ Fits(r, m) /\ r.op = c.op
  /\ c.op \in {"load", "store"} => r.name = <<c.name[1], id>>

\* remapInstr leaves the operation, finds a number for each temporary and renames variables.
LEMMA RemapFits ==
  ASSUME NEW c, HasAll(c), NEW n, NEW map, NEW m, NEW id, Fits(c, n), MapsInto(map, n, m)
  PROVE  Remapped(Remap(c, map, id), c, id, m)
<1>1. CASE c.op = "deep"
  BY <1>1, FitsMore DEF Remap, Remapped, MapsInto
<1>2. CASE c.op # "deep"
  <2> DEFINE Moved(a) == IF IsTemp(a) THEN Temp(map[a[2]]) ELSE a
             args == [i \in DOMAIN c.args |-> Moved(c.args[i])]
             dst == IF c.dst = NoDst THEN c.dst ELSE map[c.dst]
             name == IF c.op \in {"load", "store"} THEN <<c.name[1], id>> ELSE c.name
             r == [c EXCEPT !.dst = dst, !.args = args, !.name = name]
  <2>1. Remap(c, map, id) = r
    BY <1>2 DEF Remap
  <2>2. \A a \in Elements(args) : ValidTemp(a, m)
    <3> SUFFICES ASSUME NEW i \in DOMAIN c.args PROVE ValidTemp(Moved(c.args[i]), m)
      BY DEF Elements
    <3>1. ValidTemp(c.args[i], n)
      BY DEF Fits, Elements
    <3> QED
      BY <3>1 DEF ValidTemp, IsTemp, Temp, MapsInto
  <2>3. dst \in 0 .. m - 1 \/ (dst = NoDst /\ c.op \in {"store", "call", "ext", "deep"})
    BY DEF Fits, MapsInto
  <2> HIDE DEF args, dst, name
  <2>4. r.op = c.op /\ r.dst = dst /\ r.args = args /\ r.name = name
    BY DEF HasAll
  <2> HIDE DEF r
  <2>5. Fits(r, m)
    BY <2>2, <2>3, <2>4 DEF Fits
  <2> QED
    BY <2>1, <2>4, <2>5 DEF name, Remapped
<1> QED
  BY <1>1, <1>2

\* What stands in the place of a call fits, and loads nothing that it has not stored (inlineCall).
LEMMA InlinedCloses ==
  ASSUME CalleeOK, NEW c, NEW base \in Nat, NEW next \in Nat, base <= next, NEW id,
         Fits(c, base), Inlinable(c), DOMAIN c.args = DOMAIN source.callee.params
  PROVE  LET code == Inlined(c, next, id)
             m == next + Used(c, source.callee)
         IN  /\ m \in Nat /\ next <= m /\ IsSequence(code) /\ Closes(code)
             /\ \A i \in DOMAIN code : Fits(code[i], m)
<1> DEFINE f == source.callee
           m == next + Used(c, f)
           map == TempMap(c, f, next)
           s == [i \in DOMAIN f.params |-> StoreArg(f.params[i], c.args[i], id)]
           t == [i \in DOMAIN f.code |-> Remap(f.code[i], map, id)]
           u == s \o t
<1>1. /\ f.temps \in Nat /\ f.ret = <<f.ret[1], f.ret[2]>>
      /\ \A i \in DOMAIN f.code : /\ DOMAIN f.code[i] = {"op", "dst", "name", "args"}
                                  /\ f.code[i].name = <<f.code[i].name[1], 0>>
      /\ IsSequence(f.code) /\ IsSequence(f.params)
  BY ProgramsAssumption DEF ProgramsAssumption, Readable, CalleeOK, Elements
<1>2. /\ ValidTemp(f.ret, f.temps) /\ ~Misuses(f.code, Names(f.params))
      /\ \A i \in DOMAIN f.code : Fits(f.code[i], f.temps)
  BY DEF CalleeOK, ValidCallee, ValidInstr, Fits, Elements
<1>3. (c.dst \in 0 .. base - 1 \/ c.dst = NoDst) /\ (c.dst # NoDst => IsTemp(f.ret))
  BY DEF Fits, Inlinable
<1>4. u = Inlined(c, next, id)
  BY DEF Inlined
<1> HIDE DEF f
<1>5. /\ \A k \in 0 .. f.temps - 1 : map[k] \in 0 .. m - 1
      /\ Used(c, f) \in Nat /\ f.temps <= m
  BY <1>1, <1>2, <1>3, TempsFit
<1>6. m \in Nat /\ next <= m
  BY <1>5
<1> HIDE DEF m, map
<1>7. /\ DOMAIN f.params = 1 .. Len(f.params) /\ Len(f.params) \in Nat
      /\ DOMAIN f.code = 1 .. Len(f.code) /\ Len(f.code) \in Nat
  BY <1>1, SequenceShape
<1>8. IsSequence(s) /\ Len(s) = Len(f.params)
  BY <1>7, ListSequence
<1>9. IsSequence(t) /\ Len(t) = Len(f.code)
  BY <1>7, ListSequence
<1>10. \A i \in DOMAIN s : /\ s[i].op = "store" /\ s[i].name = <<f.params[i], id>> /\ Fits(s[i], m)
  <2> SUFFICES ASSUME NEW i \in DOMAIN f.params
               PROVE  LET r == StoreArg(f.params[i], c.args[i], id)
                      IN  r.op = "store" /\ r.name = <<f.params[i], id>> /\ Fits(r, m)
    OBVIOUS
  <2> DEFINE r == StoreArg(f.params[i], c.args[i], id)
  <2>1. /\ r.op = "store" /\ r.name = <<f.params[i], id>> /\ r.dst = NoDst
        /\ r.args = <<c.args[i]>>
    BY DEF StoreArg
  <2>2. ValidTemp(c.args[i], base)
    BY DEF Fits, Elements, f
  <2>3. ValidTemp(c.args[i], m)
    BY <1>6, <2>2 DEF ValidTemp
  <2> HIDE DEF r
  <2>4. Elements(r.args) = {c.args[i]}
    BY <2>1 DEF Elements
  <2>5. Fits(r, m)
    BY <2>1, <2>3, <2>4 DEF Fits
  <2> QED
    BY <2>1, <2>5 DEF r
<1>11. \A i \in DOMAIN t : Remapped(t[i], f.code[i], id, m)
  <2> SUFFICES ASSUME NEW i \in DOMAIN f.code
               PROVE  Remapped(Remap(f.code[i], map, id), f.code[i], id, m)
    OBVIOUS
  <2> DEFINE d == f.code[i]
  <2>1. HasAll(d)
    BY <1>1 DEF HasAll
  <2>2. Fits(d, f.temps) /\ MapsInto(map, f.temps, m)
    BY <1>1, <1>2, <1>5, <1>6 DEF MapsInto
  <2> HIDE DEF d
  <2>3. Remapped(Remap(d, map, id), d, id, m)
    BY <2>1, <2>2, RemapFits
  <2> QED
    BY <2>3 DEF d
<1> HIDE DEF s, t
<1>12. /\ IsSequence(u) /\ Len(u) = Len(s) + Len(t)
       /\ \A i \in 1 .. Len(s) : u[i] = s[i]
       /\ \A i \in 1 .. Len(t) : u[Len(s) + i] = t[i]
  <2>1. IsSequence(s) /\ IsSequence(t)
    BY <1>8, <1>9
  <2> QED
    BY <2>1, ConcatSequence
<1> HIDE DEF u
<1>13. /\ DOMAIN s = 1 .. Len(s) /\ DOMAIN t = 1 .. Len(t) /\ DOMAIN u = 1 .. Len(s) + Len(t)
       /\ Len(s) \in Nat /\ Len(t) \in Nat
  BY <1>8, <1>9, <1>12, SequenceShape
<1>14. ASSUME NEW i \in DOMAIN u
       PROVE  i \in DOMAIN s \/ \E j \in DOMAIN t : i = Len(s) + j
  <2>1. i \in DOMAIN s \/ (i - Len(s) \in DOMAIN t /\ i = Len(s) + (i - Len(s)))
    BY <1>13
  <2> QED
    BY <2>1
<1>15. \A i \in DOMAIN u : Fits(u[i], m)
  BY <1>10, <1>11, <1>12, <1>13, <1>14 DEF Remapped
<1>16. ASSUME NEW i \in DOMAIN u, u[i].op = "load"
       PROVE  u[i].name \in StoredBefore(u, i)
  <2>1. PICK j \in DOMAIN t : i = Len(s) + j
    <3>1. i \notin DOMAIN s
      <4> SUFFICES ASSUME i \in DOMAIN s PROVE FALSE
        OBVIOUS
      <4>1. u[i] = s[i]
        BY <1>12, <1>13
      <4>2. u[i].op = "store"
        BY <1>10, <4>1
      <4> QED
        BY <1>16, <4>2
    <3> QED
      BY <1>14, <3>1
  <2>2. u[i] = t[j] /\ t[j].op = "load"
    BY <1>12, <1>13, <1>16, <2>1
  <2> DEFINE y == f.code[j].name[1]
  <2>3. u[i].name = <<y, id>> /\ f.code[j].op = "load" /\ f.code[j].name = <<y, 0>> /\ j \in DOMAIN f.code
    BY <1>1, <1>7, <1>9, <1>11, <1>13, <2>2 DEF Remapped
  <2> HIDE DEF y
  <2>4. <<y, 0>> \in Names(f.params) \cup StoredBefore(f.code, j)
    <3>1. f.code[j].name \in Names(f.params) \cup Stores(SubSeq(f.code, 1, j - 1))
      BY <1>2, <2>3 DEF Misuses
    <3> QED
      BY <1>1, <2>3, <3>1, StoresBefore
  <2>5. CASE <<y, 0>> \in Names(f.params)
    <3>1. PICK q \in DOMAIN f.params : <<y, 0>> = <<f.params[q], 0>>
      BY <2>5 DEF Names, Elements
    <3>2. y = f.params[q]
      BY <3>1
    <3>3. q \in DOMAIN s /\ s[q].op = "store" /\ s[q].name = <<y, id>>
      BY <1>7, <1>8, <1>10, <1>13, <3>2
    <3>4. q \in DOMAIN u /\ q < i /\ u[q] = s[q]
      BY <1>12, <1>13, <2>1, <3>3
    <3> QED
      BY <2>3, <3>3, <3>4 DEF StoredBefore
  <2>6. CASE <<y, 0>> \in StoredBefore(f.code, j)
    <3>1. PICK h \in DOMAIN f.code : h < j /\ f.code[h].op = "store" /\ f.code[h].name = <<y, 0>>
      BY <2>6 DEF StoredBefore
    <3>2. f.code[h].name[1] = y /\ h \in DOMAIN t
      BY <1>7, <1>9, <1>13, <3>1
    <3>3. t[h].op = "store" /\ t[h].name = <<y, id>>
      BY <1>11, <3>1, <3>2 DEF Remapped
    <3>4. Len(s) + h \in DOMAIN u /\ Len(s) + h < i /\ u[Len(s) + h] = t[h]
      BY <1>7, <1>12, <1>13, <2>1, <2>3, <3>1, <3>2
    <3> QED
      BY <2>3, <3>3, <3>4 DEF StoredBefore
  <2> QED
    BY <2>4, <2>5, <2>6
<1>17. Closes(u)
  BY <1>16 DEF Closes
<1> QED
  BY <1>4, <1>6, <1>12, <1>15, <1>17 DEF m, f

----------------------------------------------------------------------------
(* inlineCalls.                                                            *)

\* A block is inlined instruction by instruction.
LEMMA InlineStep ==
  ASSUME NEW code, IsSequence(code), NEW next, NEW id
  PROVE  LET upTo == InlineUpTo(code, next, id)
         IN  /\ upTo[0] = [code |-> <<>>, next |-> next, id |-> id]
             /\ \A n \in 1 .. Len(code) : upTo[n] = InlineInstr(upTo[n - 1], code[n])
<1> DEFINE N == Len(code)
           first == [code |-> <<>>, next |-> next, id |-> id]
           Runs(g, k) == g = [n \in 0 .. k |-> IF n = 0 THEN first ELSE InlineInstr(g[n - 1], code[n])]
           S == {k \in Nat : \E g : Runs(g, k)}
<1>1. N \in Nat
  BY LenProperties DEF IsSequence
<1> HIDE DEF N
<1>2. 0 \in S
  <2>1. Runs([n \in 0 .. 0 |-> first], 0)
    <3>1. \A n \in 0 .. 0 : n = 0
      OBVIOUS
    <3> QED
      BY <3>1
  <2> QED
    BY <2>1
<1>3. ASSUME NEW k \in Nat, k \in S PROVE k + 1 \in S
  <2>1. PICK g : Runs(g, k)
    BY <1>3
  <2> DEFINE h == [n \in 0 .. k + 1 |-> IF n = k + 1 THEN InlineInstr(g[k], code[k + 1]) ELSE g[n]]
  <2>2. Runs(h, k + 1)
    <3> SUFFICES ASSUME NEW n \in 0 .. k + 1
                 PROVE  h[n] = IF n = 0 THEN first ELSE InlineInstr(h[n - 1], code[n])
      OBVIOUS
    <3>1. CASE n = 0
      BY <2>1, <3>1
    <3>2. CASE n = k + 1
      BY <2>1, <3>2
    <3>3. CASE n # 0 /\ n # k + 1
      <4>1. n \in 0 .. k /\ n - 1 \in 0 .. k /\ n - 1 # k + 1
        BY <3>3
      <4>2. g[n] = InlineInstr(g[n - 1], code[n])
        BY <2>1, <3>3, <4>1
      <4> QED
        BY <3>3, <4>1, <4>2
    <3> QED
      BY <3>1, <3>2, <3>3
  <2> HIDE DEF h
  <2> QED
    BY <2>2
<1>4. N \in S
  <2> HIDE DEF S
  <2> QED
    BY <1>1, <1>2, <1>3, Inductive
<1>5. PICK g : Runs(g, N)
  BY <1>4
<1>6. InlineUpTo(code, next, id) = CHOOSE x : Runs(x, N)
  BY DEF InlineUpTo, N
<1>7. Runs(InlineUpTo(code, next, id), N)
  <2> HIDE DEF Runs
  <2> QED
    BY <1>5, <1>6
<1> QED
  BY <1>1, <1>7 DEF N
\* A function is inlined block by block.
LEMMA InlineBlocksStep ==
  ASSUME IsSequence(source.blocks)
  PROVE  /\ InlineBlocks[0] = [codes |-> <<>>, next |-> temps, id |-> 1]
         /\ \A n \in 1 .. Len(source.blocks) : InlineBlocks[n] = NextBlock(InlineBlocks[n - 1], source.blocks[n])
<1> DEFINE N == Len(source.blocks)
           first == [codes |-> <<>>, next |-> temps, id |-> 1]
           Runs(g, k) == g = [n \in 0 .. k |-> IF n = 0 THEN first ELSE NextBlock(g[n - 1], source.blocks[n])]
           S == {k \in Nat : \E g : Runs(g, k)}
<1>1. N \in Nat
  BY LenProperties DEF IsSequence
<1> HIDE DEF N
<1>2. 0 \in S
  <2>1. Runs([n \in 0 .. 0 |-> first], 0)
    <3>1. \A n \in 0 .. 0 : n = 0
      OBVIOUS
    <3> QED
      BY <3>1
  <2> QED
    BY <2>1
<1>3. ASSUME NEW k \in Nat, k \in S PROVE k + 1 \in S
  <2>1. PICK g : Runs(g, k)
    BY <1>3
  <2> DEFINE h == [n \in 0 .. k + 1 |-> IF n = k + 1 THEN NextBlock(g[k], source.blocks[k + 1]) ELSE g[n]]
  <2>2. Runs(h, k + 1)
    <3> SUFFICES ASSUME NEW n \in 0 .. k + 1
                 PROVE  h[n] = IF n = 0 THEN first ELSE NextBlock(h[n - 1], source.blocks[n])
      OBVIOUS
    <3>1. CASE n = 0
      BY <2>1, <3>1
    <3>2. CASE n = k + 1
      BY <2>1, <3>2
    <3>3. CASE n # 0 /\ n # k + 1
      <4>1. n \in 0 .. k /\ n - 1 \in 0 .. k /\ n - 1 # k + 1
        BY <3>3
      <4>2. g[n] = NextBlock(g[n - 1], source.blocks[n])
        BY <2>1, <3>3, <4>1
      <4> QED
        BY <3>3, <4>1, <4>2
    <3> QED
      BY <3>1, <3>2, <3>3
  <2> HIDE DEF h
  <2> QED
    BY <2>2
<1>4. N \in S
  <2> HIDE DEF S
  <2> QED
    BY <1>1, <1>2, <1>3, Inductive
<1>5. PICK g : Runs(g, N)
  BY <1>4
<1>6. InlineBlocks = CHOOSE x : Runs(x, N)
  BY DEF InlineBlocks, N
<1>7. Runs(InlineBlocks, N)
  <2> HIDE DEF Runs
  <2> QED
    BY <1>5, <1>6
<1> HIDE DEF first
<1>8. \A n \in 0 .. N : InlineBlocks[n] = IF n = 0 THEN first ELSE NextBlock(InlineBlocks[n - 1], source.blocks[n])
  BY <1>7
<1>9. /\ InlineBlocks[0] = first
      /\ \A n \in 1 .. N : InlineBlocks[n] = NextBlock(InlineBlocks[n - 1], source.blocks[n])
  BY <1>1, <1>8
<1> QED
  BY <1>9 DEF N, first

\* A block of the source as it comes to inlineCalls.
BlockOK(code, base) ==
  /\ IsSequence(code)
  /\ \A i \in DOMAIN code :
       /\ Fits(code[i], base)
       /\ code[i].op = "call" => DOMAIN code[i].args = DOMAIN source.callee.params

\* inlineCalls makes of a block what Made says, and takes numbers upwards.
LEMMA InlineMade ==
  ASSUME CalleeOK, NEW base \in Nat, NEW next \in Nat, base <= next, NEW id,
         NEW code, BlockOK(code, base)
  PROVE  LET done == InlineBlock(code, next, id)
         IN  done.next \in Nat /\ next <= done.next /\ Made(code, Len(code), done.code, done.next)
<1> DEFINE upTo == InlineUpTo(code, next, id)
           S == {n \in Nat : n <= Len(code) =>
                   /\ upTo[n].next \in Nat /\ next <= upTo[n].next
                   /\ Made(code, n, upTo[n].code, upTo[n].next)}
<1>1. DOMAIN code = 1 .. Len(code) /\ Len(code) \in Nat /\ IsSequence(code)
  BY SequenceShape DEF BlockOK
<1>6. /\ upTo[0] = [code |-> <<>>, next |-> next, id |-> id]
      /\ \A n \in 1 .. Len(code) : upTo[n] = InlineInstr(upTo[n - 1], code[n])
  BY <1>1, InlineStep
<1> HIDE DEF upTo
<1>2. 0 \in S
  <2>1. upTo[0].code = <<>> /\ upTo[0].next = next
    BY <1>6
  <2>2. IsSequence(<<>>) /\ DOMAIN <<>> = {}
    <3>1. <<>> \in Seq({})
      BY EmptySeq
    <3>2. IsSequence(<<>>)
      BY <3>1, IntoSequence
    <3> QED
      BY <3>2
  <2>3. StoredBefore(code, 0 + 1) = {}
    BY <1>1, StoredStep
  <2>4. Made(code, 0, <<>>, next)
    BY <2>2, <2>3 DEF Made
  <2> QED
    BY <2>1, <2>4
<1>3. ASSUME NEW n \in Nat, n \in S, n + 1 <= Len(code)
      PROVE  /\ upTo[n + 1].next \in Nat /\ next <= upTo[n + 1].next
             /\ Made(code, n + 1, upTo[n + 1].code, upTo[n + 1].next)
  <2>1. n <= Len(code) /\ n + 1 \in 1 .. Len(code) /\ n + 1 - 1 = n
    BY <1>1, <1>3
  <2> DEFINE acc == upTo[n]
             c == code[n + 1]
  <2>2. /\ acc.next \in Nat /\ next <= acc.next /\ base <= acc.next
        /\ Made(code, n + 1 - 1, acc.code, acc.next)
    BY <1>3, <2>1
  <2>3. upTo[n + 1] = InlineInstr(acc, c)
    BY <1>6, <2>1
  <2>4. /\ Fits(c, base) /\ Fits(c, acc.next)
        /\ c.op = "call" => DOMAIN c.args = DOMAIN source.callee.params
    <3>1. Fits(c, base) /\ (c.op = "call" => DOMAIN c.args = DOMAIN source.callee.params)
      BY <1>1, <2>1 DEF BlockOK
    <3> QED
      BY <2>2, <3>1, FitsMore
  <2>5. CASE Inlinable(c)
    <3> DEFINE t == Inlined(c, acc.next, acc.id)
               m == acc.next + Used(c, source.callee)
    <3>1. c.op = "call"
      BY <2>5 DEF Inlinable
    <3> HIDE DEF acc, c
    <3>2. upTo[n + 1].code = acc.code \o t /\ upTo[n + 1].next = m
      <4>1. upTo[n + 1] = [code |-> acc.code \o t, next |-> m, id |-> acc.id + 1]
        BY <2>3, <2>5, Zenon DEF InlineInstr
      <4> HIDE DEF t, m
      <4> QED
        BY <4>1
    <3>3. m \in Nat /\ acc.next <= m /\ IsSequence(t) /\ Closes(t) /\ \A i \in DOMAIN t : Fits(t[i], m)
      BY <2>2, <2>4, <2>5, <3>1, InlinedCloses
    <3> HIDE DEF t, m
    <3>4. Made(code, n + 1, acc.code \o t, m)
      BY <1>1, <2>1, <2>2, <3>1, <3>3, MadeConcat DEF c
    <3> QED
      BY <2>2, <3>2, <3>3, <3>4
  <2>6. CASE ~Inlinable(c)
    <3>1. upTo[n + 1] = [acc EXCEPT !.code = Append(@, c)]
      BY <2>3, <2>6 DEF InlineInstr
    <3>2. upTo[n + 1].code = Append(acc.code, c) /\ upTo[n + 1].next = acc.next
      BY <3>1
    <3> HIDE DEF acc
    <3>3. Made(code, n + 1, Append(acc.code, c), acc.next)
      BY <1>1, <2>1, <2>2, <2>4, MadeAppend
    <3> QED
      BY <2>2, <3>2, <3>3
  <2> QED
    BY <2>5, <2>6
<1>4. \A n \in Nat : n \in S => n + 1 \in S
  BY <1>3
<1>5. Len(code) \in S
  <2> HIDE DEF S
  <2> QED
    BY <1>1, <1>2, <1>4, Inductive
<1> QED
  BY <1>1, <1>5 DEF InlineBlock, upTo

\* A program that Check accepted, as inlineCalls needs it.
LEMMA SourceBlocks ==
  ASSUME CalleeOK, ValidBlocks(source.blocks, source.temps)
  PROVE  /\ IsSequence(source.blocks) /\ source.temps \in Nat
         /\ \A l \in DOMAIN source.blocks : BlockOK(source.blocks[l].code, source.temps)
<1>1. /\ IsSequence(source.blocks) /\ source.temps \in Nat
      /\ \A l \in DOMAIN source.blocks : Readable(source.blocks[l].code, source.callee)
  BY ProgramsAssumption DEF ProgramsAssumption, CalleeOK, Elements
<1> SUFFICES ASSUME NEW l \in DOMAIN source.blocks PROVE BlockOK(source.blocks[l].code, source.temps)
  BY <1>1
<1> DEFINE code == source.blocks[l].code
<1>2. IsSequence(code) /\ \A i \in DOMAIN code : ValidInstr(code[i], source.temps, NamesOf(source.blocks))
  BY DEF ValidBlocks
<1>3. \A i \in DOMAIN code : code[i].op = "call" => DOMAIN code[i].args = DOMAIN source.callee.params
  BY <1>1 DEF Readable, Elements
<1> HIDE DEF code
<1>4. BlockOK(code, source.temps)
  BY <1>2, <1>3 DEF BlockOK, ValidInstr, Fits
<1> QED
  BY <1>4 DEF code

\* What fits below one number fits below a greater one.
LEMMA MadeMore ==
  ASSUME NEW code, NEW n, NEW s, NEW k \in Nat, NEW m \in Nat, k <= m, Made(code, n, s, k)
  PROVE  Made(code, n, s, m)
<1>1. \A i \in DOMAIN s : Fits(s[i], m)
  BY FitsMore DEF Made
<1> QED
  BY <1>1 DEF Made

\* inlineCalls, all blocks.
LEMMA InlineCallsMade ==
  ASSUME CalleeOK, ValidBlocks(source.blocks, source.temps), temps = source.temps
  PROVE  /\ InlineCalls.next \in Nat /\ source.temps <= InlineCalls.next
         /\ \A l \in DOMAIN source.blocks :
              LET code == source.blocks[l].code IN Made(code, Len(code), InlineCalls.codes[l], InlineCalls.next)
<1> DEFINE Done(acc, n) ==
             /\ acc.next \in Nat /\ temps <= acc.next
             /\ IsSequence(acc.codes) /\ Len(acc.codes) = n
             /\ \A l \in 1 .. n :
                  Made(source.blocks[l].code, Len(source.blocks[l].code), acc.codes[l], acc.next)
           N == Len(source.blocks)
           S == {n \in Nat : n <= N => Done(InlineBlocks[n], n)}
<1>1. /\ IsSequence(source.blocks) /\ temps \in Nat /\ N \in Nat /\ DOMAIN source.blocks = 1 .. N
      /\ \A l \in 1 .. N : BlockOK(source.blocks[l].code, temps)
  BY SourceBlocks, SequenceShape
<1>2. /\ InlineBlocks[0] = [codes |-> <<>>, next |-> temps, id |-> 1]
      /\ \A n \in 1 .. N : InlineBlocks[n] = NextBlock(InlineBlocks[n - 1], source.blocks[n])
  BY <1>1, InlineBlocksStep
<1> HIDE DEF N
<1>3. 0 \in S
  <2>1. IsSequence(<<>>) /\ Len(<<>>) = 0
    <3>1. <<>> \in Seq({}) /\ Len(<<>>) = 0
      BY EmptySeq
    <3> QED
      BY <3>1, IntoSequence
  <2>2. InlineBlocks[0].codes = <<>> /\ InlineBlocks[0].next = temps
    BY <1>2
  <2>3. \A l \in 1 .. 0 : FALSE
    OBVIOUS
  <2> QED
    BY <1>1, <2>1, <2>2, <2>3
<1>4. ASSUME NEW n \in Nat, n \in S, n + 1 <= N
      PROVE  Done(InlineBlocks[n + 1], n + 1)
  <2> DEFINE acc == InlineBlocks[n]
             code == source.blocks[n + 1].code
             done == InlineBlock(code, acc.next, acc.id)
             new == InlineBlocks[n + 1]
  <2>1. n <= N /\ n + 1 \in 1 .. N /\ n + 1 - 1 = n
    BY <1>1, <1>4
  <2>2. Done(acc, n)
    BY <1>4, <2>1
  <2>3. new = NextBlock(acc, source.blocks[n + 1])
    BY <1>2, <2>1
  <2>4. new = [codes |-> Append(acc.codes, done.code), next |-> done.next, id |-> done.id]
    BY <2>3 DEF NextBlock
  <2>5. BlockOK(code, temps)
    BY <1>1, <2>1
  <2> HIDE DEF acc, code, new
  <2>6. /\ done.next \in Nat /\ acc.next <= done.next
        /\ Made(code, Len(code), done.code, done.next)
    BY <1>1, <2>2, <2>5, InlineMade
  <2> HIDE DEF done
  <2>7. new.codes = Append(acc.codes, done.code) /\ new.next = done.next
    BY <2>4
  <2>8. /\ IsSequence(new.codes) /\ Len(new.codes) = n + 1
        /\ \A i \in 1 .. n : new.codes[i] = acc.codes[i]
        /\ new.codes[n + 1] = done.code
    BY <2>2, <2>7, AppendSequence
  <2>9. ASSUME NEW l \in 1 .. n + 1
        PROVE  Made(source.blocks[l].code, Len(source.blocks[l].code), new.codes[l], new.next)
    <3>1. CASE l \in 1 .. n
      BY <2>2, <2>6, <2>7, <2>8, <3>1, MadeMore
    <3>2. CASE l = n + 1
      BY <2>6, <2>7, <2>8, <3>2 DEF code
    <3> QED
      BY <3>1, <3>2
  <2>10. new.next \in Nat /\ temps <= new.next
    BY <1>1, <2>2, <2>6, <2>7
  <2>11. Done(new, n + 1)
    BY <2>8, <2>9, <2>10
  <2> QED
    BY <2>11 DEF new
<1>5. \A n \in Nat : n \in S => n + 1 \in S
  <2> HIDE DEF Done
  <2> QED
    BY <1>4
<1>6. N \in S
  <2> HIDE DEF S
  <2> QED
    BY <1>1, <1>3, <1>5, Inductive
<1>7. Done(InlineBlocks[N], N)
  <2> HIDE DEF Done
  <2> QED
    BY <1>1, <1>6
<1>8. InlineBlocks[N] = InlineCalls
  BY DEF InlineCalls, N
<1> HIDE DEF N
<1>9. Done(InlineCalls, N)
  BY <1>7, <1>8
<1> QED
  BY <1>1, <1>9

----------------------------------------------------------------------------
(* Optimize.                                                               *)

\* What is left of a function after pruneUnreachable is reached in what is left.
LEMMA PrunedReachable ==
  ASSUME NEW bs, Entry \in DOMAIN bs
  PROVE  LET new == PruneUnreachable(bs)
         IN  /\ DOMAIN new = ReachableBlocks(bs) /\ Entry \in DOMAIN new /\ DOMAIN new \subseteq DOMAIN bs
             /\ \A l \in DOMAIN new : new[l] = bs[l] /\ Targets(bs[l].term) \cap DOMAIN bs \subseteq DOMAIN new
             /\ DOMAIN new \subseteq Reached(new, DOMAIN new)
<1> DEFINE new == PruneUnreachable(bs)
           S == Reached(new, DOMAIN new)
<1>1. DOMAIN new = ReachableBlocks(bs) /\ \A l \in DOMAIN new : new[l] = bs[l]
  BY DEF PruneUnreachable, Restrict
<1>2. Entry \in DOMAIN new /\ DOMAIN new \subseteq DOMAIN bs
  BY <1>1, EntryReached DEF ReachableBlocks, Reached
<1> HIDE DEF new
<1>3. \A l \in DOMAIN new : Targets(bs[l].term) \cap DOMAIN bs \subseteq DOMAIN new
  BY <1>1, <1>2, TargetReached DEF ReachableBlocks
<1>4. S \subseteq DOMAIN new /\ Entry \in S
  BY <1>2, EntryReached DEF Reached
<1>5. ASSUME NEW l \in S, NEW k \in Targets(bs[l].term) \cap DOMAIN bs
      PROVE  k \in S
  <2>1. l \in DOMAIN new /\ k \in DOMAIN new /\ k \in Targets(new[l].term)
    BY <1>1, <1>3, <1>4, <1>5
  <2> QED
    BY <1>5, <2>1, TargetReached
<1>6. Closed(bs, DOMAIN bs, S) /\ S \in SUBSET DOMAIN bs
  BY <1>2, <1>4, <1>5 DEF Closed
<1> HIDE DEF S
<1>7. ReachableBlocks(bs) \subseteq S
  BY <1>6, ReachedLeast DEF ReachableBlocks
<1> QED
  BY <1>1, <1>2, <1>3, <1>7 DEF S, new

\* What is reached in a function whose branches were folded and whose calls were inlined was
\* reached before, past the same stores.
LEMMA ReachedOld ==
  ASSUME NEW old, NEW new, Entry \in DOMAIN old, Entry \in DOMAIN new, DOMAIN new \subseteq DOMAIN old,
         \A l \in DOMAIN new : Targets(new[l].term) \subseteq Targets(old[l].term),
         \A l \in DOMAIN new : Stores(old[l].code) \subseteq Stores(new[l].code),
         NEW n
  PROVE  Reached(new, PastStores(new, n)) \subseteq Reached(old, PastStores(old, n))
<1> DEFINE S == DOMAIN new \cap Reached(old, PastStores(old, n))
<1>1. Entry \in S
  BY EntryReached
<1>2. ASSUME NEW l \in S \cap PastStores(new, n), NEW k \in Targets(new[l].term) \cap DOMAIN new
      PROVE  k \in S
  <2>1. l \in PastStores(old, n) /\ k \in Targets(old[l].term) /\ k \in DOMAIN old
    BY <1>2 DEF PastStores
  <2> QED
    BY <1>2, <2>1, TargetReached
<1>3. Closed(new, PastStores(new, n), S)
  BY <1>1, <1>2 DEF Closed
<1>4. S \in SUBSET DOMAIN new
  OBVIOUS
<1> HIDE DEF S
<1>5. Reached(new, PastStores(new, n)) \subseteq S
  BY <1>3, <1>4, ReachedLeast
<1> QED
  BY <1>5 DEF S

\* What Optimize makes of an accepted program would be accepted again.
LEMMA OptimizeAccepted ==
  ASSUME CalleeOK, Accepted(source.blocks, source.temps),
         blocks = source.blocks, temps = source.temps, Optimize
  PROVE  Accepted(blocks', temps')
<1> DEFINE old == source.blocks
           k == InlineCalls.next
           bs == [l \in DOMAIN old |-> [code |-> InlineCalls.codes[l], term |-> Fold(old[l].term)]]
           new == PruneUnreachable(bs)
<1>1. blocks' = new /\ temps' = k
  BY DEF Optimize
<1>2. Entry \in DOMAIN old /\ 0 \notin DOMAIN old /\ ValidBlocks(old, source.temps) /\ Unexposed(old)
  BY DEF Accepted
<1>3. source.temps \in Nat /\ k \in Nat /\ source.temps <= k
  BY <1>2, SourceBlocks, InlineCallsMade
<1>4. \A l \in DOMAIN bs : /\ Made(old[l].code, Len(old[l].code), bs[l].code, k)
                           /\ bs[l].term = Fold(old[l].term)
  BY <1>2, InlineCallsMade
<1>5. DOMAIN bs = DOMAIN old
  OBVIOUS
<1> HIDE DEF bs, k
<1>6. /\ Entry \in DOMAIN new /\ DOMAIN new \subseteq DOMAIN old
      /\ \A l \in DOMAIN new : new[l] = bs[l] /\ Targets(bs[l].term) \cap DOMAIN bs \subseteq DOMAIN new
      /\ DOMAIN new \subseteq Reached(new, DOMAIN new)
  BY <1>2, <1>5, PrunedReachable
<1> HIDE DEF new, old
<1>7. ASSUME NEW l \in DOMAIN new
      PROVE  /\ Made(old[l].code, Len(old[l].code), new[l].code, k) /\ IsSequence(old[l].code)
             /\ Targets(new[l].term) \subseteq Targets(old[l].term)
             /\ Targets(new[l].term) \subseteq DOMAIN new
             /\ new[l].term.op = "branch" => ValidTemp(new[l].term.cond, k)
             /\ new[l].term.op = "return" => ValidTemp(new[l].term.val, k)
             /\ Stores(old[l].code) \subseteq Stores(new[l].code)
  <2> DEFINE t == old[l].term
  <2>1. l \in DOMAIN old /\ new[l] = bs[l] /\ l \in DOMAIN bs
    BY <1>5, <1>6
  <2>2. /\ IsSequence(old[l].code) /\ Targets(t) \subseteq DOMAIN old
        /\ t.op = "branch" => ValidTemp(t.cond, source.temps)
        /\ t.op = "return" => ValidTemp(t.val, source.temps)
    BY <1>2, <2>1 DEF ValidBlocks
  <2>3. Made(old[l].code, Len(old[l].code), new[l].code, k) /\ new[l].term = Fold(t)
    BY <1>4, <2>1
  <2> HIDE DEF t
  <2>4. Targets(Fold(t)) \subseteq Targets(t)
    BY DEF Fold, Targets
  <2>5. /\ Fold(t).op = "branch" => ValidTemp(Fold(t).cond, k)
        /\ Fold(t).op = "return" => ValidTemp(Fold(t).val, k)
    BY <1>3, <2>2 DEF Fold, ValidTemp
  <2>6. Targets(new[l].term) \subseteq DOMAIN new
    BY <1>5, <1>6, <2>1, <2>2, <2>3, <2>4
  <2>7. Stores(old[l].code) \subseteq Stores(new[l].code)
    BY <2>2, <2>3, StoresAll DEF Made
  <2> QED
    BY <2>2, <2>3, <2>4, <2>5, <2>6, <2>7 DEF t
<1>8. \A n : Reached(new, PastStores(new, n)) \subseteq Reached(old, PastStores(old, n))
  BY <1>2, <1>6, <1>7, ReachedOld
<1>9. ASSUME NEW l \in DOMAIN new, NEW i \in DOMAIN new[l].code, new[l].code[i].op = "load",
             new[l].code[i].name \notin Names(source.params),
             l \in Reached(new, PastStores(new, new[l].code[i].name))
      PROVE  new[l].code[i].name \in StoredBefore(new[l].code, i)
  <2> DEFINE n == new[l].code[i].name
  <2>1. /\ IsSequence(old[l].code) /\ l \in DOMAIN old
        /\ DOMAIN old[l].code = 1 .. Len(old[l].code)
    BY <1>6, <1>7, SequenceShape
  <2>2. CASE \E j \in 1 .. Len(old[l].code) :
               /\ old[l].code[j].op = "load" /\ old[l].code[j].name = n
               /\ StoredBefore(old[l].code, j) \subseteq StoredBefore(new[l].code, i)
    <3>1. PICK j \in DOMAIN old[l].code :
               /\ old[l].code[j].op = "load" /\ old[l].code[j].name = n
               /\ StoredBefore(old[l].code, j) \subseteq StoredBefore(new[l].code, i)
      BY <2>1, <2>2
    <3>2. n \in NamesOf(old) \ Names(source.params)
      BY <1>2, <1>9, <2>1, <3>1 DEF ValidBlocks, ValidInstr
    <3>3. l \in Reached(old, PastStores(old, n))
      BY <1>8, <1>9
    <3> QED
      BY <1>2, <3>1, <3>2, <3>3 DEF Unexposed
  <2> QED
    BY <1>7, <1>9, <2>2 DEF Made
<1>10. ASSUME NEW l \in DOMAIN new, NEW i \in DOMAIN new[l].code
       PROVE  ValidInstr(new[l].code[i], k, NamesOf(new))
  <2> DEFINE n == new[l].code[i].name
  <2>1. Fits(new[l].code[i], k)
    BY <1>7 DEF Made
  <2>2. ASSUME new[l].code[i].op = "load", n \notin NamesOf(new)
        PROVE  FALSE
    <3>1. PastStores(new, n) = DOMAIN new /\ n \notin Names(source.params)
      BY <2>2 DEF NamesOf, PastStores
    <3>2. n \in StoredBefore(new[l].code, i)
      BY <1>6, <1>9, <2>2, <3>1
    <3>3. n \in Stores(new[l].code)
      BY <1>7, <3>2, StoredIn DEF Made
    <3> QED
      BY <2>2, <3>3 DEF NamesOf
  <2> QED
    BY <2>1, <2>2 DEF ValidInstr, Fits
<1>11. ValidBlocks(new, k)
  BY <1>7, <1>10 DEF ValidBlocks, Made
<1>12. Unexposed(new)
  BY <1>9 DEF Unexposed, Reached
<1>13. Accepted(new, k)
  BY <1>2, <1>6, <1>11, <1>12 DEF Accepted
<1> QED
  BY <1>1, <1>13

----------------------------------------------------------------------------
(* ir-opt from reading to the end of the run.                              *)

\* Exposed, said of the blocks as they are.
LEMMA ExposedMeans ==
  ASSUME \A l \in DOMAIN blocks : IsSequence(blocks[l].code)
  PROVE  Exposed <=> ~Unexposed(blocks)
<1>1. NamesOf(blocks) = Declared /\ \A n : PastStores(blocks, n) = Bypassed(n)
  BY DEF NamesOf, Declared, PastStores, Bypassed
<1>2. \A n : Reached(blocks, PastStores(blocks, n)) \subseteq DOMAIN blocks
  BY DEF Reached
<1>3. \A l \in DOMAIN blocks : \A i \in DOMAIN blocks[l].code :
        Stores(SubSeq(blocks[l].code, 1, i - 1)) = StoredBefore(blocks[l].code, i)
  BY StoresBefore
<1> QED
  BY <1>1, <1>2, <1>3 DEF Exposed, Unexposed

\* The verdict of a validation.
LEMMA SettleVerdict ==
  ASSUME FlowInv, Settle
  PROVE  stage' = IF Exposed THEN "rejected" ELSE "valid"
<1>1. stage = "flow" /\ turn = RoundEnd /\ ~changed
  BY DEF Settle
<1> QED
  BY <1>1, SettleExact DEF Settle, FlowInv

\* The stages of ir-opt, and what is known in each.
Stages == {"read", "flow", "valid", "rejected", "optimized", "run", "ended"}
FramesOK ==
  IF stage \in {"run", "ended"}
  THEN /\ frames = <<frames[1], frames[2]>>
       /\ Running(frames[1], source.blocks) /\ Running(frames[2], blocks)
       /\ stage = "run" => frames[1].at \in DOMAIN source.blocks /\ frames[2].at \in DOMAIN blocks
  ELSE frames = <<>>
StageOK ==
  /\ stage \in Stages /\ optimized \in BOOLEAN
  /\ stage = "flow" => ValidBlocks(blocks, temps)
  /\ stage = "valid" => Accepted(blocks, temps)
  /\ stage \notin {"read", "rejected"} => ValidParams(source.params) /\ ValidCallee(source.callee)
  /\ IF optimized
     THEN /\ stage \notin {"read", "rejected"}
          /\ Accepted(source.blocks, source.temps) /\ Accepted(blocks, temps)
     ELSE /\ stage \notin {"optimized", "run", "ended"}
          /\ blocks = source.blocks /\ temps = source.temps
RunInv ==
  /\ FlowInv
  /\ \A l \in DOMAIN blocks : IsSequence(blocks[l].code)
  /\ StageOK
  /\ FramesOK

\* Accepted depends on the program only.
LEMMA SameSource ==
  ASSUME source' = source
  PROVE  /\ Accepted(source.blocks, source.temps)' = Accepted(source.blocks, source.temps)
         /\ ValidCallee(source.callee)' = ValidCallee(source.callee)
         /\ ValidParams(source.params)' = ValidParams(source.params)
BY DEF Accepted, ValidBlocks, Unexposed, NamesOf, ValidCallee, ValidParams

\* And on the blocks as they are.
LEMMA SameAccepted ==
  ASSUME UNCHANGED <<source, blocks, temps>>
  PROVE  /\ Accepted(blocks, temps)' = Accepted(blocks, temps)
         /\ Accepted(source.blocks, source.temps)' = Accepted(source.blocks, source.temps)
         /\ ValidBlocks(blocks, temps)' = ValidBlocks(blocks, temps)
         /\ ValidCallee(source.callee)' = ValidCallee(source.callee)
         /\ ValidParams(source.params)' = ValidParams(source.params)
         /\ \A fr : Running(fr, blocks)' = Running(fr, blocks)
         /\ \A fr : Running(fr, source.blocks)' = Running(fr, source.blocks)
BY DEF Accepted, ValidBlocks, Unexposed, NamesOf, ValidCallee, ValidParams, Running

\* RunInv holds of a program as it was read.
LEMMA RunInit == IRInit => RunInv
<1> SUFFICES ASSUME IRInit PROVE RunInv
  OBVIOUS
<1>1. \A l \in DOMAIN blocks : IsSequence(blocks[l].code)
  BY ProgramsAssumption DEF ProgramsAssumption, Readable, IRInit, Elements
<1>2. StageOK
  BY DEF IRInit, StageOK, Stages
<1>3. FramesOK
  BY DEF IRInit, FramesOK
<1> QED
  BY <1>1, <1>2, <1>3, FlowInit DEF RunInv

\* Validate begins; after Optimize it gets past its first part.
LEMMA CheckRuns == RunInv /\ Check => RunInv'
<1> SUFFICES ASSUME RunInv, Check PROVE RunInv'
  OBVIOUS
<1>1. /\ UNCHANGED <<source, blocks, temps, optimized, frames>> /\ stage \in {"read", "optimized"}
      /\ stage' \in {"flow", "rejected"}
  BY DEF Check, run
<1>2. ASSUME stage' = "flow" 
      PROVE  ValidBlocks(blocks, temps) /\ ValidParams(source.params) /\ ValidCallee(source.callee)
  <2>1. /\ \A l \in DOMAIN blocks : ValidBlock(blocks[l])
        /\ ValidParams(source.params) /\ ValidCallee(source.callee)
    BY <1>2 DEF Check
  <2>2. NamesOf(blocks) = Declared
    BY DEF NamesOf, Declared
  <2> QED
    BY <2>1, <2>2 DEF RunInv, ValidBlocks, ValidBlock, Elements
<1>3. ASSUME optimized PROVE stage' = "flow"
  <2>1. Accepted(blocks, temps) /\ ValidParams(source.params) /\ ValidCallee(source.callee)
    BY <1>1, <1>3 DEF RunInv, StageOK
  <2>2. NamesOf(blocks) = Declared
    BY DEF NamesOf, Declared
  <2>3. \A l \in DOMAIN blocks : ValidBlock(blocks[l])
    BY <2>1, <2>2 DEF Accepted, ValidBlocks, ValidBlock, Elements
  <2> QED
    BY <2>1, <2>3 DEF Check
<1>4. StageOK'
  BY <1>1, <1>2, <1>3, SameAccepted DEF RunInv, StageOK, Stages
<1>5. FramesOK'
  BY <1>1 DEF RunInv, FramesOK
<1> QED
  BY <1>1, <1>4, <1>5, CheckKeeps DEF RunInv

\* The rounds of validateDefiniteAssignment leave everything but their sets alone.
LEMMA RoundRuns == RunInv /\ (Visit \/ Again) => RunInv'
<1> SUFFICES ASSUME RunInv, Visit \/ Again PROVE RunInv'
  OBVIOUS
<1>1. UNCHANGED <<source, blocks, temps, stage, optimized, frames>> /\ stage = "flow"
  BY DEF Visit, Again, run
<1>2. StageOK'
  BY <1>1, SameAccepted DEF RunInv, StageOK
<1>3. FramesOK'
  BY <1>1 DEF RunInv, FramesOK
<1> QED
  BY <1>1, <1>2, <1>3, VisitKeeps, AgainKeeps DEF RunInv

\* The verdict: what Optimize has made of an accepted function is not rejected.
LEMMA SettleRuns == RunInv /\ Settle => RunInv'
<1> SUFFICES ASSUME RunInv, Settle PROVE RunInv'
  OBVIOUS
<1>1. UNCHANGED <<source, blocks, temps, optimized, frames>> /\ stage = "flow"
  BY DEF Settle, run
<1>2. stage' = IF Unexposed(blocks) THEN "valid" ELSE "rejected"
  BY SettleVerdict, ExposedMeans DEF RunInv
<1>3. ValidBlocks(blocks, temps) /\ Entry \in DOMAIN blocks /\ 0 \notin DOMAIN blocks
  <2>1. Len(source.blocks) \in Nat
    BY ProgramShape DEF RunInv, FlowInv, BlocksOK
  <2> QED
    BY <1>1, <2>1 DEF RunInv, StageOK, FlowInv, BlocksOK
<1>4. Accepted(blocks, temps) <=> Unexposed(blocks)
  BY <1>3 DEF Accepted
<1>5. StageOK'
  BY <1>1, <1>2, <1>4, SameAccepted DEF RunInv, StageOK, Stages
<1>6. FramesOK'
  BY <1>1, <1>2 DEF RunInv, FramesOK
<1> QED
  BY <1>1, <1>5, <1>6, SettleKeeps DEF RunInv

\* Optimize.
LEMMA OptimizeRuns == RunInv /\ Optimize => RunInv'
<1> SUFFICES ASSUME RunInv, Optimize PROVE RunInv'
  OBVIOUS
<1>1. /\ UNCHANGED <<source, frames>> /\ stage = "valid" /\ ~optimized
      /\ stage' = "optimized" /\ optimized' = TRUE
  BY DEF Optimize, run
<1>2. /\ blocks = source.blocks /\ temps = source.temps
      /\ ValidCallee(source.callee) /\ ValidParams(source.params)
      /\ Accepted(source.blocks, source.temps)
  BY <1>1 DEF RunInv, StageOK
<1>3. CalleeOK
  BY <1>2, ProgramsAssumption
     DEF ProgramsAssumption, CalleeOK, RunInv, FlowInv, BlocksOK, Readable
<1>4. Accepted(blocks', temps')
  BY <1>2, <1>3, OptimizeAccepted
<1>5. /\ Accepted(blocks, temps)' /\ Accepted(source.blocks, source.temps)'
      /\ ValidCallee(source.callee)' /\ ValidParams(source.params)'
  <2>1. source' = source
    BY <1>1
  <2>2. ValidCallee(source.callee)' /\ ValidParams(source.params)'
    BY <1>2, <2>1, SameSource
  <2>3. Accepted(source.blocks, source.temps)'
    BY <1>2, <2>1, SameSource
  <2>4. Accepted(blocks, temps)'
    BY <1>4, <2>1 DEF Accepted, ValidBlocks, Unexposed, NamesOf
  <2> QED
    BY <2>2, <2>3, <2>4
<1>6. StageOK'
  BY <1>1, <1>5 DEF StageOK, Stages
<1>7. FramesOK'
  BY <1>1 DEF RunInv, FramesOK
<1>8. \A l \in DOMAIN blocks' : IsSequence(blocks'[l].code)
  BY <1>4 DEF Accepted, ValidBlocks
<1> QED
  BY <1>6, <1>7, <1>8, OptimizeKeeps DEF RunInv

\* Both programs begin with their parameters.
LEMMA StartRuns == RunInv /\ Start => RunInv'
<1> SUFFICES ASSUME RunInv, Start PROVE RunInv'
  OBVIOUS
<1>1. /\ UNCHANGED <<source, blocks, temps, optimized>> /\ stage = "valid" /\ optimized /\ stage' = "run"
  BY DEF Start
<1>2. PICK vs : frames' = <<Frame(source.params, source.temps, vs), Frame(source.params, temps, vs)>>
  BY DEF Start
<1>3. Accepted(source.blocks, source.temps) /\ Accepted(blocks, temps) /\ ValidCallee(source.callee)
  BY <1>1 DEF RunInv, StageOK
<1>4. Running(frames'[1], source.blocks) /\ Running(frames'[2], blocks)
  BY <1>2, <1>3, FrameRuns
<1>5. frames'[1].at = Entry /\ frames'[2].at = Entry
  BY <1>2 DEF Frame
<1>6. frames' = <<frames'[1], frames'[2]>>
  BY <1>2
<1>7. FramesOK'
  BY <1>1, <1>3, <1>4, <1>5, <1>6, SameAccepted DEF FramesOK, Accepted
<1>8. StageOK'
  BY <1>1, SameAccepted DEF RunInv, StageOK, Stages
<1> QED
  BY <1>1, <1>7, <1>8, RunKeeps DEF RunInv

\* Both programs run a block.
LEMMA BlockRuns == RunInv /\ RunBlock => RunInv'
<1> SUFFICES ASSUME RunInv, RunBlock PROVE RunInv'
  OBVIOUS
<1>1. /\ UNCHANGED <<source, blocks, temps, optimized>> /\ stage = "run"
      /\ frames' = <<Step(frames[1], source.blocks), Step(frames[2], blocks)>>
      /\ stage' = IF frames'[1].at = 0 \/ frames'[1].at # frames'[2].at THEN "ended" ELSE "run"
  BY DEF RunBlock
<1>2. /\ optimized /\ ValidCallee(source.callee) /\ source \in Programs
      /\ Accepted(source.blocks, source.temps) /\ Accepted(blocks, temps)
  BY <1>1 DEF RunInv, StageOK, FlowInv, BlocksOK
<1>3. /\ Running(frames[1], source.blocks) /\ frames[1].at \in DOMAIN source.blocks
      /\ Running(frames[2], blocks) /\ frames[2].at \in DOMAIN blocks
  BY <1>1 DEF RunInv, FramesOK
<1>4. Running(Step(frames[1], source.blocks), source.blocks)
  BY <1>2, <1>3, StepKeeps
<1>5. Running(Step(frames[2], blocks), blocks)
  BY <1>2, <1>3, StepKeeps
<1>6. /\ frames' = <<frames'[1], frames'[2]>>
      /\ Running(frames'[1], source.blocks) /\ Running(frames'[2], blocks)
  BY <1>1, <1>4, <1>5
<1>7. stage' = "run" => frames'[1].at \in DOMAIN source.blocks /\ frames'[2].at \in DOMAIN blocks
  BY <1>1, <1>6 DEF Running
<1>8. stage' \in {"run", "ended"}
  BY <1>1
<1>9. FramesOK'
  BY <1>1, <1>6, <1>7, <1>8, SameAccepted DEF FramesOK
<1>10. StageOK'
  BY <1>1, <1>2, <1>8, SameAccepted DEF RunInv, StageOK, Stages
<1> QED
  BY <1>1, <1>9, <1>10, RunKeeps DEF RunInv

\* Every step keeps RunInv.
LEMMA RunStep == RunInv /\ [IRNext]_irVars => RunInv'
<1> SUFFICES ASSUME RunInv, [IRNext]_irVars PROVE RunInv'
  OBVIOUS
<1>1. CASE UNCHANGED irVars
  <2>1. UNCHANGED <<source, blocks, temps, stage, optimized, frames>>
    BY <1>1 DEF irVars, run
  <2>2. StageOK' /\ FramesOK'
    BY <2>1, SameAccepted DEF RunInv, StageOK, FramesOK
  <2>3. FlowInv'
    BY <1>1, FlowStep DEF RunInv
  <2> QED
    BY <2>1, <2>2, <2>3 DEF RunInv
<1> QED
  BY <1>1, CheckRuns, RoundRuns, SettleRuns, OptimizeRuns, StartRuns, BlockRuns DEF IRNext

\* RunInv is an invariant of ir-opt.
THEOREM RunInvariance == IRSpec => []RunInv
BY RunInit, RunStep, PTL DEF IRSpec

\* A validated function, as it was read and as Optimize has left it, never loads a variable
\* that was not stored before, nor does a function that it calls, however it branches and loops.
THEOREM ValidatedNeverFails == IRSpec => []ValidatedRuns
<1>1. RunInv => ValidatedRuns
  <2> SUFFICES ASSUME RunInv, NEW i \in DOMAIN frames PROVE ~frames[i].bad
    BY DEF ValidatedRuns
  <2>1. CASE stage \in {"run", "ended"}
    <3>1. frames = <<frames[1], frames[2]>> /\ Sound(frames[1]) /\ Sound(frames[2])
      BY <2>1 DEF RunInv, FramesOK, Running
    <3>2. i \in {1, 2}
      BY <3>1
    <3>3. frames[i].bad = FALSE
      BY <3>1, <3>2 DEF Sound
    <3> QED
      BY <3>3
  <2>2. CASE stage \notin {"run", "ended"}
    BY <2>2 DEF RunInv, FramesOK
  <2> QED
    BY <2>1, <2>2
<1> QED
  BY <1>1, RunInvariance, PTL

\* The second Validate of ir-opt accepts what Optimize has made of whatever the first accepted.
THEOREM OptimizedIsValid == IRSpec => []OptimizedValid
<1>1. RunInv => OptimizedValid
  BY DEF RunInv, StageOK, OptimizedValid
<1> QED
  BY <1>1, RunInvariance, PTL

----------------------------------------------------------------------------
(* A block, from its beginning to its end.                                 *)

\* A frame after all instructions.
AtEnd(fr, code) == Executed(fr, code)[Len(code)]

\* What comes later does not change what was before.
LEMMA ExecutedPrefix ==
  ASSUME NEW fr, NEW s, IsSequence(s), NEW t, IsSequence(t), Len(s) <= Len(t),
         \A i \in 1 .. Len(s) : t[i] = s[i]
  PROVE  \A n \in 0 .. Len(s) : Executed(fr, t)[n] = Executed(fr, s)[n]
<1> DEFINE S == {n \in Nat : n <= Len(s) => Executed(fr, t)[n] = Executed(fr, s)[n]}
<1>1. Len(s) \in Nat /\ Len(t) \in Nat
  BY SequenceShape
<1>2. 0 \in S
  BY ExecutedStep
<1>3. ASSUME NEW n \in Nat, n \in S, n + 1 <= Len(s)
      PROVE  Executed(fr, t)[n + 1] = Executed(fr, s)[n + 1]
  <2>1. n <= Len(s) /\ n + 1 \in 1 .. Len(s) /\ n + 1 \in 1 .. Len(t) /\ n + 1 - 1 = n
    BY <1>1, <1>3
  <2>2. Executed(fr, t)[n + 1] = ExecInstr(Executed(fr, t)[n], t[n + 1])
    BY <2>1, ExecutedStep
  <2>3. Executed(fr, s)[n + 1] = ExecInstr(Executed(fr, s)[n], s[n + 1])
    BY <2>1, ExecutedStep
  <2> QED
    BY <1>3, <2>1, <2>2, <2>3
<1>4. \A n \in Nat : n \in S => n + 1 \in S
  BY <1>3
<1>5. Nat \subseteq S
  <2> HIDE DEF S
  <2> QED
    BY <1>2, <1>4, Inductive
<1>6. \A n \in 0 .. Len(s) : n \in S /\ n \in Nat /\ n <= Len(s)
  BY <1>1, <1>5
<1> QED
  BY <1>6

\* One instruction more.
LEMMA EndAppend ==
  ASSUME NEW fr, NEW s, IsSequence(s), NEW c
  PROVE  AtEnd(fr, Append(s, c)) = ExecInstr(AtEnd(fr, s), c)
<1> DEFINE t == Append(s, c)
<1>1. /\ IsSequence(t) /\ Len(t) = Len(s) + 1 /\ t[Len(s) + 1] = c
      /\ \A i \in 1 .. Len(s) : t[i] = s[i]
  BY AppendSequence
<1> HIDE DEF t
<1>2. Len(s) \in Nat /\ Len(s) <= Len(t) /\ Len(s) + 1 \in 1 .. Len(t) /\ Len(s) + 1 - 1 = Len(s)
  BY <1>1, SequenceShape
<1>3. Executed(fr, t)[Len(s) + 1] = ExecInstr(Executed(fr, t)[Len(s)], c)
  BY <1>1, <1>2, ExecutedStep
<1>4. Len(s) \in 0 .. Len(s)
  BY <1>2
<1>5. Executed(fr, t)[Len(s)] = Executed(fr, s)[Len(s)]
  BY <1>1, <1>2, <1>4, ExecutedPrefix
<1>6. AtEnd(fr, t) = ExecInstr(AtEnd(fr, s), c)
  BY <1>1, <1>3, <1>5 DEF AtEnd
<1> QED
  BY <1>6 DEF t

\* One piece of code behind another.
LEMMA EndConcat ==
  ASSUME NEW fr, NEW s, IsSequence(s), NEW t, IsSequence(t)
  PROVE  AtEnd(fr, s \o t) = AtEnd(AtEnd(fr, s), t)
<1> DEFINE u == s \o t
           mid == AtEnd(fr, s)
           S == {n \in Nat : n <= Len(t) => Executed(fr, u)[Len(s) + n] = Executed(mid, t)[n]}
<1>1. /\ IsSequence(u) /\ Len(u) = Len(s) + Len(t)
      /\ \A i \in 1 .. Len(s) : u[i] = s[i]
      /\ \A i \in 1 .. Len(t) : u[Len(s) + i] = t[i]
  BY ConcatSequence
<1> HIDE DEF u
<1>2. Len(s) \in Nat /\ Len(t) \in Nat /\ Len(s) <= Len(u) /\ Len(s) \in 0 .. Len(s)
  BY <1>1, SequenceShape
<1>3. Executed(fr, u)[Len(s)] = mid
  BY <1>1, <1>2, ExecutedPrefix DEF AtEnd
<1>4. Executed(mid, t)[0] = mid
  BY ExecutedStep
<1> HIDE DEF mid
<1>5. 0 \in S
  BY <1>2, <1>3, <1>4
<1>6. ASSUME NEW n \in Nat, n \in S, n + 1 <= Len(t)
      PROVE  Executed(fr, u)[Len(s) + (n + 1)] = Executed(mid, t)[n + 1]
  <2>1. /\ n <= Len(t) /\ n + 1 \in 1 .. Len(t) /\ n + 1 - 1 = n
        /\ Len(s) + (n + 1) \in 1 .. Len(u) /\ Len(s) + (n + 1) - 1 = Len(s) + n
    BY <1>1, <1>2, <1>6
  <2>2. Executed(fr, u)[Len(s) + (n + 1)] = ExecInstr(Executed(fr, u)[Len(s) + n], u[Len(s) + (n + 1)])
    BY <1>1, <2>1, ExecutedStep
  <2>3. Executed(mid, t)[n + 1] = ExecInstr(Executed(mid, t)[n], t[n + 1])
    BY <2>1, ExecutedStep
  <2>4. u[Len(s) + (n + 1)] = t[n + 1]
    BY <1>1, <2>1
  <2> QED
    BY <1>6, <2>1, <2>2, <2>3, <2>4
<1>7. \A n \in Nat : n \in S => n + 1 \in S
  BY <1>6
<1>8. Len(t) \in S
  <2> HIDE DEF S
  <2> QED
    BY <1>2, <1>5, <1>7, Inductive
<1>9. AtEnd(fr, u) = AtEnd(mid, t)
  BY <1>1, <1>2, <1>8 DEF AtEnd
<1> QED
  BY <1>9 DEF u, mid

----------------------------------------------------------------------------
(* Two frames that agree.                                                  *)

\* A frame with k temporaries.
Shaped(fr, k) == DOMAIN fr = Fields /\ DOMAIN fr.temps = 0 .. k - 1 /\ IsSequence(fr.out)

\* Two frames in which the same is in the variables as well, as far as they are the function's own.
SameVars(a, b) ==
  \A x : /\ <<x, 0>> \in DOMAIN a.vars <=> <<x, 0>> \in DOMAIN b.vars
         /\ <<x, 0>> \in DOMAIN a.vars => a.vars[<<x, 0>>] = b.vars[<<x, 0>>]

\* A frame of the source and one of what was made of it, which has temporaries and variables
\* of its own.
Agree(a, b, base, k) ==
  /\ Shaped(a, base) /\ Shaped(b, k)
  /\ \A t \in 0 .. base - 1 : a.temps[t] = b.temps[t]
  /\ SameVars(a, b)
  /\ a.out = b.out /\ a.at = b.at

\* setTemp changes at most one temporary.
LEMMA SetTempMeans ==
  ASSUME NEW fr, DOMAIN fr = Fields, NEW n, NEW v
  PROVE  LET s == SetTemp(fr, n, v)
         IN  /\ DOMAIN s = Fields /\ s.vars = fr.vars /\ s.out = fr.out /\ s.at = fr.at
             /\ DOMAIN s.temps = DOMAIN fr.temps
             /\ \A t \in DOMAIN fr.temps : s.temps[t] = IF n # NoDst /\ t = n THEN v ELSE fr.temps[t]
<1>1. CASE n = NoDst
  BY <1>1 DEF SetTemp
<1>2. CASE n # NoDst
  <2>1. SetTemp(fr, n, v) = [fr EXCEPT !.temps = [fr.temps EXCEPT ![n] = v]]
    BY <1>2 DEF SetTemp
  <2> DEFINE g == [fr.temps EXCEPT ![n] = v]
             s == [fr EXCEPT !.temps = g]
  <2>2. DOMAIN g = DOMAIN fr.temps /\ \A t \in DOMAIN fr.temps : g[t] = IF t = n THEN v ELSE fr.temps[t]
    OBVIOUS
  <2> HIDE DEF g
  <2>3. DOMAIN s = Fields /\ s.vars = fr.vars /\ s.out = fr.out /\ s.at = fr.at /\ s.temps = g
    BY DEF Fields
  <2> QED
    BY <1>2, <2>1, <2>2, <2>3
<1> QED
  BY <1>1, <1>2

\* The other fields of a frame.
LEMMA SetFields ==
  ASSUME NEW fr, DOMAIN fr = Fields, NEW e
  PROVE  /\ LET s == [fr EXCEPT !.out = e]
            IN  DOMAIN s = Fields /\ s.temps = fr.temps /\ s.vars = fr.vars /\ s.at = fr.at /\ s.out = e
         /\ LET s == [fr EXCEPT !.vars = e]
            IN  DOMAIN s = Fields /\ s.temps = fr.temps /\ s.out = fr.out /\ s.at = fr.at /\ s.vars = e
         /\ LET s == [fr EXCEPT !.bad = e]
            IN  DOMAIN s = Fields /\ s.temps = fr.temps /\ s.out = fr.out /\ s.at = fr.at /\ s.vars = fr.vars
         /\ LET s == [fr EXCEPT !.at = e]
            IN  DOMAIN s = Fields /\ s.temps = fr.temps /\ s.out = fr.out /\ s.vars = fr.vars /\ s.at = e
BY DEF Fields

\* What two frames are given alike leaves them in agreement.
LEMMA SetAgree ==
  ASSUME NEW base \in Nat, NEW k \in Nat, base <= k, NEW a, NEW b, Agree(a, b, base, k), NEW n, NEW v
  PROVE  Agree(SetTemp(a, n, v), SetTemp(b, n, v), base, k)
<1>1. DOMAIN a = Fields /\ DOMAIN b = Fields
  BY DEF Agree, Shaped
<1> DEFINE p == SetTemp(a, n, v)
           q == SetTemp(b, n, v)
<1>2. /\ DOMAIN p = Fields /\ p.vars = a.vars /\ p.out = a.out /\ p.at = a.at
      /\ DOMAIN p.temps = DOMAIN a.temps
      /\ \A t \in DOMAIN a.temps : p.temps[t] = IF n # NoDst /\ t = n THEN v ELSE a.temps[t]
  BY <1>1, SetTempMeans
<1>3. /\ DOMAIN q = Fields /\ q.vars = b.vars /\ q.out = b.out /\ q.at = b.at
      /\ DOMAIN q.temps = DOMAIN b.temps
      /\ \A t \in DOMAIN b.temps : q.temps[t] = IF n # NoDst /\ t = n THEN v ELSE b.temps[t]
  BY <1>1, SetTempMeans
<1> HIDE DEF p, q
<1>4. Shaped(p, base) /\ Shaped(q, k) /\ SameVars(p, q) /\ p.out = q.out /\ p.at = q.at
  BY <1>2, <1>3 DEF Agree, Shaped, SameVars
<1>5. \A t \in 0 .. base - 1 : p.temps[t] = q.temps[t]
  <2>1. \A t \in 0 .. base - 1 : t \in DOMAIN a.temps /\ t \in DOMAIN b.temps /\ a.temps[t] = b.temps[t]
    BY DEF Agree, Shaped
  <2> QED
    BY <1>2, <1>3, <2>1
<1>6. Agree(p, q, base, k)
  BY <1>4, <1>5 DEF Agree
<1> QED
  BY <1>6 DEF p, q

\* Frames that agree still do when both forget their calls, at the beginning of a block.
LEMMA OutAgree ==
  ASSUME NEW base, NEW k, NEW a, NEW b, Agree(a, b, base, k), NEW o, IsSequence(o)
  PROVE  Agree([a EXCEPT !.out = o], [b EXCEPT !.out = o], base, k)
<1>1. DOMAIN a = Fields /\ DOMAIN b = Fields
  BY DEF Agree, Shaped
<1> DEFINE p == [a EXCEPT !.out = o]
           q == [b EXCEPT !.out = o]
<1>2. DOMAIN p = Fields /\ p.temps = a.temps /\ p.vars = a.vars /\ p.at = a.at /\ p.out = o
  BY <1>1, SetFields
<1>3. DOMAIN q = Fields /\ q.temps = b.temps /\ q.vars = b.vars /\ q.at = b.at /\ q.out = o
  BY <1>1, SetFields
<1> HIDE DEF p, q
<1>4. Agree(p, q, base, k)
  BY <1>2, <1>3 DEF Agree, Shaped, SameVars
<1> QED
  BY <1>4 DEF p, q

\* A load that fails in one of two frames does not change what they agree on.
LEMMA BadAgree ==
  ASSUME NEW base, NEW k, NEW a, NEW b, Agree(a, b, base, k), NEW d, NEW e
  PROVE  Agree([a EXCEPT !.bad = d], [b EXCEPT !.bad = e], base, k)
<1>1. DOMAIN a = Fields /\ DOMAIN b = Fields
  BY DEF Agree, Shaped
<1> DEFINE p == [a EXCEPT !.bad = d]
           q == [b EXCEPT !.bad = e]
<1>2. DOMAIN p = Fields /\ p.temps = a.temps /\ p.vars = a.vars /\ p.at = a.at /\ p.out = a.out
  BY <1>1, SetFields
<1>3. DOMAIN q = Fields /\ q.temps = b.temps /\ q.vars = b.vars /\ q.at = b.at /\ q.out = b.out
  BY <1>1, SetFields
<1> HIDE DEF p, q
<1>4. Agree(p, q, base, k)
  BY <1>2, <1>3 DEF Agree, Shaped, SameVars
<1> QED
  BY <1>4 DEF p, q

\* A store of the same value to one of the function's own variables.
LEMMA VarAgree ==
  ASSUME NEW base, NEW k, NEW a, NEW b, Agree(a, b, base, k), NEW y, NEW v
  PROVE  Agree([a EXCEPT !.vars = WithVar(a.vars, <<y, 0>>, v)],
               [b EXCEPT !.vars = WithVar(b.vars, <<y, 0>>, v)], base, k)
<1>1. DOMAIN a = Fields /\ DOMAIN b = Fields
  BY DEF Agree, Shaped
<1> DEFINE f == WithVar(a.vars, <<y, 0>>, v)
           g == WithVar(b.vars, <<y, 0>>, v)
           p == [a EXCEPT !.vars = f]
           q == [b EXCEPT !.vars = g]
<1>2. \A n : /\ n \in DOMAIN f <=> n \in DOMAIN a.vars \/ n = <<y, 0>>
             /\ n \in DOMAIN f => f[n] = IF n = <<y, 0>> THEN v ELSE a.vars[n]
  BY DEF WithVar
<1>3. \A n : /\ n \in DOMAIN g <=> n \in DOMAIN b.vars \/ n = <<y, 0>>
             /\ n \in DOMAIN g => g[n] = IF n = <<y, 0>> THEN v ELSE b.vars[n]
  BY DEF WithVar
<1> HIDE DEF f, g
<1>4. DOMAIN p = Fields /\ p.temps = a.temps /\ p.vars = f /\ p.at = a.at /\ p.out = a.out
  BY <1>1, SetFields
<1>5. DOMAIN q = Fields /\ q.temps = b.temps /\ q.vars = g /\ q.at = b.at /\ q.out = b.out
  BY <1>1, SetFields
<1> HIDE DEF p, q
<1>6. SameVars(p, q)
  BY <1>2, <1>3, <1>4, <1>5 DEF Agree, SameVars
<1>7. Agree(p, q, base, k)
  BY <1>4, <1>5, <1>6 DEF Agree, Shaped
<1> QED
  BY <1>7 DEF p, q, f, g

\* Arguments have the same values.
LEMMA ValueAgree ==
  ASSUME NEW base, NEW k, NEW a, NEW b, Agree(a, b, base, k), NEW e, ValidTemp(e, base)
  PROVE  ValueOf(a, e) = ValueOf(b, e)
BY DEF ValueOf, ValidTemp, Agree

\* So the arguments of an instruction have the same values.
LEMMA ValuesAgree ==
  ASSUME NEW base, NEW k, NEW a, NEW b, Agree(a, b, base, k), NEW args,
         \A e \in Elements(args) : ValidTemp(e, base)
  PROVE  Values(a, args) = Values(b, args)
<1>1. \A i \in DOMAIN args : ValueOf(a, args[i]) = ValueOf(b, args[i])
  BY ValueAgree DEF Elements
<1> QED
  BY <1>1 DEF Values

\* An instruction of the function's own does the same in both.
LEMMA SimpleAgree ==
  ASSUME NEW base \in Nat, NEW k \in Nat, base <= k, NEW a, NEW b, Agree(a, b, base, k),
         NEW c, Fits(c, base), c.name = <<c.name[1], 0>>
  PROVE  Agree(Simple(a, c), Simple(b, c), base, k)
<1> DEFINE vs == Values(a, c.args)
           y == c.name[1]
<1>1. Values(b, c.args) = vs
  BY ValuesAgree DEF Fits
<1>2. c.name = <<y, 0>>
  OBVIOUS
<1> HIDE DEF vs, y
<1>3. CASE c.op = "store"
  <2>1. /\ Simple(a, c) = [a EXCEPT !.vars = WithVar(a.vars, <<y, 0>>, vs[1])]
        /\ Simple(b, c) = [b EXCEPT !.vars = WithVar(b.vars, <<y, 0>>, vs[1])]
    BY <1>1, <1>2, <1>3 DEF Simple, vs
  <2> QED
    BY <2>1, VarAgree
<1>4. CASE c.op = "load" /\ c.name \in DOMAIN a.vars
  <2>1. c.name \in DOMAIN b.vars /\ a.vars[c.name] = b.vars[c.name]
    BY <1>2, <1>4 DEF Agree, SameVars
  <2>2. /\ Simple(a, c) = SetTemp(a, c.dst, a.vars[c.name])
        /\ Simple(b, c) = SetTemp(b, c.dst, a.vars[c.name])
    BY <1>4, <2>1 DEF Simple
  <2> QED
    BY <2>2, SetAgree
<1>5. CASE c.op = "load" /\ c.name \notin DOMAIN a.vars
  <2>1. c.name \notin DOMAIN b.vars
    BY <1>2, <1>5 DEF Agree, SameVars
  <2>2. Simple(a, c) = [a EXCEPT !.bad = TRUE] /\ Simple(b, c) = [b EXCEPT !.bad = TRUE]
    BY <1>5, <2>1 DEF Simple
  <2> QED
    BY <2>2, BadAgree
<1>6. CASE c.op = "ext"
  <2> DEFINE p == SetTemp(a, c.dst, Mix(vs))
             q == SetTemp(b, c.dst, Mix(vs))
             o == Append(p.out, vs)
  <2>1. Agree(p, q, base, k)
    BY SetAgree
  <2>2. Simple(a, c) = [p EXCEPT !.out = Append(@, vs)] /\ Simple(b, c) = [q EXCEPT !.out = Append(@, vs)]
    BY <1>1, <1>6 DEF Simple, vs
  <2> HIDE DEF p, q
  <2>3. p.out = q.out /\ IsSequence(o)
    BY <2>1, AppendSequence DEF Agree, Shaped
  <2>4. Simple(a, c) = [p EXCEPT !.out = o] /\ Simple(b, c) = [q EXCEPT !.out = o]
    BY <2>2, <2>3
  <2> HIDE DEF o
  <2> QED
    BY <2>1, <2>3, <2>4, OutAgree
<1>7. CASE c.op \notin {"store", "load", "ext"}
  <2>1. Simple(a, c) = SetTemp(a, c.dst, Mix(vs)) /\ Simple(b, c) = SetTemp(b, c.dst, Mix(vs))
    BY <1>1, <1>7 DEF Simple, vs
  <2> QED
    BY <2>1, SetAgree
<1> QED
  BY <1>3, <1>4, <1>5, <1>6, <1>7

\* And so does a call that stays a call.
LEMMA ExecAgree ==
  ASSUME CalleeOK, NEW base \in Nat, NEW k \in Nat, base <= k, NEW a, NEW b, Agree(a, b, base, k),
         NEW c, Fits(c, base), c.name = <<c.name[1], 0>>
  PROVE  Agree(ExecInstr(a, c), ExecInstr(b, c), base, k)
<1>1. CASE c.op # "call"
  BY <1>1, SimpleAgree DEF ExecInstr
<1>2. CASE c.op = "call"
  <2> DEFINE f == source.callee
             inner == Called(Frame(f.params, f.temps, Values(a, c.args)), f.code)[Len(f.code)]
             v == ValueOf(inner, f.ret)
             p == SetTemp(a, c.dst, v)
             q == SetTemp(b, c.dst, v)
             o == p.out \o inner.out
             r == [p EXCEPT !.out = o]
             s == [q EXCEPT !.out = o]
  <2>1. Values(b, c.args) = Values(a, c.args)
    BY ValuesAgree DEF Fits
  <2>2. /\ ExecInstr(a, c) = [p EXCEPT !.out = @ \o inner.out, !.bad = @ \/ inner.bad]
        /\ ExecInstr(b, c) = [q EXCEPT !.out = @ \o inner.out, !.bad = @ \/ inner.bad]
    BY <1>2, <2>1 DEF ExecInstr
  <2>3. IsSequence(inner.out)
    <3>1. Len(f.code) \in 0 .. Len(f.code)
      BY SequenceShape DEF CalleeOK
    <3> QED
      BY <3>1, CalleeSafe DEF Sound, CalleeOK
  <2> HIDE DEF inner, v
  <2>4. Agree(p, q, base, k)
    BY SetAgree
  <2> HIDE DEF p, q
  <2>5. p.out = q.out /\ IsSequence(o)
    BY <2>3, <2>4, ConcatSequence DEF Agree, Shaped
  <2>6. /\ ExecInstr(a, c) = [r EXCEPT !.bad = p.bad \/ inner.bad]
        /\ ExecInstr(b, c) = [s EXCEPT !.bad = q.bad \/ inner.bad]
    BY <2>2, <2>4, <2>5 DEF Agree, Shaped, Fields
  <2> HIDE DEF o
  <2>7. Agree(r, s, base, k)
    BY <2>4, <2>5, OutAgree
  <2> HIDE DEF r, s
  <2> QED
    BY <2>6, <2>7, BadAgree
<1> QED
  BY <1>1, <1>2

----------------------------------------------------------------------------
(* The temporaries of an inlined call.                                     *)

\* How many there are below a number, with and without one of them.
LEMMA CountAll ==
  ASSUME NEW t \in Nat
  PROVE  IsFiniteSet(0 .. t - 1) /\ Cardinality(0 .. t - 1) = t
<1> DEFINE b == t - 1
<1>1. b \in Int /\ (0 > b <=> t = 0) /\ b - 0 + 1 = t
  OBVIOUS
<1> HIDE DEF b
<1>2. IsFiniteSet(0 .. b) /\ Cardinality(0 .. b) = IF 0 > b THEN 0 ELSE b - 0 + 1
  BY <1>1, FS_Interval
<1>3. IsFiniteSet(0 .. b) /\ Cardinality(0 .. b) = t
  BY <1>1, <1>2
<1> QED
  BY <1>3 DEF b

\* The numbers that tempMap gives.
TempNumber(c, f, next, t) ==
  IF c.dst = NoDst THEN next + t
  ELSE IF t = f.ret[2] THEN c.dst
  ELSE IF t < f.ret[2] THEN next + t ELSE next + t - 1

\* tempMap gives those numbers, if the result of the callee takes the place of its temporary.
LEMMA TempMapIs ==
  ASSUME NEW c, NEW f, f.temps \in Nat, f.ret = <<f.ret[1], f.ret[2]>>, ValidTemp(f.ret, f.temps),
         NEW next \in Nat, c.dst # NoDst => IsTemp(f.ret),
         NEW t \in 0 .. f.temps - 1
  PROVE  TempMap(c, f, next)[t] = TempNumber(c, f, next, t)
<1> DEFINE r == f.ret[2]
           S == {u \in 0 .. t - 1 : ~(f.ret = Temp(u) /\ c.dst # NoDst)}
<1>1. IsFiniteSet(0 .. t - 1) /\ Cardinality(0 .. t - 1) = t
  BY CountAll
<1>2. TempMap(c, f, next)[t] = IF f.ret = Temp(t) /\ c.dst # NoDst THEN c.dst ELSE next + Cardinality(S)
  BY DEF TempMap
<1>3. CASE c.dst = NoDst
  <2>1. S = 0 .. t - 1
    BY <1>3
  <2> HIDE DEF S
  <2> QED
    BY <1>1, <1>2, <1>3, <2>1 DEF TempNumber
<1>4. CASE c.dst # NoDst
  <2>1. f.ret = Temp(r) /\ r \in 0 .. f.temps - 1
    BY <1>4 DEF IsTemp, ValidTemp, Temp
  <2>2. \A u : f.ret = Temp(u) <=> u = r
    BY <2>1 DEF Temp
  <2>3. S = (0 .. t - 1) \ {r}
    BY <1>4, <2>2
  <2>4. TempMap(c, f, next)[t] = IF t = r THEN c.dst ELSE next + Cardinality(S)
    BY <1>2, <1>4, <2>2
  <2>5. TempNumber(c, f, next, t) = IF t = r THEN c.dst ELSE IF t < r THEN next + t ELSE next + t - 1
    BY <1>4 DEF TempNumber
  <2> HIDE DEF S, r
  <2>6. ASSUME t < r PROVE Cardinality(S) = t
    <3>1. S = 0 .. t - 1
      BY <2>1, <2>3, <2>6
    <3> QED
      BY <1>1, <3>1
  <2>7. ASSUME r < t PROVE Cardinality(S) = t - 1
    <3> DEFINE D == 0 .. t - 1
    <3>1. r \in D
      BY <2>1, <2>7
    <3>2. IsFiniteSet(D) /\ Cardinality(D) = t /\ S = D \ {r}
      BY <1>1, <2>3
    <3> HIDE DEF D
    <3>3. Cardinality(D \ {r}) = Cardinality(D) - 1
      BY <3>1, <3>2, FS_RemoveElement
    <3> QED
      BY <3>2, <3>3
  <2>8. t < r \/ t = r \/ r < t
    BY <2>1
  <2>9. next + (t - 1) = next + t - 1 /\ ~(r < r)
    BY <2>1
  <2>10. CASE t < r
    BY <2>1, <2>4, <2>5, <2>6, <2>10
  <2>11. CASE t = r
    BY <2>4, <2>5, <2>11
  <2>12. CASE r < t
    BY <2>1, <2>4, <2>5, <2>7, <2>9, <2>12
  <2> QED
    BY <2>8, <2>10, <2>11, <2>12
<1> QED
  BY <1>3, <1>4

\* No two of the callee's temporaries get one number; but for the one that is returned they are
\* none of the function's own.
LEMMA TempsApart ==
  ASSUME NEW c, NEW f, f.temps \in Nat, f.ret = <<f.ret[1], f.ret[2]>>, ValidTemp(f.ret, f.temps),
         NEW base \in Nat, NEW next \in Nat, base <= next,
         c.dst \in 0 .. base - 1 \/ c.dst = NoDst,
         c.dst # NoDst => IsTemp(f.ret)
  PROVE  LET map == TempMap(c, f, next)
         IN  /\ \A t, u \in 0 .. f.temps - 1 : t # u => map[t] # map[u]
             /\ \A t \in 0 .. f.temps - 1 : map[t] \in 0 .. base - 1 => map[t] = c.dst
             /\ c.dst # NoDst => f.ret[2] \in 0 .. f.temps - 1 /\ map[f.ret[2]] = c.dst
<1> DEFINE map == TempMap(c, f, next)
<1>1. \A t \in 0 .. f.temps - 1 : map[t] = TempNumber(c, f, next, t)
  BY TempMapIs
<1> HIDE DEF map
<1>2. c.dst # NoDst => f.ret[2] \in 0 .. f.temps - 1
  BY DEF ValidTemp
<1>3. ASSUME NEW t \in 0 .. f.temps - 1, NEW u \in 0 .. f.temps - 1, t # u
      PROVE  TempNumber(c, f, next, t) # TempNumber(c, f, next, u)
  BY <1>2, <1>3 DEF TempNumber
<1>4. ASSUME NEW t \in 0 .. f.temps - 1, TempNumber(c, f, next, t) \in 0 .. base - 1
      PROVE  TempNumber(c, f, next, t) = c.dst
  BY <1>2, <1>4 DEF TempNumber
<1>5. c.dst # NoDst => TempNumber(c, f, next, f.ret[2]) = c.dst
  BY DEF TempNumber
<1> QED
  BY <1>1, <1>2, <1>3, <1>4, <1>5 DEF map

\* Numbers below k for the temporaries below n, no number twice; of those below base only dst.
MapApart(map, n, dst, base, k) ==
  /\ \A t \in 0 .. n - 1 : map[t] \in 0 .. k - 1
  /\ \A t, u \in 0 .. n - 1 : t # u => map[t] # map[u]
  /\ \A t \in 0 .. n - 1 : map[t] \in 0 .. base - 1 => map[t] = dst

\* What a frame of the callee would hold, as far as it has been set, is in b under other names.
Mirrors(b, inner, set, map, id) ==
  /\ \A t \in set : b.temps[map[t]] = inner.temps[t]
  /\ \A x : <<x, 0>> \in DOMAIN inner.vars =>
              <<x, id>> \in DOMAIN b.vars /\ b.vars[<<x, id>>] = inner.vars[<<x, 0>>]

\* As Agree, but for the temporary that a call is to set.
AgreeBut(a, b, dst, base, k) ==
  /\ Shaped(a, base) /\ Shaped(b, k)
  /\ \A t \in 0 .. base - 1 : t # dst => a.temps[t] = b.temps[t]
  /\ SameVars(a, b)
  /\ a.out = b.out /\ a.at = b.at

\* remapInstr, part by part.
MovedArg(e, map) == IF IsTemp(e) THEN Temp(map[e[2]]) ELSE e
IsMoved(r, d, map, id) ==
  /\ r.op = d.op
  /\ r.dst = IF d.dst = NoDst THEN NoDst ELSE map[d.dst]
  /\ r.args = [i \in DOMAIN d.args |-> MovedArg(d.args[i], map)]
  /\ d.op \in {"load", "store"} => r.name = <<d.name[1], id>>

\* remapInstr changes these parts and no other, but for the instructions that it does not know.
LEMMA RemapIs ==
  ASSUME NEW d, HasAll(d), d.op # "deep", NEW map, NEW id
  PROVE  IsMoved(Remap(d, map, id), d, map, id)
<1> DEFINE args == [i \in DOMAIN d.args |-> MovedArg(d.args[i], map)]
           dst == IF d.dst = NoDst THEN d.dst ELSE map[d.dst]
           name == IF d.op \in {"load", "store"} THEN <<d.name[1], id>> ELSE d.name
           r == [d EXCEPT !.dst = dst, !.args = args, !.name = name]
<1>1. Remap(d, map, id) = r
  BY DEF Remap, MovedArg
<1> HIDE DEF args, dst, name
<1>2. r.op = d.op /\ r.dst = dst /\ r.args = args /\ r.name = name
  BY DEF HasAll
<1> HIDE DEF r
<1> QED
  BY <1>1, <1>2 DEF args, dst, name, IsMoved

\* The moved arguments have the values that the callee's have.
LEMMA ValuesMirrored ==
  ASSUME NEW b, NEW inner, NEW set, NEW map, NEW id, Mirrors(b, inner, set, map, id),
         NEW args, \A e \in Elements(args) : IsTemp(e) => e[2] \in set
  PROVE  Values(b, [i \in DOMAIN args |-> MovedArg(args[i], map)]) = Values(inner, args)
<1>1. ASSUME NEW e \in Elements(args) PROVE ValueOf(b, MovedArg(e, map)) = ValueOf(inner, e)
  <2>1. CASE IsTemp(e)
    <3>1. MovedArg(e, map) = Temp(map[e[2]]) /\ b.temps[map[e[2]]] = inner.temps[e[2]]
      BY <1>1, <2>1 DEF MovedArg, Mirrors
    <3>2. ValueOf(b, Temp(map[e[2]])) = b.temps[map[e[2]]] /\ ValueOf(inner, e) = inner.temps[e[2]]
      BY <2>1 DEF ValueOf, IsTemp, Temp
    <3> QED
      BY <3>1, <3>2
  <2>2. CASE ~IsTemp(e)
    BY <2>2 DEF MovedArg, ValueOf
  <2> QED
    BY <2>1, <2>2
<1> DEFINE moved == [i \in DOMAIN args |-> MovedArg(args[i], map)]
<1>2. DOMAIN moved = DOMAIN args /\ \A i \in DOMAIN args : moved[i] = MovedArg(args[i], map)
  OBVIOUS
<1> HIDE DEF moved
<1>3. \A i \in DOMAIN args : ValueOf(b, moved[i]) = ValueOf(inner, args[i])
  BY <1>1, <1>2 DEF Elements
<1>4. Values(b, moved) = Values(inner, args)
  BY <1>2, <1>3 DEF Values
<1> QED
  BY <1>4 DEF moved

\* Setting a temporary of the callee, under its number in the caller.
LEMMA SetMirrored ==
  ASSUME NEW n, NEW base \in Nat, NEW k \in Nat, base <= k, NEW dst, NEW map, MapApart(map, n, dst, base, k),
         NEW a, NEW b, NEW inner, NEW set \in SUBSET (0 .. n - 1), NEW id,
         Shaped(inner, n), Mirrors(b, inner, set, map, id), AgreeBut(a, b, dst, base, k),
         NEW t \in 0 .. n - 1, NEW v
  PROVE  LET p == SetTemp(inner, t, v)
             q == SetTemp(b, map[t], v)
         IN  /\ Shaped(p, n) /\ p.out = inner.out /\ p.vars = inner.vars
             /\ Mirrors(q, p, set \cup {t}, map, id) /\ AgreeBut(a, q, dst, base, k)
<1> DEFINE p == SetTemp(inner, t, v)
           q == SetTemp(b, map[t], v)
<1>1. DOMAIN inner = Fields /\ DOMAIN b = Fields
  BY DEF Shaped, AgreeBut
<1>2. /\ DOMAIN p = Fields /\ p.vars = inner.vars /\ p.out = inner.out /\ p.at = inner.at
      /\ DOMAIN p.temps = DOMAIN inner.temps
      /\ \A u \in DOMAIN inner.temps : p.temps[u] = IF t # NoDst /\ u = t THEN v ELSE inner.temps[u]
  BY <1>1, SetTempMeans
<1>3. /\ DOMAIN q = Fields /\ q.vars = b.vars /\ q.out = b.out /\ q.at = b.at
      /\ DOMAIN q.temps = DOMAIN b.temps
      /\ \A u \in DOMAIN b.temps : q.temps[u] = IF map[t] # NoDst /\ u = map[t] THEN v ELSE b.temps[u]
  BY <1>1, SetTempMeans
<1> HIDE DEF p, q
<1>4. map[t] \in 0 .. k - 1 /\ map[t] # NoDst /\ t # NoDst
  BY DEF MapApart, NoDst
<1>5. Shaped(p, n) /\ Shaped(q, k)
  BY <1>2, <1>3 DEF Shaped, AgreeBut
<1>6. DOMAIN inner.temps = 0 .. n - 1 /\ DOMAIN b.temps = 0 .. k - 1
  BY DEF Shaped, AgreeBut
<1>7. ASSUME NEW u \in set \cup {t} PROVE q.temps[map[u]] = p.temps[u]
  <2>1. u \in 0 .. n - 1 /\ map[u] \in 0 .. k - 1
    BY DEF MapApart
  <2>2. CASE u = t
    BY <1>2, <1>3, <1>4, <1>6, <2>1, <2>2
  <2>3. CASE u # t
    <3>1. map[u] # map[t] /\ b.temps[map[u]] = inner.temps[u]
      BY <1>7, <2>1, <2>3 DEF MapApart, Mirrors
    <3> QED
      BY <1>2, <1>3, <1>6, <2>1, <2>3, <3>1
  <2> QED
    BY <2>2, <2>3
<1>8. Mirrors(q, p, set \cup {t}, map, id)
  BY <1>2, <1>3, <1>7 DEF Mirrors
<1>9. ASSUME NEW u \in 0 .. base - 1, u # dst PROVE a.temps[u] = q.temps[u]
  <2>1. u # map[t] /\ a.temps[u] = b.temps[u]
    BY <1>9 DEF MapApart, AgreeBut
  <2>2. u \in DOMAIN b.temps
    BY <1>6
  <2> QED
    BY <1>3, <2>1, <2>2
<1>10. AgreeBut(a, q, dst, base, k)
  BY <1>3, <1>5, <1>9 DEF AgreeBut, SameVars
<1> QED
  BY <1>2, <1>5, <1>8, <1>10 DEF p, q

----------------------------------------------------------------------------
(* What is inlined does what the callee does.                              *)

\* An instruction of a callee that calls nothing, and what remapInstr makes of it, do the same, each
\* in its frame.
LEMMA StepMirrored ==
  ASSUME NEW n, NEW base \in Nat, NEW k \in Nat, base <= k, NEW dst, NEW map, MapApart(map, n, dst, base, k),
         NEW a, NEW b, NEW inner, NEW set \in SUBSET (0 .. n - 1), NEW id, id # 0,
         Shaped(inner, n), Mirrors(b, inner, set, map, id), AgreeBut(a, b, dst, base, k),
         NEW d, HasAll(d), Fits(d, n), d.name = <<d.name[1], 0>>, d.op \notin {"call", "ext", "deep"},
         \A e \in Elements(d.args) : IsTemp(e) => e[2] \in set,
         d.op = "load" => d.name \in DOMAIN inner.vars
  PROVE  LET p == Simple(inner, d)
             q == ExecInstr(b, Remap(d, map, id))
             more == IF d.op = "store" THEN {} ELSE {d.dst}
         IN  /\ Shaped(p, n) /\ p.out = inner.out
             /\ Mirrors(q, p, set \cup more, map, id) /\ AgreeBut(a, q, dst, base, k)
<1> DEFINE r == Remap(d, map, id)
           vs == Values(inner, d.args)
           y == d.name[1]
<1>1. /\ r.op = d.op
      /\ r.dst = IF d.dst = NoDst THEN NoDst ELSE map[d.dst]
      /\ r.args = [i \in DOMAIN d.args |-> MovedArg(d.args[i], map)]
      /\ d.op \in {"load", "store"} => r.name = <<y, id>>
  <2>1. IsMoved(r, d, map, id)
    BY RemapIs
  <2> HIDE DEF r
  <2> QED
    BY <2>1 DEF IsMoved
<1>2. d.name = <<y, 0>>
  OBVIOUS
<1> HIDE DEF r, y
<1>3. Values(b, r.args) = vs
  BY <1>1, ValuesMirrored
<1>4. ExecInstr(b, r) = Simple(b, r)
  BY <1>1 DEF ExecInstr
<1>5. d.op # "store" => d.dst \in 0 .. n - 1 /\ r.dst = map[d.dst]
  <2>1. d.op # "store" => d.dst \in 0 .. n - 1
    BY DEF Fits
  <2>2. d.dst \in 0 .. n - 1 => d.dst # NoDst
    BY DEF NoDst
  <2> QED
    BY <1>1, <2>1, <2>2
<1> HIDE DEF vs
<1>6. CASE d.op = "store"
  <2> DEFINE f == WithVar(inner.vars, <<y, 0>>, vs[1])
             g == WithVar(b.vars, <<y, id>>, vs[1])
             p == [inner EXCEPT !.vars = f]
             q == [b EXCEPT !.vars = g]
  <2>1. Simple(inner, d) = p /\ Simple(b, r) = q
    BY <1>1, <1>2, <1>3, <1>6 DEF Simple, vs
  <2>2. DOMAIN inner = Fields /\ DOMAIN b = Fields
    BY DEF Shaped, AgreeBut
  <2>3. \A m : /\ m \in DOMAIN f <=> m \in DOMAIN inner.vars \/ m = <<y, 0>>
               /\ m \in DOMAIN f => f[m] = IF m = <<y, 0>> THEN vs[1] ELSE inner.vars[m]
    BY DEF WithVar
  <2>4. \A m : /\ m \in DOMAIN g <=> m \in DOMAIN b.vars \/ m = <<y, id>>
               /\ m \in DOMAIN g => g[m] = IF m = <<y, id>> THEN vs[1] ELSE b.vars[m]
    BY DEF WithVar
  <2> HIDE DEF f, g
  <2>5. /\ DOMAIN p = Fields /\ p.temps = inner.temps /\ p.out = inner.out /\ p.vars = f
        /\ DOMAIN q = Fields /\ q.temps = b.temps /\ q.out = b.out /\ q.at = b.at /\ q.vars = g
    BY <2>2, SetFields
  <2> HIDE DEF p, q
  <2>6. Shaped(p, n) /\ Shaped(q, k)
    BY <2>5 DEF Shaped, AgreeBut
  <2>7. Mirrors(q, p, set, map, id)
    <3>1. \A x : <<x, 0>> \in DOMAIN f => <<x, id>> \in DOMAIN g /\ g[<<x, id>>] = f[<<x, 0>>]
      <4> SUFFICES ASSUME NEW x, <<x, 0>> \in DOMAIN f
                   PROVE  <<x, id>> \in DOMAIN g /\ g[<<x, id>>] = f[<<x, 0>>]
        OBVIOUS
      <4>1. CASE x = y
        BY <2>3, <2>4, <4>1
      <4>2. CASE x # y
        <5>1. <<x, 0>> # <<y, 0>> /\ <<x, id>> # <<y, id>>
          BY <4>2
        <5>2. <<x, 0>> \in DOMAIN inner.vars
          BY <2>3, <5>1
        <5>3. <<x, id>> \in DOMAIN b.vars /\ b.vars[<<x, id>>] = inner.vars[<<x, 0>>]
          BY <5>2 DEF Mirrors
        <5> QED
          BY <2>3, <2>4, <5>1, <5>2, <5>3
      <4> QED
        BY <4>1, <4>2
    <3> QED
      BY <2>5, <3>1 DEF Mirrors
  <2>8. SameVars(a, q)
    <3>1. \A x : <<x, 0>> # <<y, id>>
      OBVIOUS
    <3> QED
      BY <2>4, <2>5, <3>1 DEF SameVars, AgreeBut
  <2>9. AgreeBut(a, q, dst, base, k)
    BY <2>5, <2>6, <2>8 DEF AgreeBut
  <2>10. set \cup {} = set
    OBVIOUS
  <2> QED
    BY <1>4, <1>6, <2>1, <2>5, <2>6, <2>7, <2>9, <2>10 DEF r
<1>7. ASSUME NEW v, d.op # "store", Simple(inner, d) = SetTemp(inner, d.dst, v), Simple(b, r) = SetTemp(b, r.dst, v)
      PROVE  /\ Shaped(Simple(inner, d), n) /\ Simple(inner, d).out = inner.out
             /\ Mirrors(ExecInstr(b, r), Simple(inner, d), set \cup {d.dst}, map, id)
             /\ AgreeBut(a, ExecInstr(b, r), dst, base, k)
  <2> DEFINE t == d.dst
             p == SetTemp(inner, t, v)
             q == SetTemp(b, map[t], v)
  <2>1. t \in 0 .. n - 1 /\ r.dst = map[t]
    BY <1>5, <1>7
  <2> HIDE DEF t
  <2>2. /\ Shaped(p, n) /\ p.out = inner.out /\ p.vars = inner.vars
        /\ Mirrors(q, p, set \cup {t}, map, id) /\ AgreeBut(a, q, dst, base, k)
    BY <2>1, SetMirrored
  <2>3. Simple(inner, d) = p /\ ExecInstr(b, r) = q
    BY <1>4, <1>7, <2>1 DEF t
  <2> HIDE DEF p, q
  <2> QED
    BY <2>2, <2>3 DEF t
<1>8. CASE d.op = "load"
  <2>1. /\ <<y, 0>> \in DOMAIN inner.vars
        /\ <<y, id>> \in DOMAIN b.vars /\ b.vars[<<y, id>>] = inner.vars[<<y, 0>>]
    BY <1>2, <1>8 DEF Mirrors
  <2> DEFINE v == inner.vars[<<y, 0>>]
  <2>2. Simple(inner, d) = SetTemp(inner, d.dst, v) /\ Simple(b, r) = SetTemp(b, r.dst, v)
    BY <1>1, <1>2, <1>8, <2>1 DEF Simple
  <2> HIDE DEF v
  <2> QED
    BY <1>7, <1>8, <2>2 DEF r
<1>9. CASE d.op \notin {"store", "load"}
  <2>1. Simple(inner, d) = SetTemp(inner, d.dst, Mix(vs)) /\ Simple(b, r) = SetTemp(b, r.dst, Mix(vs))
    BY <1>1, <1>3, <1>9 DEF Simple, vs
  <2> QED
    BY <1>7, <1>9, <2>1 DEF r
<1> QED
  BY <1>6, <1>8, <1>9

\* A variable of an inlined call is none of the function's own.
LEMMA StoreElsewhere ==
  ASSUME NEW base, NEW k, NEW a, NEW b, Agree(a, b, base, k), NEW y, NEW id, id # 0, NEW v
  PROVE  Agree(a, [b EXCEPT !.vars = WithVar(b.vars, <<y, id>>, v)], base, k)
<1>1. DOMAIN b = Fields
  BY DEF Agree, Shaped
<1> DEFINE g == WithVar(b.vars, <<y, id>>, v)
           q == [b EXCEPT !.vars = g]
<1>2. \A x : /\ <<x, 0>> \in DOMAIN g <=> <<x, 0>> \in DOMAIN b.vars
             /\ <<x, 0>> \in DOMAIN g => g[<<x, 0>>] = b.vars[<<x, 0>>]
  BY DEF WithVar
<1> HIDE DEF g
<1>3. DOMAIN q = Fields /\ q.temps = b.temps /\ q.vars = g /\ q.at = b.at /\ q.out = b.out
  BY <1>1, SetFields
<1> HIDE DEF q
<1>4. Agree(a, q, base, k)
  BY <1>2, <1>3 DEF Agree, Shaped, SameVars
<1> QED
  BY <1>4 DEF q, g

\* The stores of the arguments, one for each parameter (inlineCall).
ArgStores(params, args, id) == [i \in DOMAIN params |-> StoreArg(params[i], args[i], id)]
ArgsStored(q, a, params, args, id, n) ==
  \A i \in 1 .. n : /\ <<params[i], id>> \in DOMAIN q.vars
                    /\ q.vars[<<params[i], id>>] = ValueOf(a, args[i])

\* One store more.
LEMMA ArgStored ==
  ASSUME NEW base, NEW k, NEW a, NEW q, Agree(a, q, base, k), NEW params, ValidParams(params),
         NEW args, NEW id, id # 0, NEW n \in Nat, 1 .. n + 1 \subseteq DOMAIN params,
         ValidTemp(args[n + 1], base), ArgsStored(q, a, params, args, id, n)
  PROVE  LET r == ExecInstr(q, StoreArg(params[n + 1], args[n + 1], id))
         IN  Agree(a, r, base, k) /\ ArgsStored(r, a, params, args, id, n + 1)
<1> DEFINE y == params[n + 1]
           e == args[n + 1]
           c == StoreArg(y, e, id)
           v == ValueOf(a, e)
           g == WithVar(q.vars, <<y, id>>, v)
           r == [q EXCEPT !.vars = g]
<1>1. ExecInstr(q, c) = r
  <2>1. c.op = "store" /\ c.name = <<y, id>> /\ c.args = <<e>>
    BY DEF StoreArg
  <2> HIDE DEF c, e, y
  <2>2. Values(q, c.args)[1] = ValueOf(q, e)
    BY <2>1 DEF Values
  <2>3. ValueOf(q, e) = v
    BY ValueAgree DEF e
  <2>4. ExecInstr(q, c) = [q EXCEPT !.vars = WithVar(@, c.name, Values(q, c.args)[1])]
    BY <2>1 DEF ExecInstr, Simple
  <2> QED
    BY <2>1, <2>2, <2>3, <2>4
<1>2. Agree(a, r, base, k)
  BY StoreElsewhere
<1>3. r.vars = g
  BY SetFields DEF Agree, Shaped
<1>4. \A m : /\ m \in DOMAIN g <=> m \in DOMAIN q.vars \/ m = <<y, id>>
             /\ m \in DOMAIN g => g[m] = IF m = <<y, id>> THEN v ELSE q.vars[m]
  BY DEF WithVar
<1> HIDE DEF r, g
<1>5. ASSUME NEW i \in 1 .. n + 1
      PROVE  <<params[i], id>> \in DOMAIN g /\ g[<<params[i], id>>] = ValueOf(a, args[i])
  <2>1. CASE i = n + 1
    BY <1>4, <2>1
  <2>2. CASE i # n + 1
    <3>1. i \in 1 .. n /\ i \in DOMAIN params /\ n + 1 \in DOMAIN params
      BY <2>2
    <3>2. params[i] # y
      BY <2>2, <3>1 DEF ValidParams
    <3>3. <<params[i], id>> # <<y, id>>
      BY <3>2
    <3> QED
      BY <1>4, <3>1, <3>3 DEF ArgsStored
  <2> QED
    BY <2>1, <2>2
<1>6. ArgsStored(r, a, params, args, id, n + 1)
  BY <1>3, <1>5 DEF ArgsStored
<1> QED
  BY <1>1, <1>2, <1>6

\* All of them: the parameters are set and the function's own frame is as it was.
LEMMA ArgsArePlaced ==
  ASSUME NEW base, NEW k, NEW a, NEW b, Agree(a, b, base, k),
         NEW params, IsSequence(params), ValidParams(params), NEW args, DOMAIN args = DOMAIN params,
         \A e \in Elements(args) : ValidTemp(e, base), NEW id, id # 0
  PROVE  LET s == ArgStores(params, args, id)
             q == AtEnd(b, s)
         IN  /\ IsSequence(s) /\ Agree(a, q, base, k)
             /\ ArgsStored(q, a, params, args, id, Len(params))
<1> DEFINE s == ArgStores(params, args, id)
           P(n) == Agree(a, Executed(b, s)[n], base, k)
                     /\ ArgsStored(Executed(b, s)[n], a, params, args, id, n)
           S == {n \in Nat : n <= Len(params) => P(n)}
<1>1. Len(params) \in Nat /\ DOMAIN params = 1 .. Len(params)
  BY SequenceShape
<1>2. IsSequence(s) /\ Len(s) = Len(params) /\ \A i \in DOMAIN params : s[i] = StoreArg(params[i], args[i], id)
  BY <1>1, ListSequence DEF ArgStores
<1> HIDE DEF s
<1>3. 0 \in S
  <2>1. Executed(b, s)[0] = b
    BY <1>2, ExecutedStep
  <2>2. ArgsStored(b, a, params, args, id, 0)
    BY DEF ArgsStored
  <2> QED
    BY <2>1, <2>2
<1>4. ASSUME NEW n \in Nat, n \in S, n + 1 <= Len(params)
      PROVE  P(n + 1)
  <2> DEFINE q == Executed(b, s)[n]
  <2>1. n <= Len(params) /\ n + 1 \in 1 .. Len(params) /\ n + 1 - 1 = n /\ 1 .. n + 1 \subseteq DOMAIN params
    BY <1>1, <1>4
  <2>2. Agree(a, q, base, k) /\ ArgsStored(q, a, params, args, id, n)
    BY <1>4, <2>1
  <2>3. Executed(b, s)[n + 1] = ExecInstr(q, StoreArg(params[n + 1], args[n + 1], id))
    BY <1>1, <1>2, <2>1, ExecutedStep
  <2>4. ValidTemp(args[n + 1], base)
    BY <1>1, <2>1 DEF Elements
  <2> HIDE DEF q
  <2> QED
    BY <2>1, <2>2, <2>3, <2>4, ArgStored
<1>5. \A n \in Nat : n \in S => n + 1 \in S
  BY <1>4
<1>6. Len(params) \in S
  <2> HIDE DEF S
  <2> QED
    BY <1>1, <1>3, <1>5, Inductive
<1>7. P(Len(params))
  BY <1>1, <1>6
<1> QED
  BY <1>2, <1>7 DEF AtEnd, s

\* After them the caller has what a frame of the callee would begin with.
LEMMA FrameMirrored ==
  ASSUME NEW q, NEW a, NEW params, IsSequence(params), NEW args, DOMAIN args = DOMAIN params, NEW id,
         ArgsStored(q, a, params, args, id, Len(params)), NEW n, NEW map
  PROVE  LET inner == Frame(params, n, Values(a, args))
         IN  Shaped(inner, n) /\ inner.out = <<>> /\ Mirrors(q, inner, {}, map, id)
<1> DEFINE inner == Frame(params, n, Values(a, args))
           Place(p) == CHOOSE i \in DOMAIN params : params[i] = p
<1>1. DOMAIN params = 1 .. Len(params)
  BY SequenceShape
<1>2. /\ DOMAIN inner = Fields /\ DOMAIN inner.temps = 0 .. n - 1 /\ inner.out = <<>>
      /\ inner.vars = [x \in Names(params) |-> Values(a, args)[CHOOSE i \in DOMAIN params : params[i] = x[1]]]
  BY DEF Frame, Fields
<1>3. ASSUME NEW x, <<x, 0>> \in Names(params)
      PROVE  /\ inner.vars[<<x, 0>>] = ValueOf(a, args[Place(x)])
             /\ Place(x) \in 1 .. Len(params) /\ params[Place(x)] = x
  <2>1. \E i \in DOMAIN params : params[i] = x
    BY <1>3 DEF Names, Elements
  <2>2. Place(x) \in DOMAIN params /\ params[Place(x)] = x
    BY <2>1
  <2>3. inner.vars[<<x, 0>>] = Values(a, args)[Place(x)]
    BY <1>2, <1>3
  <2> HIDE DEF Place
  <2> QED
    BY <1>1, <2>2, <2>3 DEF Values
<1> HIDE DEF inner, Place
<1>4. \A x : <<x, 0>> \in DOMAIN inner.vars =>
               <<x, id>> \in DOMAIN q.vars /\ q.vars[<<x, id>>] = inner.vars[<<x, 0>>]
  BY <1>2, <1>3 DEF ArgsStored
<1>5. Shaped(inner, n) /\ Mirrors(q, inner, {}, map, id)
  BY <1>2, <1>4, EmptySequence DEF Shaped, Mirrors
<1> QED
  BY <1>2, <1>5 DEF inner

\* From one instruction to the next.
LEMMA SetStep ==
  ASSUME NEW code, IsSequence(code)
  PROVE  /\ SetBefore(code, 1) = {}
         /\ \A n \in 1 .. Len(code) :
              SetBefore(code, n + 1)
                = SetBefore(code, n) \cup IF code[n].op = "store" THEN {} ELSE {code[n].dst}
<1>1. DOMAIN code = 1 .. Len(code) /\ Len(code) \in Nat
  BY SequenceShape
<1>2. ASSUME NEW n \in 1 .. Len(code)
      PROVE  {i \in DOMAIN code : i < n + 1 /\ code[i].op # "store"}
               = {i \in DOMAIN code : i < n /\ code[i].op # "store"}
                   \cup IF code[n].op = "store" THEN {} ELSE {n}
  BY <1>1
<1>3. {i \in DOMAIN code : i < 1 /\ code[i].op # "store"} = {}
  BY <1>1
<1> QED
  BY <1>2, <1>3 DEF SetBefore

\* The callee as inlineCall takes it.
LEMMA CalleeShape ==
  ASSUME CalleeOK, Candidate(source.callee), ReadsWhatItSets(source.callee)
  PROVE  LET f == source.callee
         IN  /\ f.temps \in Nat /\ f.ret = <<f.ret[1], f.ret[2]>> /\ ValidTemp(f.ret, f.temps)
             /\ IsSequence(f.code) /\ IsSequence(f.params) /\ ValidParams(f.params)
             /\ \A i \in DOMAIN f.code :
                  /\ HasAll(f.code[i]) /\ f.code[i].name = <<f.code[i].name[1], 0>>
                  /\ Fits(f.code[i], f.temps)
                  /\ f.code[i].op \notin {"call", "ext", "deep"}
                  /\ f.code[i].op = "load" => f.code[i].name \in Names(f.params) \cup StoredBefore(f.code, i)
             /\ \A i : SetBefore(f.code, i) \subseteq 0 .. f.temps - 1
<1> DEFINE f == source.callee
<1>1. /\ f.temps \in Nat /\ f.ret = <<f.ret[1], f.ret[2]>>
      /\ \A i \in DOMAIN f.code : HasAll(f.code[i]) /\ f.code[i].name = <<f.code[i].name[1], 0>>
      /\ IsSequence(f.code) /\ IsSequence(f.params)
  BY ProgramsAssumption DEF ProgramsAssumption, Readable, CalleeOK, Elements, HasAll
<1>2. /\ ValidTemp(f.ret, f.temps) /\ ~Misuses(f.code, Names(f.params)) /\ ValidParams(f.params)
      /\ \A i \in DOMAIN f.code : Fits(f.code[i], f.temps)
  BY DEF CalleeOK, ValidCallee, ValidInstr, Fits, Elements
<1>3. \A i \in DOMAIN f.code : f.code[i].op \notin {"call", "ext", "deep"}
  BY DEF Candidate, Elements, ReadsWhatItSets
<1> HIDE DEF f
<1>4. \A i \in DOMAIN f.code : f.code[i].op = "load" =>
                                 f.code[i].name \in Names(f.params) \cup StoredBefore(f.code, i)
  BY <1>1, <1>2, StoresBefore DEF Misuses
<1>5. \A i : SetBefore(f.code, i) \subseteq 0 .. f.temps - 1
  BY <1>2, <1>3 DEF SetBefore, Fits
<1> QED
  BY <1>1, <1>2, <1>3, <1>4, <1>5 DEF f

\* The callee's code, under other names, does what the callee does.
LEMMA CodeMirrored ==
  ASSUME CalleeOK, Candidate(source.callee), ReadsWhatItSets(source.callee),
         NEW base \in Nat, NEW k \in Nat, base <= k, NEW dst, NEW map,
         MapApart(map, source.callee.temps, dst, base, k),
         NEW a, NEW q, NEW id, id # 0, NEW vs,
         LET f == source.callee
             inner == Frame(f.params, f.temps, vs)
         IN  Shaped(inner, f.temps) /\ inner.out = <<>> /\ Mirrors(q, inner, {}, map, id),
         AgreeBut(a, q, dst, base, k)
  PROVE  LET f == source.callee
             inner == Called(Frame(f.params, f.temps, vs), f.code)[Len(f.code)]
             t == [i \in DOMAIN f.code |-> Remap(f.code[i], map, id)]
             r == AtEnd(q, t)
         IN  /\ IsSequence(t) /\ inner.out = <<>>
             /\ Mirrors(r, inner, SetBefore(f.code, Len(f.code) + 1), map, id)
             /\ AgreeBut(a, r, dst, base, k)
<1> DEFINE f == source.callee
           first == Frame(f.params, f.temps, vs)
           In(n) == Called(first, f.code)[n]
           t == [i \in DOMAIN f.code |-> Remap(f.code[i], map, id)]
           Out(n) == Executed(q, t)[n]
           P(n) == /\ Shaped(In(n), f.temps) /\ In(n).out = <<>>
                   /\ Mirrors(Out(n), In(n), SetBefore(f.code, n + 1), map, id)
                   /\ AgreeBut(a, Out(n), dst, base, k)
           S == {n \in Nat : n <= Len(f.code) => P(n)}
<1>1. /\ f.temps \in Nat /\ IsSequence(f.code)
      /\ \A i \in DOMAIN f.code :
           /\ HasAll(f.code[i]) /\ f.code[i].name = <<f.code[i].name[1], 0>>
           /\ Fits(f.code[i], f.temps)
           /\ f.code[i].op \notin {"call", "ext", "deep"}
           /\ f.code[i].op = "load" => f.code[i].name \in Names(f.params) \cup StoredBefore(f.code, i)
      /\ \A i : SetBefore(f.code, i) \subseteq 0 .. f.temps - 1
  BY CalleeShape
<1>2. \A n \in 0 .. Len(f.code) : DOMAIN In(n).vars = Names(f.params) \cup StoredBefore(f.code, n + 1)
  BY CalleeSafe DEF CalleeOK
<1>3. \A i \in DOMAIN f.code : \A e \in Elements(f.code[i].args) : IsTemp(e) => e[2] \in SetBefore(f.code, i)
  BY DEF ReadsWhatItSets
<1>4. /\ Shaped(first, f.temps) /\ first.out = <<>> /\ Mirrors(q, first, {}, map, id)
      /\ MapApart(map, f.temps, dst, base, k)
  OBVIOUS
<1> HIDE DEF f, first
<1>5. Len(f.code) \in Nat /\ DOMAIN f.code = 1 .. Len(f.code)
  BY <1>1, SequenceShape
<1>6. IsSequence(t) /\ Len(t) = Len(f.code) /\ \A i \in DOMAIN f.code : t[i] = Remap(f.code[i], map, id)
  BY <1>5, ListSequence
<1> HIDE DEF t
<1>7. 0 \in S
  <2>1. In(0) = first /\ Out(0) = q /\ SetBefore(f.code, 0 + 1) = {}
    BY <1>1, <1>6, CalledStep, ExecutedStep, SetStep
  <2> QED
    BY <1>4, <2>1
<1>8. ASSUME NEW n \in Nat, n \in S, n + 1 <= Len(f.code)
      PROVE  P(n + 1)
  <2> DEFINE d == f.code[n + 1]
             set == SetBefore(f.code, n + 1)
             inner == In(n)
             b == Out(n)
             more == IF d.op = "store" THEN {} ELSE {d.dst}
  <2>1. n <= Len(f.code) /\ n + 1 \in 1 .. Len(f.code) /\ n + 1 - 1 = n /\ n \in 0 .. Len(f.code)
    BY <1>5, <1>8
  <2>2. /\ Shaped(inner, f.temps) /\ inner.out = <<>>
        /\ Mirrors(b, inner, set, map, id) /\ AgreeBut(a, b, dst, base, k)
    BY <1>8, <2>1
  <2>3. In(n + 1) = Simple(inner, d)
    BY <1>1, <2>1, CalledStep
  <2>4. Out(n + 1) = ExecInstr(b, Remap(d, map, id))
    BY <1>5, <1>6, <2>1, ExecutedStep
  <2>5. /\ HasAll(d) /\ d.name = <<d.name[1], 0>> /\ Fits(d, f.temps)
        /\ d.op \notin {"call", "ext", "deep"}
        /\ \A e \in Elements(d.args) : IsTemp(e) => e[2] \in set
        /\ d.op = "load" => d.name \in DOMAIN inner.vars
    BY <1>1, <1>2, <1>3, <1>5, <2>1
  <2>6. set \in SUBSET (0 .. f.temps - 1)
    BY <1>1
  <2>7. SetBefore(f.code, (n + 1) + 1) = set \cup more
    BY <1>1, <2>1, SetStep
  <2> HIDE DEF d, set, inner, b
  <2>8. /\ Shaped(Simple(inner, d), f.temps) /\ Simple(inner, d).out = inner.out
        /\ Mirrors(ExecInstr(b, Remap(d, map, id)), Simple(inner, d), set \cup more, map, id)
        /\ AgreeBut(a, ExecInstr(b, Remap(d, map, id)), dst, base, k)
    BY <1>4, <2>2, <2>5, <2>6, StepMirrored
  <2> HIDE DEF In, Out, more
  <2> QED
    BY <2>2, <2>3, <2>4, <2>7, <2>8
<1>9. \A n \in Nat : n \in S => n + 1 \in S
  <2> HIDE DEF P
  <2> QED
    BY <1>8
<1>10. Len(f.code) \in S
  <2> HIDE DEF S
  <2> QED
    BY <1>5, <1>7, <1>9, Inductive
<1>11. P(Len(f.code))
  <2> HIDE DEF P
  <2> QED
    BY <1>5, <1>10
<1> QED
  BY <1>6, <1>11 DEF AtEnd, f, first, t

\* Nothing behind a sequence.
LEMMA ConcatNothing ==
  ASSUME NEW s, IsSequence(s)
  PROVE  s \o <<>> = s
BY ConcatEmptySeq DEF IsSequence

\* What stands in the place of a call does what the call does (inlineCall).
LEMMA InlinedMeans ==
  ASSUME CalleeOK, ReadsWhatItSets(source.callee),
         NEW base \in Nat, NEW next \in Nat, base <= next, NEW k \in Nat,
         NEW a, NEW b, Agree(a, b, base, k),
         NEW c, Fits(c, base), Inlinable(c), DOMAIN c.args = DOMAIN source.callee.params,
         NEW id, id # 0, next + Used(c, source.callee) <= k
  PROVE  /\ IsSequence(Inlined(c, next, id))
         /\ Agree(ExecInstr(a, c), AtEnd(b, Inlined(c, next, id)), base, k)
<1> DEFINE f == source.callee
           map == TempMap(c, f, next)
           s == ArgStores(f.params, c.args, id)
           t == [i \in DOMAIN f.code |-> Remap(f.code[i], map, id)]
           q == AtEnd(b, s)
           r == AtEnd(q, t)
           first == Frame(f.params, f.temps, Values(a, c.args))
           inner == Called(first, f.code)[Len(f.code)]
           v == ValueOf(inner, f.ret)
           p == SetTemp(a, c.dst, v)
           e == ExecInstr(a, c)
<1>1. /\ Candidate(f) /\ c.op = "call" /\ (c.dst # NoDst => IsTemp(f.ret))
      /\ (c.dst \in 0 .. base - 1 \/ c.dst = NoDst)
  BY DEF Inlinable, Fits
<1>2. /\ f.temps \in Nat /\ f.ret = <<f.ret[1], f.ret[2]>> /\ ValidTemp(f.ret, f.temps)
      /\ IsSequence(f.code) /\ IsSequence(f.params) /\ ValidParams(f.params)
  BY <1>1, CalleeShape
<1>3. Used(c, f) \in Nat /\ \A u \in 0 .. f.temps - 1 : map[u] \in 0 .. next + Used(c, f) - 1
  BY <1>1, <1>2, TempsFit
<1>4. /\ \A u, w \in 0 .. f.temps - 1 : u # w => map[u] # map[w]
      /\ \A u \in 0 .. f.temps - 1 : map[u] \in 0 .. base - 1 => map[u] = c.dst
      /\ c.dst # NoDst => f.ret[2] \in 0 .. f.temps - 1 /\ map[f.ret[2]] = c.dst
  BY <1>1, <1>2, TempsApart
<1>5. Inlined(c, next, id) = s \o t
  BY DEF Inlined, ArgStores
<1>6. e = [p EXCEPT !.out = @ \o inner.out, !.bad = @ \/ inner.bad]
  BY <1>1 DEF ExecInstr
<1>7. IsTemp(f.ret) => f.ret[2] \in SetBefore(f.code, Len(f.code) + 1)
  BY DEF ReadsWhatItSets
<1>8. base <= k /\ MapApart(map, f.temps, c.dst, base, k)
  <2>1. base <= k /\ \A u \in 0 .. f.temps - 1 : map[u] \in 0 .. k - 1
    BY <1>2, <1>3
  <2> HIDE DEF map
  <2> QED
    BY <1>4, <2>1 DEF MapApart
<1>9. IsSequence(s) /\ Agree(a, q, base, k) /\ ArgsStored(q, a, f.params, c.args, id, Len(f.params))
  <2>1. \A x \in Elements(c.args) : ValidTemp(x, base)
    BY DEF Fits
  <2> QED
    BY <1>2, <2>1, ArgsArePlaced
<1>10. Shaped(first, f.temps) /\ first.out = <<>> /\ Mirrors(q, first, {}, map, id)
  <2> HIDE DEF map, q
  <2> QED
    BY <1>2, <1>9, FrameMirrored
<1>11. AgreeBut(a, q, c.dst, base, k)
  BY <1>9 DEF Agree, AgreeBut
<1> HIDE DEF map, q
<1>12. /\ IsSequence(t) /\ inner.out = <<>>
       /\ Mirrors(r, inner, SetBefore(f.code, Len(f.code) + 1), map, id)
       /\ AgreeBut(a, r, c.dst, base, k)
  BY <1>1, <1>8, <1>10, <1>11, CodeMirrored
<1>13. AtEnd(b, s \o t) = r
  BY <1>9, <1>12, EndConcat DEF q
<1>14. IsSequence(s \o t)
  BY <1>9, <1>12, ConcatSequence
<1> HIDE DEF s, t, r, first, inner
<1>15. DOMAIN a = Fields /\ DOMAIN a.temps = 0 .. base - 1 /\ IsSequence(a.out)
  BY DEF Agree, Shaped
<1>16. /\ DOMAIN p = Fields /\ p.vars = a.vars /\ p.out = a.out /\ p.at = a.at
       /\ DOMAIN p.temps = DOMAIN a.temps
       /\ \A u \in DOMAIN a.temps : p.temps[u] = IF c.dst # NoDst /\ u = c.dst THEN v ELSE a.temps[u]
  BY <1>15, SetTempMeans
<1>17. c.dst # NoDst => v = r.temps[c.dst]
  <2> SUFFICES ASSUME c.dst # NoDst PROVE v = r.temps[c.dst]
    OBVIOUS
  <2>1. r.temps[map[f.ret[2]]] = inner.temps[f.ret[2]]
    BY <1>1, <1>7, <1>12 DEF Mirrors
  <2>2. v = inner.temps[f.ret[2]]
    BY <1>1 DEF ValueOf, IsTemp
  <2> QED
    BY <1>4, <2>1, <2>2
<1> HIDE DEF p, v
<1>18. DOMAIN e = Fields /\ e.temps = p.temps /\ e.vars = a.vars /\ e.out = a.out /\ e.at = a.at
  <2>1. p.out \o inner.out = p.out
    BY <1>12, <1>15, <1>16, ConcatNothing
  <2>2. e = [p EXCEPT !.out = p.out, !.bad = p.bad \/ inner.bad]
    BY <1>6, <2>1
  <2> QED
    BY <1>16, <2>2 DEF Fields
<1> HIDE DEF e
<1>19. ASSUME NEW u \in 0 .. base - 1 PROVE e.temps[u] = r.temps[u]
  <2>1. CASE u = c.dst
    <3>1. c.dst # NoDst
      BY <2>1 DEF NoDst
    <3> QED
      BY <1>15, <1>16, <1>17, <1>18, <2>1, <3>1
  <2>2. CASE u # c.dst
    BY <1>12, <1>15, <1>16, <1>18, <2>2 DEF AgreeBut
  <2> QED
    BY <2>1, <2>2
<1>20. Agree(e, r, base, k)
  BY <1>12, <1>15, <1>16, <1>18, <1>19 DEF Agree, AgreeBut, Shaped, SameVars
<1> QED
  BY <1>5, <1>13, <1>14, <1>20 DEF e

----------------------------------------------------------------------------
(* A block and what inlineCalls makes of it mean the same.                 *)

\* Numbers of temporaries and of calls go up from instruction to instruction.
LEMMA InlineGrows ==
  ASSUME CalleeOK, NEW base \in Nat, NEW next \in Nat, base <= next, NEW id \in Nat,
         NEW code, BlockOK(code, base)
  PROVE  LET upTo == InlineUpTo(code, next, id)
         IN  \A n \in 0 .. Len(code) :
               /\ upTo[n].next \in next .. upTo[Len(code)].next /\ upTo[Len(code)].next \in Nat
               /\ upTo[n].id \in Nat /\ id <= upTo[n].id
               /\ IsSequence(upTo[n].code)
<1> DEFINE upTo == InlineUpTo(code, next, id)
           P(n) == /\ upTo[n].next \in Nat /\ next <= upTo[n].next
                   /\ upTo[n].id \in Nat /\ id <= upTo[n].id
                   /\ IsSequence(upTo[n].code)
           S == {n \in Nat : n <= Len(code) => P(n)}
<1>1. DOMAIN code = 1 .. Len(code) /\ Len(code) \in Nat /\ IsSequence(code)
  BY SequenceShape DEF BlockOK
<1>2. /\ upTo[0] = [code |-> <<>>, next |-> next, id |-> id]
      /\ \A n \in 1 .. Len(code) : upTo[n] = InlineInstr(upTo[n - 1], code[n])
  BY <1>1, InlineStep
<1> HIDE DEF upTo
<1>3. 0 \in S
  BY <1>2, EmptySequence
<1>4. ASSUME NEW n \in Nat, P(n), n + 1 <= Len(code)
      PROVE  P(n + 1) /\ upTo[n].next <= upTo[n + 1].next
  <2> DEFINE acc == upTo[n]
             c == code[n + 1]
  <2>1. n + 1 \in 1 .. Len(code) /\ n + 1 - 1 = n
    BY <1>1, <1>4
  <2>2. /\ acc.next \in Nat /\ next <= acc.next /\ base <= acc.next
        /\ acc.id \in Nat /\ id <= acc.id /\ IsSequence(acc.code)
    BY <1>4
  <2>3. upTo[n + 1] = InlineInstr(acc, c)
    BY <1>2, <2>1
  <2>4. Fits(c, base) /\ (c.op = "call" => DOMAIN c.args = DOMAIN source.callee.params)
    BY <1>1, <2>1 DEF BlockOK
  <2>5. CASE Inlinable(c)
    <3> DEFINE t == Inlined(c, acc.next, acc.id)
               m == acc.next + Used(c, source.callee)
    <3>1. c.op = "call"
      BY <2>5 DEF Inlinable
    <3> HIDE DEF acc, c
    <3>2. upTo[n + 1].code = acc.code \o t /\ upTo[n + 1].next = m /\ upTo[n + 1].id = acc.id + 1
      <4>1. upTo[n + 1] = [code |-> acc.code \o t, next |-> m, id |-> acc.id + 1]
        BY <2>3, <2>5, Zenon DEF InlineInstr
      <4> HIDE DEF t, m
      <4> QED
        BY <4>1
    <3>3. m \in Nat /\ acc.next <= m /\ IsSequence(t)
      BY <2>2, <2>4, <2>5, <3>1, InlinedCloses
    <3> HIDE DEF t, m
    <3>4. IsSequence(acc.code \o t)
      BY <2>2, <3>3, ConcatSequence
    <3> QED
      BY <2>2, <3>2, <3>3, <3>4 DEF acc
  <2>6. CASE ~Inlinable(c)
    <3>1. upTo[n + 1] = [acc EXCEPT !.code = Append(@, c)]
      BY <2>3, <2>6 DEF InlineInstr
    <3>2. IsSequence(Append(acc.code, c))
      BY <2>2, AppendSequence
    <3>3. upTo[n + 1].next = acc.next /\ upTo[n + 1].id = acc.id
      BY <3>1
    <3>4. upTo[n + 1].code = Append(acc.code, c) \/ upTo[n + 1].code = acc.code
      BY <3>1
    <3>5. IsSequence(upTo[n + 1].code)
      BY <2>2, <3>2, <3>4
    <3>6. acc.next <= acc.next
      BY <2>2
    <3> HIDE DEF acc, c
    <3> QED
      BY <2>2, <3>3, <3>5, <3>6 DEF acc
  <2> QED
    BY <2>5, <2>6
<1>5. \A n \in Nat : n \in S => n + 1 \in S
  <2> SUFFICES ASSUME NEW n \in Nat, n \in S, n + 1 <= Len(code) PROVE P(n + 1)
    OBVIOUS
  <2>1. n <= Len(code)
    BY <1>1
  <2> HIDE DEF P
  <2> QED
    BY <1>4, <2>1
<1>6. \A n \in 0 .. Len(code) : P(n)
  <2>1. Nat \subseteq S
    <3> HIDE DEF S
    <3> QED
      BY <1>3, <1>5, Inductive
  <2>2. \A n \in 0 .. Len(code) : n \in S /\ n <= Len(code)
    BY <1>1, <2>1
  <2> HIDE DEF P
  <2> QED
    BY <2>2
<1>7. \A n \in Nat : n + 1 <= Len(code) => upTo[n].next <= upTo[n + 1].next
  <2> SUFFICES ASSUME NEW n \in Nat, n + 1 <= Len(code) PROVE upTo[n].next <= upTo[n + 1].next
    OBVIOUS
  <2>1. n \in 0 .. Len(code)
    BY <1>1
  <2> HIDE DEF P
  <2> QED
    BY <1>4, <1>6, <2>1
<1> DEFINE N == Len(code)
           last == upTo[N].next
           T == {j \in Nat : j <= N => upTo[N - j].next <= last}
<1>8. 0 \in T
  <2>1. N - 0 = N /\ N \in 0 .. N
    BY <1>1
  <2>2. last \in Nat
    BY <1>6, <2>1
  <2> QED
    BY <2>1, <2>2
<1>9. ASSUME NEW j \in Nat, j \in T, j + 1 <= N PROVE upTo[N - (j + 1)].next <= last
  <2> DEFINE i == N - (j + 1)
  <2>1. i \in Nat /\ i + 1 = N - j /\ i + 1 <= N /\ i \in 0 .. N /\ i + 1 \in 0 .. N /\ j <= N /\ N \in 0 .. N
    BY <1>1, <1>9
  <2> HIDE DEF i
  <2>2. upTo[i].next <= upTo[i + 1].next
    BY <1>7, <2>1
  <2>3. upTo[i + 1].next <= last
    BY <1>9, <2>1
  <2>4. upTo[i].next \in Nat /\ upTo[i + 1].next \in Nat /\ last \in Nat
    BY <1>6, <2>1
  <2> QED
    BY <2>2, <2>3, <2>4 DEF i
<1>10. Nat \subseteq T
  <2>1. ASSUME NEW j \in Nat, j \in T PROVE j + 1 \in T
    <3>1. j + 1 \in Nat
      OBVIOUS
    <3> QED
      BY <1>9, <2>1, <3>1
  <2> HIDE DEF T
  <2> QED
    BY <1>8, <2>1, Inductive
<1>11. ASSUME NEW n \in 0 .. N
       PROVE  upTo[n].next \in next .. last /\ last \in Nat
  <2>1. N - n \in Nat /\ N - n <= N /\ N - (N - n) = n /\ N \in 0 .. N
    BY <1>1
  <2>2. upTo[n].next <= last
    BY <1>10, <2>1
  <2>3. upTo[n].next \in Nat /\ next <= upTo[n].next /\ last \in Nat
    BY <1>6, <2>1
  <2> QED
    BY <2>2, <2>3
<1> QED
  BY <1>6, <1>11 DEF upTo

\* No name of the source has been numbered.
PlainNames(code) == \A i \in DOMAIN code : code[i].name = <<code[i].name[1], 0>>

\* A block does what it did before its calls were inlined.
LEMMA BlockMeans ==
  ASSUME CalleeOK, Candidate(source.callee) => ReadsWhatItSets(source.callee),
         NEW base \in Nat, NEW next \in Nat, base <= next, NEW id \in Nat, id # 0,
         NEW code, BlockOK(code, base), PlainNames(code),
         NEW k \in Nat, InlineBlock(code, next, id).next <= k,
         NEW a, NEW b, Agree(a, b, base, k)
  PROVE  Agree(AtEnd(a, code), AtEnd(b, InlineBlock(code, next, id).code), base, k)
<1> DEFINE upTo == InlineUpTo(code, next, id)
           last == upTo[Len(code)].next
           P(n) == Agree(Executed(a, code)[n], AtEnd(b, upTo[n].code), base, k)
           S == {n \in Nat : n <= Len(code) => P(n)}
<1>1. DOMAIN code = 1 .. Len(code) /\ Len(code) \in Nat /\ IsSequence(code)
  BY SequenceShape DEF BlockOK
<1>2. /\ upTo[0] = [code |-> <<>>, next |-> next, id |-> id]
      /\ \A n \in 1 .. Len(code) : upTo[n] = InlineInstr(upTo[n - 1], code[n])
  BY <1>1, InlineStep
<1>3. \A n \in 0 .. Len(code) :
        /\ upTo[n].next \in next .. last /\ last \in Nat
        /\ upTo[n].id \in Nat /\ id <= upTo[n].id
        /\ IsSequence(upTo[n].code)
  BY InlineGrows
<1>4. last <= k /\ InlineBlock(code, next, id) = upTo[Len(code)]
  BY DEF InlineBlock
<1>5. last \in Nat /\ base <= k
  <2>1. 0 \in 0 .. Len(code)
    BY <1>1
  <2>2. upTo[0].next \in next .. last /\ last \in Nat
    BY <1>3, <2>1
  <2> HIDE DEF upTo, last
  <2> QED
    BY <1>4, <2>2
<1> HIDE DEF upTo, last
<1>6. 0 \in S
  <2>1. Executed(a, code)[0] = a /\ AtEnd(b, <<>>) = b
    BY <1>1, ExecutedStep, EmptySequence DEF AtEnd
  <2>2. upTo[0].code = <<>>
    BY <1>2
  <2> QED
    BY <2>1, <2>2
<1>7. ASSUME NEW n \in Nat, P(n), n + 1 <= Len(code)
      PROVE  P(n + 1)
  <2> DEFINE acc == upTo[n]
             c == code[n + 1]
             p == Executed(a, code)[n]
             q == AtEnd(b, acc.code)
  <2>1. n + 1 \in 1 .. Len(code) /\ n + 1 - 1 = n /\ n \in 0 .. Len(code) /\ n + 1 \in 0 .. Len(code)
    BY <1>1, <1>7
  <2>2. acc.next \in Nat /\ base <= acc.next /\ acc.id \in Nat /\ acc.id # 0 /\ IsSequence(acc.code)
    <3>1. /\ acc.next \in next .. last /\ acc.id \in Nat /\ id <= acc.id /\ IsSequence(acc.code)
      BY <1>3, <2>1
    <3> HIDE DEF acc
    <3> QED
      BY <3>1, <1>5
  <2>3. upTo[n + 1] = InlineInstr(acc, c)
    BY <1>2, <2>1
  <2>4. Fits(c, base) /\ (c.op = "call" => DOMAIN c.args = DOMAIN source.callee.params) /\ c.name = <<c.name[1], 0>>
    BY <1>1, <2>1 DEF BlockOK, PlainNames
  <2>5. Executed(a, code)[n + 1] = ExecInstr(p, c)
    BY <1>1, <2>1, ExecutedStep
  <2>6. Agree(p, q, base, k)
    BY <1>7
  <2>7. upTo[n + 1].next <= k
    <3>1. upTo[n + 1].next \in next .. last
      BY <1>3, <2>1
    <3> QED
      BY <1>4, <1>5, <3>1
  <2>8. CASE Inlinable(c)
    <3> DEFINE t == Inlined(c, acc.next, acc.id)
               m == acc.next + Used(c, source.callee)
    <3>1. c.op = "call" /\ Candidate(source.callee)
      BY <2>8 DEF Inlinable
    <3>2. ReadsWhatItSets(source.callee)
      BY <3>1
    <3> HIDE DEF acc, c, p, q
    <3>3. upTo[n + 1].code = acc.code \o t /\ upTo[n + 1].next = m
      <4>1. upTo[n + 1] = [code |-> acc.code \o t, next |-> m, id |-> acc.id + 1]
        BY <2>3, <2>8, Zenon DEF InlineInstr
      <4> HIDE DEF t, m
      <4> QED
        BY <4>1
    <3>4. m <= k
      BY <2>7, <3>3
    <3>5. IsSequence(t) /\ Agree(ExecInstr(p, c), AtEnd(q, t), base, k)
      BY <2>2, <2>4, <2>6, <2>8, <3>1, <3>2, <3>4, InlinedMeans
    <3> HIDE DEF t, m
    <3>6. AtEnd(b, acc.code \o t) = AtEnd(q, t)
      BY <2>2, <3>5, EndConcat DEF q
    <3> QED
      BY <2>5, <3>3, <3>5, <3>6
  <2>9. CASE ~Inlinable(c)
    <3>1. upTo[n + 1] = [acc EXCEPT !.code = Append(@, c)]
      BY <2>3, <2>9 DEF InlineInstr
    <3>2. upTo[n + 1].code = Append(acc.code, c)
      BY <3>1
    <3> HIDE DEF acc, c, p, q
    <3>3. AtEnd(b, Append(acc.code, c)) = ExecInstr(q, c)
      BY <2>2, EndAppend DEF q
    <3>4. Agree(ExecInstr(p, c), ExecInstr(q, c), base, k)
      BY <1>5, <2>4, <2>6, ExecAgree
    <3> QED
      BY <2>5, <3>2, <3>3, <3>4
  <2> QED
    BY <2>8, <2>9
<1>8. \A n \in Nat : n \in S => n + 1 \in S
  <2> SUFFICES ASSUME NEW n \in Nat, n \in S, n + 1 <= Len(code) PROVE P(n + 1)
    OBVIOUS
  <2>1. n <= Len(code)
    BY <1>1
  <2> HIDE DEF P
  <2> QED
    BY <1>7, <2>1
<1>9. Len(code) \in S
  <2> HIDE DEF S
  <2> QED
    BY <1>1, <1>6, <1>8, Inductive
<1>10. P(Len(code))
  <2> HIDE DEF P
  <2> QED
    BY <1>1, <1>9
<1> QED
  BY <1>4, <1>10 DEF AtEnd

\* A block of the source, and what Optimize makes of it.
SourceBlock(old, base) ==
  /\ BlockOK(old.code, base) /\ PlainNames(old.code)
  /\ old.term.op = "branch" => ValidTemp(old.term.cond, base) /\ old.term.cond[1] \in {"temp", "const"}
  /\ old.term.op = "return" => ValidTemp(old.term.val, base)
BlockFrom(new, old, base, k) ==
  /\ new.term = Fold(old.term)
  /\ \E next, id \in Nat :
       LET done == InlineBlock(old.code, next, id)
       IN  base <= next /\ id # 0 /\ done.next <= k /\ new.code = done.code

\* And the function goes on to the same block, with the same result (execFrame).
LEMMA StepMeans ==
  ASSUME CalleeOK, Candidate(source.callee) => ReadsWhatItSets(source.callee),
         NEW base \in Nat, NEW k \in Nat, NEW a, NEW b, Agree(a, b, base, k),
         NEW old, NEW new, SourceBlock(old[a.at], base), BlockFrom(new[a.at], old[a.at], base, k)
  PROVE  /\ Agree(Step(a, old), Step(b, new), base, k)
         /\ Returned(Step(a, old), old[a.at].term) = Returned(Step(b, new), new[a.at].term)
<1> DEFINE l == a.at
           code == old[l].code
           t == old[l].term
<1>0. PICK next \in Nat, id \in Nat :
        /\ base <= next /\ id # 0 /\ InlineBlock(code, next, id).next <= k
        /\ new[l].code = InlineBlock(code, next, id).code
  BY DEF BlockFrom
<1> DEFINE a0 == [a EXCEPT !.out = <<>>]
           b0 == [b EXCEPT !.out = <<>>]
           p == AtEnd(a0, code)
           q == AtEnd(b0, InlineBlock(code, next, id).code)
           p1 == [p EXCEPT !.at = Goto(p, t)]
           q1 == [q EXCEPT !.at = Goto(q, Fold(t))]
<1>1. b.at = l
  BY DEF Agree
<1>2. Agree(a0, b0, base, k)
  BY OutAgree, EmptySequence
<1>3. Agree(p, q, base, k)
  <2>1. BlockOK(code, base) /\ PlainNames(code)
    BY DEF SourceBlock
  <2> HIDE DEF a0, b0
  <2> QED
    BY <1>0, <1>2, <2>1, BlockMeans
<1>4. ExecBlock(a, old) = p /\ ExecBlock(b, new) = q
  BY <1>0, <1>1 DEF ExecBlock, AtEnd
<1>5. Step(a, old) = p1 /\ Step(b, new) = q1
  <2>1. new[l].term = Fold(t)
    BY DEF BlockFrom
  <2> HIDE DEF p, q
  <2> QED
    BY <1>1, <1>4, <2>1 DEF Step
<1>6. /\ t.op = "branch" => ValidTemp(t.cond, base) /\ t.cond[1] \in {"temp", "const"}
      /\ t.op = "return" => ValidTemp(t.val, base)
      /\ new[l].term = Fold(t)
  BY DEF SourceBlock, BlockFrom
<1> HIDE DEF p, q, t
<1>7. Goto(p, t) = Goto(q, Fold(t))
  <2>1. CASE t.op = "branch" /\ IsTemp(t.cond)
    <3>1. ValueOf(p, t.cond) = ValueOf(q, t.cond)
      BY <1>3, <1>6, <2>1, ValueAgree
    <3> QED
      BY <2>1, <3>1 DEF Fold, Goto
  <2>2. CASE t.op = "branch" /\ ~IsTemp(t.cond)
    <3>1. t.cond[1] = "const"
      BY <1>6, <2>2 DEF IsTemp
    <3>2. ValueOf(p, t.cond) = t.cond[2]
      BY <2>2, <3>1 DEF ValueOf
    <3> DEFINE to == IF Holds(t.cond[2]) THEN t.then ELSE t.else
    <3>3. Fold(t) = [op |-> "jump", to |-> to]
      BY <2>2 DEF Fold
    <3>4. Goto(p, t) = to
      BY <2>2, <3>2 DEF Goto
    <3> HIDE DEF to
    <3>5. Goto(q, Fold(t)) = to
      BY <3>3 DEF Goto
    <3> QED
      BY <3>4, <3>5
  <2>3. CASE t.op # "branch"
    BY <2>3 DEF Fold, Goto
  <2> QED
    BY <2>1, <2>2, <2>3
<1>8. Agree(p1, q1, base, k)
  <2> DEFINE to == Goto(p, t)
  <2>1. q1 = [q EXCEPT !.at = to]
    BY <1>7
  <2> HIDE DEF to
  <2>2. DOMAIN p = Fields /\ DOMAIN q = Fields
    BY <1>3 DEF Agree, Shaped
  <2> DEFINE r == [p EXCEPT !.at = to]
             s == [q EXCEPT !.at = to]
  <2>3. /\ DOMAIN r = Fields /\ r.temps = p.temps /\ r.out = p.out /\ r.vars = p.vars /\ r.at = to
        /\ DOMAIN s = Fields /\ s.temps = q.temps /\ s.out = q.out /\ s.vars = q.vars /\ s.at = to
    BY <2>2, SetFields
  <2> HIDE DEF r, s
  <2>4. Agree(r, s, base, k)
    BY <1>3, <2>3 DEF Agree, Shaped, SameVars
  <2> QED
    BY <2>1, <2>4 DEF r, s, to
<1> HIDE DEF p1, q1
<1>9. Returned(p1, t) = Returned(q1, Fold(t))
  <2>1. CASE t.op = "return"
    <3>1. ValueOf(p1, t.val) = ValueOf(q1, t.val)
      BY <1>6, <1>8, <2>1, ValueAgree
    <3> QED
      BY <2>1, <3>1 DEF Fold, Returned
  <2>2. CASE t.op # "return"
    <3>1. Fold(t).op # "return"
      BY <2>2 DEF Fold
    <3> QED
      BY <2>2, <3>1 DEF Returned
  <2> QED
    BY <2>1, <2>2
<1> QED
  BY <1>5, <1>6, <1>8, <1>9 DEF t, l

\* Each block comes from its block of the source, with numbers that nothing before it had.
MadeFrom(l, codes, n) ==
  \E next, id \in Nat :
    /\ source.temps <= next /\ id # 0
    /\ InlineBlock(source.blocks[l].code, next, id).next <= n
    /\ codes[l] = InlineBlock(source.blocks[l].code, next, id).code

\* inlineCalls, all blocks.
LEMMA InlineCallsFrom ==
  ASSUME CalleeOK, ValidBlocks(source.blocks, source.temps), temps = source.temps
  PROVE  /\ InlineCalls.next \in Nat /\ source.temps <= InlineCalls.next
         /\ \A l \in DOMAIN source.blocks : MadeFrom(l, InlineCalls.codes, InlineCalls.next)
<1> DEFINE Done(acc, n) ==
             /\ acc.next \in Nat /\ temps <= acc.next
             /\ acc.id \in Nat /\ acc.id # 0
             /\ IsSequence(acc.codes) /\ Len(acc.codes) = n
             /\ \A l \in 1 .. n : MadeFrom(l, acc.codes, acc.next)
           N == Len(source.blocks)
           S == {n \in Nat : n <= N => Done(InlineBlocks[n], n)}
<1>1. /\ IsSequence(source.blocks) /\ temps \in Nat /\ N \in Nat /\ DOMAIN source.blocks = 1 .. N
      /\ \A l \in 1 .. N : BlockOK(source.blocks[l].code, temps)
  BY SourceBlocks, SequenceShape
<1>2. /\ InlineBlocks[0] = [codes |-> <<>>, next |-> temps, id |-> 1]
      /\ \A n \in 1 .. N : InlineBlocks[n] = NextBlock(InlineBlocks[n - 1], source.blocks[n])
  BY <1>1, InlineBlocksStep
<1> HIDE DEF N
<1>3. 0 \in S
  <2>1. InlineBlocks[0].codes = <<>> /\ InlineBlocks[0].next = temps /\ InlineBlocks[0].id = 1
    BY <1>2
  <2>2. \A l \in 1 .. 0 : FALSE
    OBVIOUS
  <2> QED
    BY <1>1, <2>1, <2>2, EmptySequence
<1>4. ASSUME NEW n \in Nat, n \in S, n + 1 <= N
      PROVE  Done(InlineBlocks[n + 1], n + 1)
  <2> DEFINE acc == InlineBlocks[n]
             code == source.blocks[n + 1].code
             done == InlineBlock(code, acc.next, acc.id)
             new == InlineBlocks[n + 1]
  <2>1. n <= N /\ n + 1 \in 1 .. N /\ n + 1 - 1 = n
    BY <1>1, <1>4
  <2>2. Done(acc, n)
    BY <1>4, <2>1
  <2>3. new = NextBlock(acc, source.blocks[n + 1])
    BY <1>2, <2>1
  <2>4. new = [codes |-> Append(acc.codes, done.code), next |-> done.next, id |-> done.id]
    BY <2>3 DEF NextBlock
  <2>5. BlockOK(code, temps)
    BY <1>1, <2>1
  <2> HIDE DEF acc, code, new
  <2>6. done.next \in Nat /\ acc.next <= done.next /\ done.id \in Nat /\ acc.id <= done.id
    <3> DEFINE upTo == InlineUpTo(code, acc.next, acc.id)
    <3>1. Len(code) \in 0 .. Len(code)
      BY <2>5, SequenceShape DEF BlockOK
    <3>2. \A m \in 0 .. Len(code) :
            /\ upTo[m].next \in acc.next .. upTo[Len(code)].next /\ upTo[Len(code)].next \in Nat
            /\ upTo[m].id \in Nat /\ acc.id <= upTo[m].id
            /\ IsSequence(upTo[m].code)
      BY <1>1, <2>2, <2>5, InlineGrows
    <3>3. done = upTo[Len(code)]
      BY DEF InlineBlock
    <3> HIDE DEF upTo, done
    <3> QED
      BY <2>2, <3>1, <3>2, <3>3
  <2> HIDE DEF done
  <2>7. new.codes = Append(acc.codes, done.code) /\ new.next = done.next /\ new.id = done.id
    BY <2>4
  <2>8. /\ IsSequence(new.codes) /\ Len(new.codes) = n + 1
        /\ \A i \in 1 .. n : new.codes[i] = acc.codes[i]
        /\ new.codes[n + 1] = done.code
    BY <2>2, <2>7, AppendSequence
  <2>9. ASSUME NEW l \in 1 .. n + 1
        PROVE  MadeFrom(l, new.codes, new.next)
    <3>1. CASE l \in 1 .. n
      <4>1. PICK next \in Nat, id \in Nat :
              /\ source.temps <= next /\ id # 0
              /\ InlineBlock(source.blocks[l].code, next, id).next <= acc.next
              /\ acc.codes[l] = InlineBlock(source.blocks[l].code, next, id).code
        BY <2>2, <3>1 DEF MadeFrom
      <4>2. InlineBlock(source.blocks[l].code, next, id).next \in Nat
        <5> DEFINE old == source.blocks[l].code
        <5>1. BlockOK(old, temps)
          BY <1>1, <2>1, <3>1
        <5> HIDE DEF old
        <5>2. InlineBlock(old, next, id).next \in Nat
          BY <1>1, <4>1, <5>1, InlineMade
        <5> QED
          BY <5>2 DEF old
      <4>3. InlineBlock(source.blocks[l].code, next, id).next <= new.next
        BY <2>2, <2>6, <2>7, <4>1, <4>2
      <4>4. new.codes[l] = acc.codes[l]
        BY <2>8, <3>1
      <4> QED
        BY <4>1, <4>3, <4>4 DEF MadeFrom
    <3>2. CASE l = n + 1
      <4>1. new.codes[l] = done.code /\ done.next <= new.next
        BY <2>6, <2>7, <2>8, <3>2
      <4>2. done = InlineBlock(source.blocks[l].code, acc.next, acc.id)
        BY <3>2 DEF done, code
      <4>3. acc.next \in Nat /\ acc.id \in Nat /\ acc.id # 0 /\ source.temps <= acc.next
        BY <2>2
      <4> QED
        BY <4>1, <4>2, <4>3 DEF MadeFrom
    <3> QED
      BY <3>1, <3>2
  <2>10. new.next \in Nat /\ temps <= new.next /\ new.id \in Nat /\ new.id # 0
    BY <1>1, <2>2, <2>6, <2>7
  <2>11. Done(new, n + 1)
    BY <2>8, <2>9, <2>10
  <2> QED
    BY <2>11 DEF new
<1>5. \A n \in Nat : n \in S => n + 1 \in S
  <2> HIDE DEF Done
  <2> QED
    BY <1>4
<1>6. N \in S
  <2> HIDE DEF S
  <2> QED
    BY <1>1, <1>3, <1>5, Inductive
<1>7. Done(InlineBlocks[N], N)
  <2> HIDE DEF Done
  <2> QED
    BY <1>1, <1>6
<1>8. InlineBlocks[N] = InlineCalls
  BY DEF InlineCalls, N
<1> HIDE DEF N
<1>9. Done(InlineCalls, N)
  BY <1>7, <1>8
<1> QED
  BY <1>1, <1>9

----------------------------------------------------------------------------
(* Both programs side by side.                                             *)

\* What Optimize has made of the source.
OptimizedOK ==
  /\ temps \in Nat /\ source.temps <= temps
  /\ \A l \in DOMAIN blocks :
       l \in DOMAIN source.blocks /\ BlockFrom(blocks[l], source.blocks[l], source.temps, temps)
MeaningInv ==
  /\ RunInv
  /\ optimized => OptimizedOK
  /\ stage \in {"run", "ended"} => Agree(frames[1], frames[2], source.temps, temps)
  /\ result[1] = result[2]

\* Inlining depends on the callee only.
LEMMA SameInlined ==
  ASSUME source' = source
  PROVE  \A code, next, id : InlineBlock(code, next, id)' = InlineBlock(code, next, id)
<1>1. \A c : Inlinable(c)' = Inlinable(c)
  BY DEF Inlinable
<1>2. \A c, next, id : Inlined(c, next, id)' = Inlined(c, next, id)
  BY DEF Inlined
<1>3. \A acc, c : InlineInstr(acc, c)' = InlineInstr(acc, c)
  BY <1>1, <1>2 DEF InlineInstr
<1>4. \A code, next, id : InlineUpTo(code, next, id)' = InlineUpTo(code, next, id)
  BY <1>3 DEF InlineUpTo
<1> QED
  BY <1>4 DEF InlineBlock

\* So does what a block was made from.
LEMMA SameFrom ==
  ASSUME source' = source
  PROVE  \A new, old, base, k : BlockFrom(new, old, base, k)' = BlockFrom(new, old, base, k)
BY SameInlined DEF BlockFrom

\* Optimize makes what OptimizedOK says.
LEMMA OptimizeMeans ==
  ASSUME MeaningInv, Optimize
  PROVE  OptimizedOK'
<1>1. /\ source' = source /\ stage = "valid" /\ ~optimized
      /\ temps' = InlineCalls.next
      /\ blocks' = PruneUnreachable(
                     [l \in DOMAIN blocks |-> [code |-> InlineCalls.codes[l], term |-> Fold(blocks[l].term)]])
  BY DEF Optimize
<1>2. /\ blocks = source.blocks /\ temps = source.temps
      /\ ValidCallee(source.callee) /\ Accepted(source.blocks, source.temps)
  BY <1>1 DEF MeaningInv, RunInv, StageOK
<1>3. CalleeOK
  BY <1>2, ProgramsAssumption
     DEF ProgramsAssumption, CalleeOK, MeaningInv, RunInv, FlowInv, BlocksOK, Readable
<1>4. /\ InlineCalls.next \in Nat /\ source.temps <= InlineCalls.next
      /\ \A l \in DOMAIN source.blocks : MadeFrom(l, InlineCalls.codes, InlineCalls.next)
  BY <1>2, <1>3, InlineCallsFrom DEF Accepted
<1> DEFINE bs == [l \in DOMAIN blocks |-> [code |-> InlineCalls.codes[l], term |-> Fold(blocks[l].term)]]
           new == PruneUnreachable(bs)
<1>5. /\ DOMAIN bs = DOMAIN source.blocks
      /\ \A l \in DOMAIN bs : bs[l].code = InlineCalls.codes[l] /\ bs[l].term = Fold(source.blocks[l].term)
  BY <1>2
<1>6. blocks' = new
  BY <1>1
<1> HIDE DEF bs
<1>7. DOMAIN new \subseteq DOMAIN bs /\ \A l \in DOMAIN new : new[l] = bs[l]
  BY DEF PruneUnreachable, Restrict, ReachableBlocks, Reached
<1> HIDE DEF new
<1>8. ASSUME NEW l \in DOMAIN blocks'
      PROVE  l \in DOMAIN source.blocks /\ BlockFrom(blocks'[l], source.blocks[l], source.temps, temps')
  <2>1. l \in DOMAIN source.blocks /\ blocks'[l] = bs[l] /\ l \in DOMAIN bs
    BY <1>5, <1>6, <1>7
  <2>2. MadeFrom(l, InlineCalls.codes, InlineCalls.next)
    BY <1>4, <2>1
  <2>3. blocks'[l].code = InlineCalls.codes[l] /\ blocks'[l].term = Fold(source.blocks[l].term)
    BY <1>5, <2>1
  <2> QED
    BY <1>1, <2>1, <2>2, <2>3 DEF MadeFrom, BlockFrom
<1>9. \A made, old, base, n : BlockFrom(made, old, base, n)' = BlockFrom(made, old, base, n)
  BY <1>1, SameFrom
<1> QED
  BY <1>1, <1>4, <1>8, <1>9 DEF OptimizedOK

\* What does not touch the programs leaves what is known of them.
LEMMA SameOptimized ==
  ASSUME UNCHANGED <<source, blocks, temps>>, OptimizedOK
  PROVE  OptimizedOK'
<1>1. \A new, old, base, k : BlockFrom(new, old, base, k)' = BlockFrom(new, old, base, k)
  BY SameFrom
<1> QED
  BY <1>1 DEF OptimizedOK

\* Two frames with the same parameters.
LEMMA FramesAgree ==
  ASSUME NEW params, NEW vs, NEW base \in Nat, NEW k \in Nat, base <= k
  PROVE  Agree(Frame(params, base, vs), Frame(params, k, vs), base, k)
<1> DEFINE a == Frame(params, base, vs)
           b == Frame(params, k, vs)
<1>1. /\ DOMAIN a = Fields /\ DOMAIN a.temps = 0 .. base - 1 /\ a.out = <<>> /\ a.at = Entry
      /\ DOMAIN b = Fields /\ DOMAIN b.temps = 0 .. k - 1 /\ b.out = <<>> /\ b.at = Entry
      /\ a.vars = b.vars
  BY DEF Frame, Fields
<1>2. \A t \in 0 .. base - 1 : a.temps[t] = b.temps[t]
  BY DEF Frame
<1> HIDE DEF a, b
<1>3. Agree(a, b, base, k)
  BY <1>1, <1>2, EmptySequence DEF Agree, Shaped, SameVars
<1> QED
  BY <1>3 DEF a, b

\* Both begin alike.
LEMMA StartMeans ==
  ASSUME MeaningInv, Start
  PROVE  Agree(frames'[1], frames'[2], source.temps, temps)
<1>1. PICK vs : frames' = <<Frame(source.params, source.temps, vs), Frame(source.params, temps, vs)>>
  BY DEF Start
<1>2. temps \in Nat /\ source.temps <= temps
  BY DEF Start, MeaningInv, OptimizedOK
<1>3. source.temps \in Nat
  BY ProgramsAssumption DEF ProgramsAssumption, MeaningInv, RunInv, FlowInv, BlocksOK
<1> QED
  BY <1>1, <1>2, <1>3, FramesAgree

\* And go on alike.
LEMMA BlockKeepsMeaning ==
  ASSUME MeaningInv, RunBlock, Candidate(source.callee) => ReadsWhatItSets(source.callee)
  PROVE  Agree(frames'[1], frames'[2], source.temps, temps) /\ result'[1] = result'[2]
<1> DEFINE a == frames[1]
           b == frames[2]
           l == a.at
           old == source.blocks
           base == source.temps
<1>1. /\ stage = "run"
      /\ frames' = <<Step(a, old), Step(b, blocks)>>
      /\ result' = <<Returned(frames'[1], old[l].term), Returned(frames'[2], blocks[b.at].term)>>
  BY DEF RunBlock
<1>2. Agree(a, b, base, temps) /\ b.at \in DOMAIN blocks /\ b.at = l
  BY <1>1 DEF MeaningInv, RunInv, FramesOK, Agree
<1>3. optimized /\ ValidCallee(source.callee) /\ source \in Programs /\ Accepted(old, base)
  BY <1>1 DEF MeaningInv, RunInv, StageOK, FlowInv, BlocksOK
<1>4. OptimizedOK
  BY <1>3 DEF MeaningInv
<1>5. CalleeOK
  BY <1>3, ProgramsAssumption DEF ProgramsAssumption, CalleeOK, Readable
<1>6. base \in Nat /\ temps \in Nat /\ l \in DOMAIN old
  BY <1>2, <1>3, <1>4, ProgramsAssumption DEF ProgramsAssumption, OptimizedOK
<1>7. BlockFrom(blocks[l], old[l], base, temps)
  BY <1>2, <1>4 DEF OptimizedOK
<1>8. BlockOK(old[l].code, base) 
  BY <1>3, <1>5, <1>6, SourceBlocks DEF Accepted
<1>9. /\ PlainNames(old[l].code)
      /\ old[l].term.op = "branch" => old[l].term.cond[1] \in {"temp", "const"}
  <2>1. old[l] \in Elements(old)
    BY <1>6 DEF Elements
  <2>2. /\ Readable(old[l].code, source.callee)
        /\ old[l].term.op = "branch" => old[l].term.cond[1] \in {"temp", "const"}
    BY <1>3, <2>1, ProgramsAssumption DEF ProgramsAssumption
  <2> QED
    BY <2>2 DEF Readable, PlainNames, Elements
<1>10. /\ old[l].term.op = "branch" => ValidTemp(old[l].term.cond, base)
       /\ old[l].term.op = "return" => ValidTemp(old[l].term.val, base)
  BY <1>3, <1>6 DEF Accepted, ValidBlocks
<1>12. SourceBlock(old[l], base)
  BY <1>8, <1>9, <1>10 DEF SourceBlock
<1> HIDE DEF a, b, old, base
<1>11. /\ Agree(Step(a, old), Step(b, blocks), base, temps)
       /\ Returned(Step(a, old), old[l].term) = Returned(Step(b, blocks), blocks[l].term)
  BY <1>2, <1>5, <1>6, <1>7, <1>12, StepMeans
<1> QED
  BY <1>1, <1>2, <1>11 DEF base

\* MeaningInv holds of a program as it was read.
LEMMA MeaningInit == IRInit => MeaningInv
BY RunInit DEF IRInit, MeaningInv

\* Every step keeps MeaningInv.
LEMMA MeaningStep ==
  ASSUME MeaningInv, [IRNext]_irVars, Candidate(source.callee) => ReadsWhatItSets(source.callee)
  PROVE  MeaningInv'
<1>1. RunInv'
  BY RunStep DEF MeaningInv
<1>2. CASE Check \/ Visit \/ Again \/ Settle \/ UNCHANGED irVars
  <2>1. UNCHANGED <<source, blocks, temps, optimized>>
    BY <1>2 DEF Check, Visit, Again, Settle, irVars
  <2>2. /\ stage' \in {"run", "ended"} => UNCHANGED stage
        /\ UNCHANGED <<frames, result>>
    BY <1>2 DEF Check, Visit, Again, Settle, irVars, run
  <2>3. optimized' => OptimizedOK'
    BY <2>1, SameOptimized DEF MeaningInv
  <2> QED
    BY <1>1, <2>1, <2>2, <2>3 DEF MeaningInv, Agree, Shaped, SameVars
<1>3. CASE Optimize
  <2>1. stage' = "optimized" /\ UNCHANGED <<frames, result>>
    BY <1>3 DEF Optimize, run
  <2>2. OptimizedOK'
    BY <1>3, OptimizeMeans
  <2> QED
    BY <1>1, <2>1, <2>2 DEF MeaningInv
<1>4. CASE Start
  <2>1. UNCHANGED <<source, blocks, temps, optimized, result>> /\ stage = "valid"
    BY <1>4 DEF Start
  <2>2. optimized' => OptimizedOK'
    BY <2>1, SameOptimized DEF MeaningInv
  <2>3. Agree(frames'[1], frames'[2], source'.temps, temps')
    BY <1>4, <2>1, StartMeans
  <2> QED
    BY <1>1, <2>1, <2>2, <2>3 DEF MeaningInv
<1>5. CASE RunBlock
  <2>1. UNCHANGED <<source, blocks, temps, optimized>>
    BY <1>5 DEF RunBlock
  <2>2. optimized' => OptimizedOK'
    BY <2>1, SameOptimized DEF MeaningInv
  <2>3. Agree(frames'[1], frames'[2], source.temps, temps) /\ result'[1] = result'[2]
    BY <1>5, BlockKeepsMeaning
  <2> QED
    BY <1>1, <2>1, <2>2, <2>3 DEF MeaningInv
<1> QED
  BY <1>2, <1>3, <1>4, <1>5 DEF IRNext

\* In every run the two functions agree on everything that the compiler's own numbers stand for.
THEOREM MeaningInvariance ==
  ASSUME CarefulCallees
  PROVE  IRSpec => []MeaningInv
<1>1. MeaningInv => (Candidate(source.callee) => ReadsWhatItSets(source.callee))
  BY DEF CarefulCallees, MeaningInv, RunInv, FlowInv, BlocksOK
<1>2. MeaningInv /\ [IRNext]_irVars => MeaningInv'
  BY <1>1, MeaningStep
<1> QED
  BY <1>2, MeaningInit, PTL DEF IRSpec

\* So Optimize keeps what a program does.
THEOREM MeaningIsKept ==
  ASSUME CarefulCallees
  PROVE  IRSpec => []SameMeaning
<1>1. MeaningInv => SameMeaning
  BY DEF MeaningInv, Agree, SameMeaning
<1> QED
  BY <1>1, MeaningInvariance, PTL
=============================================================================
