----------------------------- MODULE DropSafety -----------------------------
(***************************************************************************)
(* Type correctness of DropExec, for every set of variables, parameters    *)
(* and values, every bound, every choice of constructs; and on top of it   *)
(* memory safety of the compiled function: for every program of the        *)
(* disciplined kind (DropInv, Disciplined) no path of its code drops a     *)
(* value twice or reads a value that is gone.  The inductive invariant is  *)
(* IInv: the compiler keeps the emitted code and the recorded ownership    *)
(* states consistent, and the machine keeps the recorded state true.  For  *)
(* the programs whose meeting states are equal (Exact) no path leaks a     *)
(* value either: LeakInv adds that the recorded states claim all there is. *)
(***************************************************************************)
EXTENDS DropInv, SequenceTheorems, TLAPS

-----------------------------------------------------------------------------
(* Lemmas about the helpers                                                 *)

(* What Append does, for the sequences that grow (helpers.go emit, newBlock, *)
(* pushScope).                                                               *)
LEMMA AppendLemma ==
  ASSUME NEW S, NEW s \in Seq(S), NEW e \in S
  PROVE  /\ Append(s, e) \in Seq(S)
         /\ Len(Append(s, e)) = Len(s) + 1
         /\ DOMAIN Append(s, e) = 1..(Len(s) + 1)
         /\ \A i \in 1..Len(s) : Append(s, e)[i] = s[i]
         /\ Append(s, e)[Len(s) + 1] = e
  BY AppendProperties, LenProperties

(* Two new labels.                                                           *)
LEMMA AppendTwo ==
  ASSUME NEW S, NEW s \in Seq(S), NEW x \in S, NEW y \in S, NEW n \in Nat, n = Len(s)
  PROVE  /\ DOMAIN Append(Append(s, x), y) = 1..(n + 2)
         /\ Append(Append(s, x), y)[n + 1] = x
         /\ Append(Append(s, x), y)[n + 2] = y
         /\ \A m \in 1..n : Append(Append(s, x), y)[m] = s[m]
<1>1. PICK t \in Seq(S) : t = Append(s, x)
  BY AppendLemma
<1>2. Len(t) = n + 1 /\ t[n + 1] = x /\ \A m \in 1..n : t[m] = s[m]
  BY <1>1, AppendLemma
<1>3. /\ DOMAIN Append(t, y) = 1..(Len(t) + 1) /\ Append(t, y)[Len(t) + 1] = y
      /\ \A m \in 1..Len(t) : Append(t, y)[m] = t[m]
  BY AppendLemma
<1>4. Len(t) + 1 = n + 2 /\ n + 1 \in 1..Len(t) /\ \A m \in 1..n : m \in 1..Len(t)
  BY <1>2
<1>5. /\ DOMAIN Append(t, y) = 1..(n + 2) /\ Append(t, y)[n + 2] = y
      /\ Append(t, y)[n + 1] = x /\ \A m \in 1..n : Append(t, y)[m] = s[m]
  BY <1>2, <1>3, <1>4
<1> QED
  BY <1>1, <1>5

(* The sequences from which a tail is cut (popScope, the end of a construct).*)
LEMMA CutLemma ==
  ASSUME NEW S, NEW s \in Seq(S), NEW n \in Nat, n <= Len(s)
  PROVE  /\ SubSeq(s, 1, n) \in Seq(S)
         /\ Len(SubSeq(s, 1, n)) = n
         /\ DOMAIN SubSeq(s, 1, n) = 1..n
         /\ \A i \in 1..n : SubSeq(s, 1, n)[i] = s[i]
<1>1. \A i \in 1..n : s[i] \in S
  BY ElementOfSeq, LenProperties
<1>2. 1 \in Int /\ n \in Int
  OBVIOUS
<1>3. /\ SubSeq(s, 1, n) \in Seq(S)
      /\ Len(SubSeq(s, 1, n)) = IF 1 <= n THEN n - 1 + 1 ELSE 0
      /\ \A i \in 1..(n - 1 + 1) : SubSeq(s, 1, n)[i] = s[1 + i - 1]
  BY <1>1, <1>2, SubSeqProperties
<1> QED
  BY <1>3, LenProperties

(* The flags of the variables that leave scope.                              *)
LEMMA OutsideType ==
  ASSUME NEW f \in FlagMap, NEW k
  PROVE  Outside(f, k) \in FlagMap
  BY DEF Outside, FlagMap, Flag

LEMMA MergeType ==
  ASSUME NEW f \in FlagMap, NEW g \in FlagMap
  PROVE  Merge(f, g) \in FlagMap
  BY DEF Merge, Worse, FlagMap, Flag

(* A scope end lists declared variables only.                                *)
LEMMA DropsType ==
  ASSUME order \in Seq(Vars), flag \in FlagMap, NEW k \in Nat
  PROVE  Drops(k) \in DropList
<1> DEFINE n == Len(order) - k
<1>1. Len(order) \in Nat /\ \A i \in 1..Len(order) : order[i] \in Vars
  BY ElementOfSeq, LenProperties
<1>2. Leaving(k) \in Seq(Vars)
  <2>1. CASE n <= 0
    <3>1. 1..n = {} /\ 1..0 = {}
      BY <1>1, <2>1
    <3>2. Leaving(k) \in [1..0 -> Vars]
      BY <3>1 DEF Leaving
    <3> QED
      BY <3>2, SeqDef
  <2>2. CASE n > 0
    <3>1. n \in Nat
      BY <1>1, <2>2
    <3>2. Leaving(k) \in [1..n -> Vars]
      BY <1>1, <2>2 DEF Leaving
    <3> QED
      BY <3>1, <3>2, SeqDef
  <2> QED
    BY <1>1, <2>1, <2>2
<1>3. Owned \subseteq Vars
  BY DEF Owned
<1> QED
  BY <1>2, <1>3 DEF Drops, DropList
(* The instructions of the simple statements are instructions without a      *)
(* label.                                                                    *)
LEMMA InstTypes ==
  ASSUME NEW v \in Vars, NEW u \in Vars, NEW old \in BOOLEAN
  PROVE  /\ New(v, old) \in Inst /\ New(v, old).op = "new"
         /\ Lit(v, old) \in Inst /\ Lit(v, old).op = "lit"
         /\ Mov(v, u, old) \in Inst /\ Mov(v, u, old).op = "mov"
  BY DEF Inst, New, Lit, Mov

LEMMA UseTypes ==
  ASSUME NEW u \in Vars
  PROVE  /\ Borrow(u) \in Inst /\ Borrow(u).op = "use"
         /\ Give(u) \in Inst /\ Give(u).op = "give"
         /\ DropOne(u) \in Inst /\ DropOne(u).op = "drop"
  BY DEF Inst, Borrow, Give, DropOne

LEMMA JumpTypes ==
  ASSUME NEW l \in Nat, NEW d \in DropList
  PROVE  /\ Jump(l, d) \in Inst /\ Jump(l, d).op = "jmp"
         /\ Jump(l, d).to = l /\ Jump(l, d).d = d
  BY DEF Inst, Jump

LEMMA LeaveType ==
  ASSUME NEW d \in DropList
  PROVE  DropAll(d) \in Inst /\ DropAll(d).op = "leave" /\ DropAll(d).d = d
  BY DEF Inst, DropAll

LEMMA RetType ==
  ASSUME NEW v \in Vars \cup {NoVar}, NEW d \in DropList
  PROVE  /\ Ret(v, d) \in Inst /\ Ret(v, d).op = "ret"
         /\ Ret(v, d).v = v /\ Ret(v, d).d = d
  BY DEF Inst, Ret

(* What the type invariant says of the open constructs.                      *)
LEMMA FrameTypes ==
  ASSUME TypeInv
  PROVE  /\ Len(ctl) \in Nat /\ DOMAIN ctl = 1..Len(ctl)
         /\ Len(order) \in Nat
         /\ \A k \in DOMAIN ctl :
              /\ ctl[k] \in FrameSet
              /\ ctl[k].mark \in Nat /\ ctl[k].head \in Nat
              /\ ctl[k].next \in Nat /\ ctl[k].exit \in Nat
              /\ ctl[k].base \in FlagMap /\ ctl[k].save \in FlagMap
<1>1. ctl \in Seq(FrameSet) /\ order \in Seq(Vars)
  BY DEF TypeInv, TypeOK, ElabTypeOK
<1>2. \A k \in DOMAIN ctl : ctl[k] \in FrameSet
  BY <1>1, ElementOfSeq, LenProperties
<1> QED
  BY <1>1, <1>2, LenProperties DEF FrameSet

(* A new frame (helpers.go snapshotScopes, pushLoop).                        *)
LEMMA NewFrameType ==
  ASSUME NEW kind \in FrameKind,
         NEW head \in Nat, NEW next \in Nat, NEW exit \in Nat,
         flag \in FlagMap, Len(order) \in Nat
  PROVE  /\ Frame(kind, head, next, exit) \in FrameSet
         /\ Frame(kind, head, next, exit).kind = kind
         /\ Frame(kind, head, next, exit).mark = Len(order)
         /\ Frame(kind, head, next, exit).head = head
         /\ Frame(kind, head, next, exit).next = next
         /\ Frame(kind, head, next, exit).exit = exit
         /\ Frame(kind, head, next, exit).base = flag
         /\ Frame(kind, head, next, exit).save = flag
         /\ ~Frame(kind, head, next, exit).live
  BY DEF Frame, FrameSet

-----------------------------------------------------------------------------
(* Actions of the compiler                                                  *)

(* Emitting an instruction that names no label.                              *)
LEMMA EmitTypes ==
  ASSUME TypeInv, NEW i \in Inst, Emit(i),
         i.op \in {"br", "jmp"} => i.to \in DOMAIN at
  PROVE  /\ code' \in Seq(Inst) /\ ann' \in Seq(FlagMap)
         /\ Len(code') = Len(code) + 1
         /\ \A j \in DOMAIN code' :
              code'[j].op \in {"br", "jmp"} => code'[j].to \in DOMAIN at
<1>1. /\ code \in Seq(Inst) /\ ann \in Seq(FlagMap) /\ flag \in FlagMap
      /\ \A j \in DOMAIN code :
              code[j].op \in {"br", "jmp"} => code[j].to \in DOMAIN at
  BY DEF TypeInv, TypeOK, ElabTypeOK, LabelsKnown
<1>2. code' = Append(code, i) /\ ann' = Append(ann, flag)
  BY DEF Emit
<1>3. ann' \in Seq(FlagMap)
  BY <1>1, <1>2, AppendLemma
<1>4. /\ code' \in Seq(Inst)
      /\ Len(code') = Len(code) + 1
      /\ DOMAIN code' = 1..(Len(code) + 1)
      /\ \A j \in 1..Len(code) : code'[j] = code[j]
      /\ code'[Len(code) + 1] = i
  BY <1>1, <1>2, AppendLemma
<1>5. \A j \in DOMAIN code' :
        code'[j].op \in {"br", "jmp"} => code'[j].to \in DOMAIN at
  BY <1>1, <1>4, LenProperties
<1> QED
  BY <1>3, <1>4, <1>5

(* A statement without control flow: it emits one instruction, and may        *)
(* declare a variable.                                                       *)
LEMMA StatementTypes ==
  ASSUME TypeInv, NEW i \in Inst, Emit(i), i.op \notin {"br", "jmp"},
         flag' \in FlagMap, order' \in Seq(Vars), Len(order') >= Len(order),
         stmts' \in 0..MaxStmts,
         phase' \in {"compile", "ready", "rejected"},
         term' \in {"open", "jump", "ret"},
         UNCHANGED <<ctl, at, into, execVars>>
  PROVE  TypeInv'
<1>1. /\ code' \in Seq(Inst) /\ ann' \in Seq(FlagMap)
      /\ \A j \in DOMAIN code' :
              code'[j].op \in {"br", "jmp"} => code'[j].to \in DOMAIN at
  BY EmitTypes
<1>2. TypeOK'
  BY <1>1 DEF TypeInv, TypeOK, ElabTypeOK, ExecTypeOK, execVars
<1>3. LabelsKnown'
  BY <1>1 DEF TypeInv, LabelsKnown, FrameKnown
<1>4. ScopesNest'
  <2>1. ctl' = ctl /\ Len(order') \in Nat
    BY LenProperties
  <2> QED
    BY <2>1, FrameTypes DEF TypeInv, ScopesNest
<1> QED
  BY <1>2, <1>3, <1>4 DEF TypeInv

LEMMA SimpleStatementTypes ==
  ASSUME TypeInv, UNCHANGED execVars, NEW v \in Vars, NEW u \in Vars,
         \/ LetNew(v) \/ LetLit(v) \/ LetMove(v, u) \/ LetAgain(v, u)
         \/ AssignNew(v) \/ AssignLit(v) \/ AssignMove(v, u)
         \/ UseVar(u) \/ Consume(u) \/ Discard(u)
  PROVE  TypeInv'
<1>1. /\ flag \in FlagMap /\ order \in Seq(Vars) /\ MaxStmts \in Nat
      /\ stmts \in 0..MaxStmts /\ term \in {"open", "jump", "ret"}
  BY ElabAssumption DEF TypeInv, TypeOK, ElabTypeOK
<1>2. /\ stmts' \in 0..MaxStmts /\ phase = "compile"
      /\ UNCHANGED <<phase, term, ctl, at, into>>
  <2>1. Stmt /\ UNCHANGED <<phase, term, ctl, at, into>>
    BY DEF LetNew, LetLit, LetMove, LetAgain, AssignNew, AssignLit,
           AssignMove, UseVar, Consume, Discard
  <2> QED
    BY <1>1, <2>1 DEF Stmt
<1>3. flag' \in FlagMap
  BY <1>1 DEF LetNew, LetLit, LetMove, LetAgain, AssignNew, AssignLit,
              AssignMove, UseVar, Consume, Discard, Received, FlagMap, Flag
<1>4. order' \in Seq(Vars) /\ Len(order') >= Len(order)
  <2>1. CASE LetAgain(v, u)
    <3> DEFINE renamed == [i \in DOMAIN order |->
                             IF order[i] = u THEN v ELSE order[i]]
    <3>1. renamed \in [1..Len(order) -> Vars] /\ Len(order) \in Nat
      BY <1>1, ElementOfSeq, LenProperties
    <3>2. renamed \in Seq(Vars)
      BY <3>1, SeqDef
    <3>3. Len(renamed) = Len(order)
      BY <3>1, <3>2, LenProperties
    <3> QED
      BY <2>1, <3>1, <3>2, <3>3, AppendLemma DEF LetAgain
  <2>2. CASE ~LetAgain(v, u)
    <3>1. order' = order \/ order' = Append(order, v)
      BY <2>2 DEF Declare, LetNew, LetLit, LetMove, AssignNew, AssignLit,
                  AssignMove, UseVar, Consume, Discard
    <3> QED
      BY <1>1, <3>1, AppendLemma, LenProperties
  <2> QED
    BY <2>1, <2>2
<1>5. PICK i \in Inst : Emit(i) /\ i.op \notin {"br", "jmp"}
  <2>1. \/ \E old \in BOOLEAN : Emit(New(v, old)) \/ Emit(Lit(v, old))
        \/ \E old \in BOOLEAN : Emit(Mov(v, u, old))
        \/ Emit(Borrow(u)) \/ Emit(Give(u)) \/ Emit(DropOne(u))
    BY DEF LetNew, LetLit, LetMove, LetAgain, AssignNew, AssignLit,
           AssignMove, UseVar, Consume, Discard
  <2> QED
    BY <2>1, InstTypes, UseTypes
<1> QED
  BY <1>1, <1>2, <1>3, <1>4, <1>5, StatementTypes

(* A construct is opened: two labels, one frame (helpers.go newBlock,        *)
(* pushLoop).                                                                *)
LEMMA LabelTypes ==
  ASSUME TypeInv, NEW a \in Nat, NEW b \in Nat, NewLabels(a, b),
         NEW A \in SUBSET FlagMap, NEW B \in SUBSET FlagMap, NewEdges(A, B)
  PROVE  /\ at' \in Seq(Nat) /\ into' \in Seq(SUBSET FlagMap)
         /\ Len(at') = Len(at) + 2 /\ Len(into') = Len(at) + 2
         /\ DOMAIN at = 1..Len(at) /\ DOMAIN at' = 1..(Len(at) + 2)
         /\ Len(at) \in Nat
<1>1. /\ at \in Seq(Nat) /\ into \in Seq(SUBSET FlagMap)
      /\ Len(into) = Len(at)
  BY DEF TypeInv, TypeOK, ElabTypeOK, LabelsKnown
<1>2. Len(at) \in Nat /\ DOMAIN at = 1..Len(at)
  BY <1>1, LenProperties
<1>3. /\ Append(at, a) \in Seq(Nat) /\ Len(Append(at, a)) = Len(at) + 1
      /\ Append(into, A) \in Seq(SUBSET FlagMap)
      /\ Len(Append(into, A)) = Len(at) + 1
  BY <1>1, AppendLemma
<1>4. /\ at' \in Seq(Nat) /\ Len(at') = Len(at) + 1 + 1
      /\ into' \in Seq(SUBSET FlagMap) /\ Len(into') = Len(at) + 1 + 1
  BY <1>3, AppendLemma DEF NewLabels, NewEdges
<1> QED
  BY <1>2, <1>4, LenProperties

LEMMA PushTypes ==
  ASSUME TypeInv, NEW F \in FrameSet, ctl' = Append(ctl, F),
         F.mark = Len(order), order' = order,
         at' \in Seq(Nat), Len(at') >= Len(at), FrameKnown(F)'
  PROVE  /\ ctl' \in Seq(FrameSet) /\ ScopesNest'
         /\ (\A k \in DOMAIN ctl : FrameKnown(ctl[k]))'
<1>1. /\ ctl \in Seq(FrameSet) /\ at \in Seq(Nat) /\ order \in Seq(Vars)
      /\ \A k \in DOMAIN ctl : FrameKnown(ctl[k])
  BY DEF TypeInv, TypeOK, ElabTypeOK, LabelsKnown
<1>2. /\ ctl' \in Seq(FrameSet) /\ DOMAIN ctl' = 1..(Len(ctl) + 1)
      /\ \A k \in 1..Len(ctl) : ctl'[k] = ctl[k]
      /\ ctl'[Len(ctl) + 1] = F
      /\ DOMAIN ctl = 1..Len(ctl) /\ Len(ctl) \in Nat
  BY <1>1, AppendLemma, LenProperties
<1>3. /\ DOMAIN at = 1..Len(at) /\ DOMAIN at' = 1..Len(at')
      /\ Len(at) \in Nat /\ Len(at') \in Nat /\ Len(order) \in Nat
  BY <1>1, LenProperties
<1>4. (\A k \in DOMAIN ctl : FrameKnown(ctl[k]))'
  <2>1. ASSUME NEW k \in 1..Len(ctl) PROVE FrameKnown(ctl[k])'
    <3>1. FrameKnown(ctl[k]) /\ ctl'[k] = ctl[k]
      BY <1>1, <1>2
    <3>2. DOMAIN at \subseteq DOMAIN at'
      BY <1>3
    <3> QED
      BY <3>1, <3>2 DEF FrameKnown
  <2>2. FrameKnown(F)'
    BY <1>2 DEF FrameKnown
  <2> QED
    BY <1>2, <2>1, <2>2
<1>6. ScopesNest'
  <2>1. \A k \in 1..Len(ctl) :
          ctl'[k].mark \in Nat /\ ctl'[k].mark <= Len(order')
    BY <1>2, FrameTypes DEF TypeInv, ScopesNest
  <2>2. \A k \in 1..Len(ctl) : \A j \in 1..k : ctl'[j].mark <= ctl'[k].mark
    BY <1>2 DEF TypeInv, ScopesNest
  <2> QED
    BY <1>2, <1>3, <2>1, <2>2 DEF ScopesNest
<1> QED
  BY <1>2, <1>4, <1>6

(* A construct is closed, or its second branch begins.                       *)
LEMMA PopTypes ==
  ASSUME TypeInv, ctl # <<>>
  PROVE  /\ Len(ctl) \in DOMAIN ctl
         /\ Pop \in Seq(FrameSet) /\ Len(Pop) = Len(ctl) - 1
         /\ DOMAIN Pop = 1..(Len(ctl) - 1)
         /\ \A k \in DOMAIN Pop : Pop[k] = ctl[k]
         /\ Top \in FrameSet /\ FrameKnown(Top)
         /\ Top.mark \in Nat /\ Top.mark <= Len(order)
         /\ Top.base \in FlagMap /\ Top.save \in FlagMap
<1>1. ctl \in Seq(FrameSet) /\ Len(ctl) \in Nat \ {0} /\ Len(ctl) \in DOMAIN ctl
  BY EmptySeq, LenProperties DEF TypeInv, TypeOK, ElabTypeOK
<1>2. Len(ctl) - 1 \in Nat /\ Len(ctl) - 1 <= Len(ctl)
  BY <1>1
<1>3. /\ Pop \in Seq(FrameSet) /\ Len(Pop) = Len(ctl) - 1
      /\ DOMAIN Pop = 1..(Len(ctl) - 1)
      /\ \A k \in 1..(Len(ctl) - 1) : Pop[k] = ctl[k]
  BY <1>1, <1>2, CutLemma DEF Pop
<1>4. FrameKnown(Top) /\ Top.mark <= Len(order)
  BY <1>1 DEF Top, TypeInv, LabelsKnown, ScopesNest
<1> QED
  BY <1>1, <1>3, <1>4, FrameTypes DEF Top

LEMMA CloseTypes ==
  ASSUME TypeInv, ctl # <<>>, ctl' = Pop, CutScope, Len(at') = Len(at),
         at' \in Seq(Nat)
  PROVE  /\ ctl' \in Seq(FrameSet) /\ order' \in Seq(Vars) /\ ScopesNest'
         /\ (\A k \in DOMAIN ctl : FrameKnown(ctl[k]))'
<1>1. order' \in Seq(Vars) /\ Len(order') = Top.mark
  BY PopTypes, CutLemma DEF CutScope, TypeInv, TypeOK, ElabTypeOK
<1>2. DOMAIN at' = DOMAIN at
  BY LenProperties DEF TypeInv, TypeOK, ElabTypeOK
<1>3. \A k \in DOMAIN ctl' : k \in DOMAIN ctl /\ k <= Len(ctl) /\ ctl'[k] = ctl[k]
  BY PopTypes, FrameTypes
<1>4. (\A k \in DOMAIN ctl : FrameKnown(ctl[k]))'
  BY <1>2, <1>3 DEF FrameKnown, TypeInv, LabelsKnown
<1>5. ScopesNest'
  <2>1. \A k \in DOMAIN ctl' : ctl'[k].mark <= Top.mark
    BY <1>3, PopTypes, FrameTypes DEF Top, TypeInv, ScopesNest
  <2>2. \A k \in DOMAIN ctl' : \A j \in 1..k : ctl'[j].mark <= ctl'[k].mark
    BY <1>3, PopTypes DEF TypeInv, ScopesNest
  <2> QED
    BY <1>1, <2>1, <2>2 DEF ScopesNest
<1> QED
  BY <1>1, <1>4, <1>5, PopTypes

\* The construct F is G but for its snapshot, which an inner construct may
\* have taken over.
Rebased(F, G) ==
  /\ G.kind = F.kind /\ G.mark = F.mark /\ G.head = F.head
  /\ G.next = F.next /\ G.exit = F.exit /\ G.save = F.save /\ G.ret = F.ret
  /\ \/ G.base = F.base /\ G.live = F.live
     \/ F.live /\ ~G.live /\ G.base = Outside(flag, F.mark)

\* P is what is open around the innermost construct.
Around(P) ==
  /\ P \in Seq(FrameSet) /\ Len(P) = Len(ctl) - 1
  /\ DOMAIN P = 1..(Len(ctl) - 1)
  /\ \A k \in DOMAIN P : Rebased(ctl[k], P[k])

(* The second branch of a match, and of an if, among what is open around it  *)
(* (helpers.go restoreScopes).                                               *)
LEMMA AroundPop ==
  ASSUME TypeInv, ctl # <<>>
  PROVE  Around(Pop) /\ Around(Abandoned(Pop))
<1>1. /\ Pop \in Seq(FrameSet) /\ Len(Pop) = Len(ctl) - 1
      /\ DOMAIN Pop = 1..(Len(ctl) - 1) /\ Len(Pop) \in Nat
      /\ \A k \in DOMAIN Pop : Pop[k] = ctl[k] /\ Pop[k] \in FrameSet
  BY PopTypes, ElementOfSeq, LenProperties
<1>2. ASSUME NEW k \in DOMAIN Pop
      PROVE  /\ Abandoned(Pop)[k] \in FrameSet
             /\ Rebased(ctl[k], Abandoned(Pop)[k])
  <2>1. PICK f \in FlagMap : f = Outside(flag, Pop[k].mark)
    BY OutsideType DEF TypeInv, TypeOK, ElabTypeOK
  <2>2. CASE Pop[k].live
    <3>1. Abandoned(Pop)[k] = [Pop[k] EXCEPT !.base = f, !.live = FALSE]
      BY <2>1, <2>2 DEF Abandoned
    <3>2. PICK F \in FrameSet : F = Pop[k]
      BY <1>1
    <3>3. PICK G : G = [F EXCEPT !.base = f, !.live = FALSE]
      OBVIOUS
    <3>4. /\ G \in FrameSet /\ G.kind = F.kind /\ G.mark = F.mark
          /\ G.head = F.head /\ G.next = F.next /\ G.exit = F.exit
          /\ G.save = F.save /\ G.ret = F.ret /\ ~G.live /\ G.base = f
      BY <3>3 DEF FrameSet
    <3> QED
      BY <1>1, <2>1, <2>2, <3>1, <3>2, <3>3, <3>4 DEF Rebased
  <2>3. CASE ~Pop[k].live
    BY <1>1, <2>3 DEF Abandoned, Rebased
  <2> QED
    BY <2>2, <2>3
<1>3. DOMAIN Abandoned(Pop) = DOMAIN Pop
  BY DEF Abandoned
<1>4. Abandoned(Pop) \in [1..(Len(ctl) - 1) -> FrameSet]
  <2>1. Abandoned(Pop) = [k \in DOMAIN Pop |-> Abandoned(Pop)[k]]
    BY DEF Abandoned
  <2> QED
    BY <1>1, <1>2, <2>1
<1>5. Len(ctl) - 1 \in Nat
  BY <1>1
<1>6. Abandoned(Pop) \in Seq(FrameSet) /\ Len(Abandoned(Pop)) = Len(ctl) - 1
  BY <1>4, <1>5, SeqDef, LenProperties
<1>7. \A k \in DOMAIN Pop : Rebased(ctl[k], Pop[k])
  BY <1>1 DEF Rebased
<1> QED
  BY <1>1, <1>2, <1>3, <1>6, <1>7 DEF Around

(* What Around leaves alone, when the innermost construct becomes F.         *)
LEMMA AroundAppend ==
  ASSUME TypeInv, ctl # <<>>, NEW P, Around(P), NEW F \in FrameSet,
         ctl' = Append(P, F)
  PROVE  /\ ctl' \in Seq(FrameSet) /\ DOMAIN ctl' = DOMAIN ctl
         /\ ctl'[Len(ctl)] = F /\ Len(ctl) \in DOMAIN ctl
         /\ \A k \in DOMAIN ctl \ {Len(ctl)} : Rebased(ctl[k], ctl'[k])
<1>1. /\ Len(ctl) \in Nat /\ DOMAIN ctl = 1..Len(ctl) /\ Len(ctl) \in DOMAIN ctl
  BY PopTypes, FrameTypes
<1>2. /\ P \in Seq(FrameSet) /\ Len(P) = Len(ctl) - 1
      /\ \A k \in 1..(Len(ctl) - 1) : Rebased(ctl[k], P[k])
  BY DEF Around
<1>3. /\ ctl' \in Seq(FrameSet) /\ DOMAIN ctl' = 1..(Len(P) + 1)
      /\ ctl'[Len(P) + 1] = F /\ \A k \in 1..Len(P) : ctl'[k] = P[k]
  BY <1>2, AppendLemma
<1>4. Len(P) + 1 = Len(ctl)
  BY <1>1, <1>2
<1>5. ASSUME NEW k \in DOMAIN ctl \ {Len(ctl)} PROVE Rebased(ctl[k], ctl'[k])
  <2>1. k \in 1..(Len(ctl) - 1) /\ k \in 1..Len(P)
    BY <1>1, <1>2
  <2> QED
    BY <1>2, <1>3, <2>1
<1> QED
  BY <1>1, <1>3, <1>4, <1>5

LEMMA SwitchTypes ==
  ASSUME TypeInv, ctl # <<>>, NEW F \in FrameSet,
         NEW P, Around(P), ctl' = Append(P, F),
         F.mark = Top.mark, F.kind \in {"else", "last"}, F.exit = Top.exit,
         Top.kind # "block", CutScope, at' \in Seq(Nat), Len(at') = Len(at)
  PROVE  /\ ctl' \in Seq(FrameSet) /\ order' \in Seq(Vars) /\ ScopesNest'
         /\ (\A k \in DOMAIN ctl : FrameKnown(ctl[k]))'
<1>1. order' \in Seq(Vars) /\ Len(order') = Top.mark
  BY PopTypes, CutLemma DEF CutScope, TypeInv, TypeOK, ElabTypeOK
<1>2. DOMAIN at' = DOMAIN at
  BY LenProperties DEF TypeInv, TypeOK, ElabTypeOK
<1>3. /\ ctl' \in Seq(FrameSet) /\ DOMAIN ctl' = DOMAIN ctl
      /\ ctl'[Len(ctl)] = F
      /\ \A k \in DOMAIN ctl \ {Len(ctl)} : Rebased(ctl[k], ctl'[k])
      /\ DOMAIN ctl = 1..Len(ctl) /\ Len(ctl) \in Nat
  BY AroundAppend, FrameTypes
<1>4. (\A k \in DOMAIN ctl : FrameKnown(ctl[k]))'
  <2>1. ASSUME NEW k \in DOMAIN ctl, k # Len(ctl) PROVE FrameKnown(ctl[k])'
    <3>1. FrameKnown(ctl[k]) /\ Rebased(ctl[k], ctl'[k])
      BY <1>3, <2>1 DEF TypeInv, LabelsKnown
    <3>2. /\ ctl'[k].kind = ctl[k].kind /\ ctl'[k].exit = ctl[k].exit
          /\ ctl'[k].next = ctl[k].next /\ ctl'[k].head = ctl[k].head
      BY <3>1 DEF Rebased
    <3> QED
      BY <1>2, <3>1, <3>2 DEF FrameKnown
  <2>2. FrameKnown(F)'
    BY <1>2, PopTypes DEF FrameKnown
  <2> QED
    BY <1>3, <2>1, <2>2
<1>5. ScopesNest'
  <2>1. \A k \in DOMAIN ctl : ctl'[k].mark = ctl[k].mark
    BY <1>3 DEF Top, Rebased
  <2>2. \A k \in DOMAIN ctl : ctl[k].mark <= Top.mark
    BY <1>3, PopTypes DEF Top, TypeInv, ScopesNest
  <2>3. \A k \in DOMAIN ctl' : ctl'[k].mark <= Len(order')
    BY <1>1, <1>3, <2>1, <2>2
  <2>4. \A k \in DOMAIN ctl' : \A j \in 1..k : ctl'[j].mark <= ctl'[k].mark
    <3>1. ASSUME NEW k \in DOMAIN ctl, NEW j \in 1..k
          PROVE  ctl[j].mark <= ctl[k].mark /\ j \in DOMAIN ctl
      <4>1. j \in DOMAIN ctl
        BY FrameTypes
      <4>2. ctl[j].mark <= ctl[k].mark
        BY DEF TypeInv, ScopesNest
      <4> QED
        BY <4>1, <4>2
    <3> QED
      BY <1>3, <2>1, <3>1
  <2> QED
    BY <2>3, <2>4 DEF ScopesNest
<1> QED
  BY <1>1, <1>3, <1>4, <1>5

(* The end of a block: a jump if it is still open, then a label is placed.   *)
LEMMA FallTypes ==
  ASSUME TypeInv, NEW l \in DOMAIN at, NEW k \in Nat, FallInto(l, k)
  PROVE  /\ code' \in Seq(Inst) /\ ann' \in Seq(FlagMap) /\ Len(code') \in Nat
         /\ \A j \in DOMAIN code' :
              code'[j].op \in {"br", "jmp"} => code'[j].to \in DOMAIN at
<1>1. l \in Nat /\ order \in Seq(Vars) /\ flag \in FlagMap
  BY LenProperties DEF TypeInv, TypeOK, ElabTypeOK
<1>2. CASE term = "open"
  <2>1. Drops(k) \in DropList
    BY <1>1, DropsType
  <2>2. /\ Jump(l, Drops(k)) \in Inst /\ Jump(l, Drops(k)).to = l
    BY <1>1, <2>1, JumpTypes
  <2>3. Emit(Jump(l, Drops(k)))
    BY <1>2 DEF FallInto
  <2> QED
    BY <2>2, <2>3, EmitTypes, LenProperties
<1>3. CASE term # "open"
  BY <1>3, LenProperties DEF FallInto, TypeInv, TypeOK, ElabTypeOK, LabelsKnown
<1> QED
  BY <1>2, <1>3

LEMMA EdgeTypes ==
  ASSUME TypeInv, NEW k, NEW l,
         into' = [into EXCEPT ![l] = @ \cup FallEdge(k)]
  PROVE  into' \in Seq(SUBSET FlagMap) /\ Len(into') = Len(into)
<1>1. FallEdge(k) \subseteq FlagMap
  BY OutsideType DEF FallEdge, TypeInv, TypeOK, ElabTypeOK
<1>2. /\ into \in Seq(SUBSET FlagMap) /\ Len(into) \in Nat
      /\ into \in [1..Len(into) -> SUBSET FlagMap]
  BY LenProperties DEF TypeInv, TypeOK, ElabTypeOK
<1>3. into' \in [1..Len(into) -> SUBSET FlagMap]
  BY <1>1, <1>2
<1> QED
  BY <1>2, <1>3, SeqDef, LenProperties

LEMMA PlaceTypes ==
  ASSUME TypeInv, Len(code') \in Nat, NEW l, at' = Place(at, l)
  PROVE  at' \in Seq(Nat) /\ Len(at') = Len(at) /\ DOMAIN at' = DOMAIN at
<1>1. /\ at \in Seq(Nat) /\ Len(at) \in Nat /\ DOMAIN at = 1..Len(at)
      /\ at \in [1..Len(at) -> Nat]
  BY LenProperties DEF TypeInv, TypeOK, ElabTypeOK
<1>2. at' = [at EXCEPT ![l] = Len(code') + 1] /\ Len(code') + 1 \in Nat
  BY DEF Place
<1>3. at' \in [1..Len(at) -> Nat]
  BY <1>1, <1>2
<1>4. at' \in Seq(Nat)
  BY <1>1, <1>3, SeqDef
<1> QED
  BY <1>1, <1>3, <1>4, LenProperties

LEMMA BlockTypes ==
  ASSUME TypeInv, UNCHANGED execVars, OpenBlock \/ CloseBlock
  PROVE  TypeInv'
<1>1. CASE OpenBlock
  <2>0. flag \in FlagMap /\ Len(order) \in Nat
    BY FrameTypes DEF TypeInv, TypeOK, ElabTypeOK
  <2>1. PICK F \in FrameSet :
          F = Frame("block", 0, 0, 0) /\ F.mark = Len(order) /\ F.kind = "block"
    <3>1. /\ Frame("block", 0, 0, 0) \in FrameSet
          /\ Frame("block", 0, 0, 0).mark = Len(order)
          /\ Frame("block", 0, 0, 0).kind = "block"
      <4>1. "block" \in FrameKind
        BY DEF FrameKind
      <4> QED
        BY <2>0, <4>1, NewFrameType
    <3> QED
      BY <3>1
  <2>2. /\ stmts' \in 0..MaxStmts /\ ctl' = Append(ctl, F)
        /\ UNCHANGED <<phase, flag, order, term, code, at, ann, into>>
    BY <1>1, <2>1, ElabAssumption
       DEF OpenBlock, Open, Stmt, TypeInv, TypeOK, ElabTypeOK
  <2>3. at' \in Seq(Nat) /\ Len(at') >= Len(at) /\ FrameKnown(F)'
    BY <2>1, <2>2, LenProperties DEF TypeInv, TypeOK, ElabTypeOK, FrameKnown
  <2>4. /\ ctl' \in Seq(FrameSet) /\ ScopesNest'
        /\ (\A k \in DOMAIN ctl : FrameKnown(ctl[k]))'
    BY <2>1, <2>2, <2>3, PushTypes
  <2> QED
    BY <2>2, <2>4 DEF TypeInv, TypeOK, ElabTypeOK, ExecTypeOK, execVars,
                      LabelsKnown
<1>2. CASE CloseBlock
  <2>1. /\ ctl # <<>> /\ ctl' = Pop /\ CutScope
        /\ flag' = Outside(flag, Top.mark)
        /\ UNCHANGED <<phase, stmts, term, at, into>>
    BY <1>2 DEF CloseBlock, TopIs
  <2>2. /\ ctl' \in Seq(FrameSet) /\ order' \in Seq(Vars) /\ ScopesNest'
        /\ (\A k \in DOMAIN ctl : FrameKnown(ctl[k]))'
    BY <2>1, CloseTypes DEF TypeInv, TypeOK, ElabTypeOK
  <2>3. flag' \in FlagMap
    BY <2>1, OutsideType DEF TypeInv, TypeOK, ElabTypeOK
  <2>4. /\ code' \in Seq(Inst) /\ ann' \in Seq(FlagMap)
        /\ \A j \in DOMAIN code' :
              code'[j].op \in {"br", "jmp"} => code'[j].to \in DOMAIN at
    <3>1. CASE term = "open"
      <4>1. DropAll(Drops(Top.mark)) \in Inst
            /\ DropAll(Drops(Top.mark)).op = "leave"
        BY <2>1, PopTypes, DropsType DEF TypeInv, TypeOK, ElabTypeOK, Inst, DropAll
      <4>2. Emit(DropAll(Drops(Top.mark)))
        BY <1>2, <3>1 DEF CloseBlock
      <4> QED
        BY <4>1, <4>2, EmitTypes
    <3>2. CASE term # "open"
      BY <1>2, <3>2 DEF CloseBlock, TypeInv, TypeOK, ElabTypeOK, LabelsKnown
    <3> QED
      BY <3>1, <3>2
  <2> QED
    BY <2>1, <2>2, <2>3, <2>4
       DEF TypeInv, TypeOK, ElabTypeOK, ExecTypeOK, execVars, LabelsKnown
<1> QED
  BY <1>1, <1>2

(* compileIf, compileWhile, compileLoop, compileMatch: the beginning.        *)
LEMMA OpenTypes ==
  ASSUME TypeInv, UNCHANGED execVars,
         OpenIf \/ OpenLoop \/ OpenWhile \/ OpenArms
  PROVE  TypeInv'
<1>1. PICK kind \in {"then", "loop", "arm"}, head \in Nat, next \in Nat :
        /\ ctl' = Append(ctl, Frame(kind, head, next, Len(at) + 2))
        /\ kind = "loop" => head = Len(at) + 1
        /\ kind # "loop" => next = Len(at) + 1
  BY FrameTypes, LenProperties
     DEF OpenIf, OpenLoop, OpenWhile, OpenArms, TypeInv, TypeOK, ElabTypeOK
<1>2. /\ Stmt /\ UNCHANGED <<phase, flag, order, term>>
      /\ \E a, b \in Nat : NewLabels(a, b)
      /\ \E A, B \in SUBSET FlagMap : NewEdges(A, B)
  <2>1. flag \in FlagMap /\ Len(code) + 1 \in Nat
    BY LenProperties DEF TypeInv, TypeOK, ElabTypeOK
  <2>2. {flag} \in SUBSET FlagMap /\ {} \in SUBSET FlagMap
    BY <2>1
  <2> QED
    BY <2>1, <2>2 DEF OpenIf, OpenLoop, OpenWhile, OpenArms, Open
<1>3. /\ at' \in Seq(Nat) /\ into' \in Seq(SUBSET FlagMap)
      /\ Len(at') = Len(at) + 2 /\ Len(into') = Len(at) + 2
      /\ DOMAIN at = 1..Len(at) /\ DOMAIN at' = 1..(Len(at) + 2)
      /\ Len(at) \in Nat
  BY <1>2, LabelTypes
<1>4. PICK F \in FrameSet : /\ F = Frame(kind, head, next, Len(at) + 2)
                            /\ F.kind = kind /\ F.mark = Len(order)
                            /\ F.head = head /\ F.next = next
                            /\ F.exit = Len(at) + 2
  <2>1. flag \in FlagMap /\ Len(order) \in Nat /\ Len(at) + 2 \in Nat
    BY <1>3, FrameTypes DEF TypeInv, TypeOK, ElabTypeOK
  <2>2. kind \in FrameKind
    BY DEF FrameKind
  <2>3. Frame(kind, head, next, Len(at) + 2) \in FrameSet
    BY <2>1, <2>2, NewFrameType
  <2> QED
    BY <2>3 DEF Frame
<1>8. FrameKnown(F)'
  BY <1>1, <1>3, <1>4 DEF FrameKnown
<1>5. /\ ctl' \in Seq(FrameSet) /\ ScopesNest'
      /\ (\A k \in DOMAIN ctl : FrameKnown(ctl[k]))'
  BY <1>1, <1>2, <1>3, <1>4, <1>8, PushTypes
<1>6. /\ code' \in Seq(Inst) /\ ann' \in Seq(FlagMap)
      /\ \A j \in DOMAIN code' :
            code'[j].op \in {"br", "jmp"} => code'[j].to \in DOMAIN at'
  <2>1. \/ UNCHANGED <<code, ann>>
        \/ Emit(Branch(Len(at) + 1)) \/ Emit(Branch(Len(at) + 2))
    BY DEF OpenIf, OpenLoop, OpenWhile, OpenArms
  <2>2. CASE UNCHANGED <<code, ann>>
    BY <2>2, <1>3 DEF TypeInv, TypeOK, ElabTypeOK, LabelsKnown
  <2>3. ASSUME NEW l \in {Len(at) + 1, Len(at) + 2}, Emit(Branch(l))
        PROVE  /\ code' \in Seq(Inst) /\ ann' \in Seq(FlagMap)
               /\ \A j \in DOMAIN code' :
                    code'[j].op \in {"br", "jmp"} => code'[j].to \in DOMAIN at'
    <3>1. /\ Branch(l) \in Inst /\ Branch(l).to = l
      BY <1>3 DEF Branch, Inst
    <3>2. /\ code \in Seq(Inst) /\ ann \in Seq(FlagMap) /\ flag \in FlagMap
          /\ \A j \in DOMAIN code :
                code[j].op \in {"br", "jmp"} => code[j].to \in DOMAIN at
      BY DEF TypeInv, TypeOK, ElabTypeOK, LabelsKnown
    <3>3. /\ code' \in Seq(Inst) /\ DOMAIN code' = 1..(Len(code) + 1)
          /\ \A j \in 1..Len(code) : code'[j] = code[j]
          /\ code'[Len(code) + 1] = Branch(l)
          /\ ann' \in Seq(FlagMap)
      BY <2>3, <3>1, <3>2, AppendLemma DEF Emit
    <3>4. Len(code) \in Nat /\ DOMAIN code = 1..Len(code)
      BY <3>2, LenProperties
    <3>5. ASSUME NEW j \in DOMAIN code', code'[j].op \in {"br", "jmp"}
          PROVE  code'[j].to \in DOMAIN at'
      <4>1. CASE j = Len(code) + 1
        BY <1>3, <3>1, <3>3, <4>1
      <4>2. CASE j \in 1..Len(code)
        BY <1>3, <3>2, <3>3, <3>4, <3>5, <4>2
      <4> QED
        BY <3>3, <3>4, <4>1, <4>2
    <3> QED
      BY <3>3, <3>5
  <2> QED
    BY <2>1, <2>2, <2>3
<1>7. stmts' \in 0..MaxStmts
  BY <1>2, ElabAssumption DEF Stmt, TypeInv, TypeOK, ElabTypeOK
<1> QED
  BY <1>2, <1>3, <1>5, <1>6, <1>7
     DEF TypeInv, TypeOK, ElabTypeOK, ExecTypeOK, execVars, LabelsKnown

(* The second branch of an if or a match: Else and NextArm.                  *)
LEMMA BranchTypes ==
  ASSUME TypeInv, UNCHANGED execVars, Else \/ NextArm
  PROVE  TypeInv'
<1>1. /\ ctl # <<>> /\ Top.kind \in {"then", "arm"} /\ FallInto(Top.exit, Top.mark)
      /\ at' = Place(at, Top.next) /\ CutScope /\ term' = "open"
      /\ into' = [into EXCEPT ![Top.exit] = @ \cup FallEdge(Top.mark)]
      /\ UNCHANGED <<phase, stmts>>
  BY DEF Else, Restored, NextArm, TopIs
<1>2. /\ Top.exit \in DOMAIN at /\ Top.mark \in Nat /\ Top \in FrameSet
      /\ Top.base \in FlagMap /\ flag \in FlagMap
      /\ Outside(flag, Top.mark) \in FlagMap
  BY <1>1, PopTypes, OutsideType DEF FrameKnown, TypeInv, TypeOK, ElabTypeOK
<1>3. /\ code' \in Seq(Inst) /\ ann' \in Seq(FlagMap) /\ Len(code') \in Nat
      /\ \A j \in DOMAIN code' :
            code'[j].op \in {"br", "jmp"} => code'[j].to \in DOMAIN at
  BY <1>1, <1>2, FallTypes
<1>4. at' \in Seq(Nat) /\ Len(at') = Len(at) /\ DOMAIN at' = DOMAIN at
  BY <1>1, <1>3, PlaceTypes
<1>5. into' \in Seq(SUBSET FlagMap) /\ Len(into') = Len(into)
  BY <1>1, EdgeTypes
<1>6. flag' \in FlagMap
  BY <1>2 DEF Else, Restored, NextArm
<1>7. PICK F \in FrameSet : /\ \E P : Around(P) /\ ctl' = Append(P, F)
                            /\ F.mark = Top.mark /\ F.exit = Top.exit
                            /\ F.kind \in {"else", "last"}
  <2>1. CASE Else
    <3>1. PICK F : F = [Top EXCEPT !.kind = "else", !.live = TRUE,
                                   !.save = Outside(flag, Top.mark),
                                   !.ret = (term = "ret")]
      OBVIOUS
    <3>2. /\ F \in FrameSet /\ F.mark = Top.mark /\ F.exit = Top.exit
          /\ F.kind = "else"
      BY <1>2, <3>1 DEF FrameSet, FrameKind
    <3>3. ctl' = Append(Abandoned(Pop), F)
      BY <2>1, <3>1 DEF Else
    <3> QED
      BY <1>1, <3>2, <3>3, AroundPop
  <2>2. CASE NextArm
    <3>1. PICK F : F = [Top EXCEPT !.kind = "last"]
      OBVIOUS
    <3>2. /\ F \in FrameSet /\ F.mark = Top.mark /\ F.exit = Top.exit
          /\ F.kind = "last"
      BY <1>2, <3>1 DEF FrameSet, FrameKind
    <3>3. ctl' = Append(Pop, F)
      BY <2>2, <3>1 DEF NextArm
    <3> QED
      BY <1>1, <3>2, <3>3, AroundPop
  <2> QED
    BY <2>1, <2>2
<1>8. /\ ctl' \in Seq(FrameSet) /\ order' \in Seq(Vars) /\ ScopesNest'
      /\ (\A k \in DOMAIN ctl : FrameKnown(ctl[k]))'
  BY <1>1, <1>4, <1>7, SwitchTypes
<1> QED
  BY <1>1, <1>3, <1>4, <1>5, <1>6, <1>8
     DEF TypeInv, TypeOK, ElabTypeOK, ExecTypeOK, execVars, LabelsKnown

(* The end of an if, a loop or a match.                                      *)
LEMMA EndTypes ==
  ASSUME TypeInv, UNCHANGED execVars, EndIf \/ EndLoop \/ EndArms
  PROVE  TypeInv'
<1>1. /\ ctl # <<>> /\ at' = Place(at, Top.exit) /\ CutScope /\ ctl' = Pop
      /\ term' = "open" /\ UNCHANGED <<phase, stmts>>
      /\ \E l : into' = [into EXCEPT ![l] = @ \cup FallEdge(Top.mark)]
      /\ flag' = Merged \/ flag' = Outside(flag, Top.mark)
  BY DEF EndIf, EndLoop, EndArms, TopIs
<1>2. PICK l \in DOMAIN at : FallInto(l, Top.mark)
  BY PopTypes DEF EndIf, EndLoop, EndArms, TopIs, FrameKnown
<1>3. /\ code' \in Seq(Inst) /\ ann' \in Seq(FlagMap) /\ Len(code') \in Nat
      /\ \A j \in DOMAIN code' :
            code'[j].op \in {"br", "jmp"} => code'[j].to \in DOMAIN at
  BY <1>1, <1>2, FallTypes, PopTypes
<1>4. at' \in Seq(Nat) /\ Len(at') = Len(at) /\ DOMAIN at' = DOMAIN at
  BY <1>1, <1>3, PlaceTypes
<1>5. into' \in Seq(SUBSET FlagMap) /\ Len(into') = Len(into)
  BY <1>1, EdgeTypes
<1>6. flag' \in FlagMap
  <2>1. /\ Outside(flag, Top.mark) \in FlagMap
        /\ Top.save \in FlagMap /\ Top.base \in FlagMap
    BY <1>1, PopTypes, OutsideType DEF TypeInv, TypeOK, ElabTypeOK
  <2>2. Merge(Top.save, Outside(flag, Top.mark)) \in FlagMap
    BY <2>1, MergeType
  <2> QED
    BY <1>1, <2>1, <2>2 DEF Merged
<1>7. /\ ctl' \in Seq(FrameSet) /\ order' \in Seq(Vars) /\ ScopesNest'
      /\ (\A k \in DOMAIN ctl : FrameKnown(ctl[k]))'
  BY <1>1, <1>4, CloseTypes
<1> QED
  BY <1>1, <1>3, <1>4, <1>5, <1>6, <1>7
     DEF TypeInv, TypeOK, ElabTypeOK, ExecTypeOK, execVars, LabelsKnown

(* break and continue.                                                       *)
LEMMA LeaveTypes ==
  ASSUME TypeInv, UNCHANGED execVars, NEW k, Break(k) \/ Continue(k)
  PROVE  TypeInv'
<1>1. PICK l \in DOMAIN at :
        /\ k \in DOMAIN ctl
        /\ Emit(Jump(l, Drops(ctl[k].mark)))
        /\ into' = [into EXCEPT ![l] = @ \cup {Outside(flag, ctl[k].mark)}]
        /\ Stmt /\ term' = "jump" /\ UNCHANGED <<phase, flag, order, ctl, at>>
  <2>1. k \in DOMAIN ctl /\ ctl[k].kind = "loop" /\ FrameKnown(ctl[k])
    BY DEF Break, Continue, TypeInv, LabelsKnown
  <2>2. ctl[k].head \in DOMAIN at /\ ctl[k].exit \in DOMAIN at
    BY <2>1 DEF FrameKnown
  <2> QED
    BY <2>1, <2>2 DEF Break, Continue
<1>2. /\ l \in Nat /\ order \in Seq(Vars) /\ flag \in FlagMap
      /\ stmts' \in 0..MaxStmts /\ ctl[k].mark \in Nat
  BY <1>1, LenProperties, FrameTypes, ElabAssumption
     DEF Stmt, TypeInv, TypeOK, ElabTypeOK
<1>3. Drops(ctl[k].mark) \in DropList
  BY <1>2, DropsType
<1>4. /\ Jump(l, Drops(ctl[k].mark)) \in Inst
      /\ Jump(l, Drops(ctl[k].mark)).to = l
  BY <1>2, <1>3, JumpTypes
<1>5. /\ code' \in Seq(Inst) /\ ann' \in Seq(FlagMap)
      /\ \A j \in DOMAIN code' :
            code'[j].op \in {"br", "jmp"} => code'[j].to \in DOMAIN at
  BY <1>1, <1>4, EmitTypes
<1>6. into' \in Seq(SUBSET FlagMap) /\ Len(into') = Len(into)
  <2>1. {Outside(flag, ctl[k].mark)} \subseteq FlagMap
    BY <1>2, OutsideType
  <2>2. /\ into \in Seq(SUBSET FlagMap) /\ Len(into) \in Nat
        /\ into \in [1..Len(into) -> SUBSET FlagMap]
    BY LenProperties DEF TypeInv, TypeOK, ElabTypeOK
  <2>3. into' \in [1..Len(into) -> SUBSET FlagMap]
    BY <1>1, <2>1, <2>2
  <2> QED
    BY <2>2, <2>3, SeqDef, LenProperties
<1> QED
  BY <1>1, <1>2, <1>5, <1>6
     DEF TypeInv, TypeOK, ElabTypeOK, ExecTypeOK, execVars, LabelsKnown,
         ScopesNest, FrameKnown

(* The end of the function, and the diagnostic that ends compilation.        *)
LEMMA FinishTypes ==
  ASSUME TypeInv, UNCHANGED execVars,
         \/ Finish \/ (\E u \in Vars : UseMoved(u))
         \/ (\E u \in Vars \cup {NoVar} : Return(u))
  PROVE  TypeInv'
<1>1. /\ order \in Seq(Vars) /\ flag \in FlagMap /\ stmts \in 0..MaxStmts
      /\ MaxStmts \in Nat /\ Drops(0) \in DropList
  BY DropsType, ElabAssumption DEF TypeInv, TypeOK, ElabTypeOK
<1>2. CASE Finish
  <2>1. /\ Ret(NoVar, Drops(0)) \in Inst /\ Ret(NoVar, Drops(0)).op = "ret"
    BY <1>1 DEF Ret, Inst
  <2>2. CASE term = "open"
    BY <1>1, <1>2, <2>1, <2>2, StatementTypes, LenProperties DEF Finish
  <2>3. CASE term # "open"
    BY <1>2, <2>3
       DEF Finish, TypeInv, TypeOK, ElabTypeOK, ExecTypeOK, execVars,
           LabelsKnown, ScopesNest, FrameKnown
  <2> QED
    BY <2>2, <2>3
<1>3. CASE \E u \in Vars : UseMoved(u)
  BY <1>1, <1>3
     DEF UseMoved, Stmt, TypeInv, TypeOK, ElabTypeOK, ExecTypeOK, execVars,
         LabelsKnown, ScopesNest, FrameKnown
<1>4. CASE \E u \in Vars \cup {NoVar} : Return(u)
  <2>1. PICK u \in Vars \cup {NoVar} : Return(u)
    BY <1>4
  <2>2. PICK d \in DropList : d = [Drops(0) EXCEPT !.own = @ \ {u}]
    BY <1>1 DEF DropList
  <2>3. Ret(u, d) \in Inst /\ Ret(u, d).op = "ret"
    BY <2>2 DEF Ret, Inst
  <2>4. flag' \in FlagMap /\ stmts' \in 0..MaxStmts
    BY <1>1, <2>1 DEF Return, Stmt, FlagMap, Flag
  <2>5. /\ Emit(Ret(u, d)) /\ term' = "ret"
        /\ UNCHANGED <<phase, order, ctl, at, into>>
    BY <2>1, <2>2 DEF Return
  <2>6. phase \in {"compile", "ready", "rejected"} /\ Len(order) \in Nat
    BY <1>1, LenProperties DEF TypeInv, TypeOK, ElabTypeOK
  <2> QED
    BY <1>1, <2>3, <2>4, <2>5, <2>6, StatementTypes
<1> QED
  BY <1>2, <1>3, <1>4

-----------------------------------------------------------------------------
(* Steps of the compiled function                                           *)

(* The operands of an instruction.                                           *)
LEMMA OperandTypes ==
  ASSUME NEW c \in Inst
  PROVE  /\ c.op \in {"new", "lit", "mov", "use", "give", "drop"} => c.v \in Vars
         /\ c.op \in {"new", "lit", "mov"} => c.old \in BOOLEAN
         /\ c.op = "mov" => c.src \in Vars
         /\ c.op \in {"leave", "jmp", "ret"} => c.d \in DropList
         /\ c.op = "ret" => c.v \in Vars \cup {NoVar}
         /\ c.op \in {"new", "lit", "mov", "use", "give", "drop", "leave",
                      "br", "jmp", "ret"}
  BY DEF Inst

LEMMA CurTypes ==
  ASSUME TypeInv, Running
  PROVE  /\ Cur \in Inst /\ pc \in Nat
         /\ Cur.op \in {"br", "jmp"} => Cur.to \in DOMAIN at /\ at[Cur.to] \in Nat
<1>1. code \in Seq(Inst) /\ at \in Seq(Nat) /\ pc \in DOMAIN code /\ pc \in Nat
  BY DEF TypeInv, TypeOK, ElabTypeOK, ExecTypeOK, Running
<1>2. Cur \in Inst
  BY <1>1, ElementOfSeq, LenProperties DEF Cur
<1>3. Cur.op \in {"br", "jmp"} => Cur.to \in DOMAIN at
  BY <1>1 DEF Cur, TypeInv, LabelsKnown
<1> QED
  BY <1>1, <1>2, <1>3, ElementOfSeq, LenProperties

LEMMA DropsOwnerType ==
  ASSUME TypeInv, NEW d
  PROVE  AfterDrops(d) \in [Cells -> Vars \cup {Released, Lost}]
  BY DEF AfterDrops, TypeInv, TypeOK, ExecTypeOK

LEMMA ExecTypes ==
  ASSUME TypeInv, ExecStep, UNCHANGED elabVars
  PROVE  TypeInv'
<1>1. /\ env \in [Vars -> Cells \cup {Static, Unset}]
      /\ owner \in [Cells -> Vars \cup {Released, Lost}]
      /\ status \in {"running", "returned", "double", "stale"} /\ pc \in Nat
  BY DEF TypeInv, TypeOK, ExecTypeOK
<1>2. Running
  BY DEF ExecStep, StepNew, StepLit, StepMov, StepUse, StepGive, StepDrop,
         StepLeave, StepBranch, StepJump, StepRet, At
<1>3. /\ Cur \in Inst
      /\ Cur.op \in {"br", "jmp"} => at[Cur.to] \in Nat
  BY <1>2, CurTypes
<1>4. Overwritten(Cur) \in {Released, Lost}
  BY DEF Overwritten
<1>5. pc' \in Nat /\ status' \in {"running", "returned", "double", "stale"}
  BY <1>1, <1>3
     DEF ExecStep, StepNew, StepLit, StepMov, StepUse, StepGive, StepDrop,
         StepLeave, StepBranch, StepJump, StepRet, At, Fail, Goto, Next1
<1>6. env' \in [Vars -> Cells \cup {Static, Unset}]
  <2>1. CASE StepMov
    <3>1. Cur.src \in Vars
      BY <2>1, <1>3, OperandTypes DEF StepMov, At
    <3> QED
      BY <1>1, <2>1, <3>1 DEF StepMov, Fail
  <2>2. CASE ~StepMov
    BY <1>1, <2>2
       DEF ExecStep, StepNew, StepLit, StepUse, StepGive, StepDrop,
           StepLeave, StepBranch, StepJump, StepRet, Fail, Fresh
  <2> QED
    BY <2>1, <2>2
<1>7. owner' \in [Cells -> Vars \cup {Released, Lost}]
  <2>1. CASE \E c \in Cells : StepNew(c)
    <3>1. Cur.v \in Vars
      BY <2>1, <1>3, OperandTypes DEF StepNew, At
    <3> QED
      BY <1>1, <1>4, <2>1, <3>1 DEF StepNew, Fail
  <2>2. CASE StepLit
    BY <1>1, <1>4, <2>2 DEF StepLit, Fail
  <2>3. CASE StepMov
    <3>1. Cur.v \in Vars
      BY <2>3, <1>3, OperandTypes DEF StepMov, At
    <3> QED
      BY <1>1, <1>4, <2>3, <3>1 DEF StepMov, Fail
  <2>4. CASE StepUse \/ StepBranch
    BY <1>1, <2>4 DEF StepUse, StepBranch, Fail
  <2>5. CASE StepGive
    BY <1>1, <2>5 DEF StepGive, Fail
  <2>6. CASE StepDrop
    BY <1>1, <2>6 DEF StepDrop, Fail
  <2>7. CASE StepLeave \/ StepJump
    BY <1>1, <2>7, DropsOwnerType DEF StepLeave, StepJump, Fail
  <2>8. CASE StepRet
    <3>1. AfterDrops(Cur.d) \in [Cells -> Vars \cup {Released, Lost}]
      BY DropsOwnerType
    <3> QED
      BY <1>1, <2>8, <3>1 DEF StepRet, Fail
  <2> QED
    BY <2>1, <2>2, <2>3, <2>4, <2>5, <2>6, <2>7, <2>8 DEF ExecStep
<1> QED
  BY <1>5, <1>6, <1>7
     DEF elabVars, TypeInv, TypeOK, ElabTypeOK, ExecTypeOK, LabelsKnown,
         ScopesNest, FrameKnown

-----------------------------------------------------------------------------
(* The theorem                                                              *)

LEMMA InitTypes == Init => TypeInv
<1> SUFFICES ASSUME Init PROVE TypeInv
  OBVIOUS
<1>1. ElabTypeOK
  <2>1. flag \in FlagMap
    BY DEF Init, ElabInit, FlagMap, Flag
  <2>2. stmts \in 0..MaxStmts
    BY ElabAssumption DEF Init, ElabInit
  <2> QED
    BY <2>1, <2>2, EmptySeq DEF Init, ElabInit, ElabTypeOK
<1>2. ExecTypeOK
  <2>1. owner \in [Cells -> Vars \cup {Released, Lost}]
    BY ElabAssumption DEF Init, ExecInit
  <2> QED
    BY <2>1 DEF Init, ExecInit, ExecTypeOK
<1>3. LabelsKnown /\ ScopesNest
  BY EmptySeq, LenProperties DEF Init, ElabInit, LabelsKnown, ScopesNest
<1> QED
  BY <1>1, <1>2, <1>3 DEF TypeInv, TypeOK

LEMMA NextTypes == TypeInv /\ [Next]_vars => TypeInv'
<1> SUFFICES ASSUME TypeInv, [Next]_vars PROVE TypeInv'
  OBVIOUS
<1>1. CASE ElabNext /\ UNCHANGED execVars
  <2>1. ASSUME NEW v \in Vars,
               LetNew(v) \/ LetLit(v) \/ AssignNew(v) \/ AssignLit(v)
        PROVE  TypeInv'
    BY <1>1, <2>1, SimpleStatementTypes
  <2>2. ASSUME NEW v \in Vars, NEW u \in Vars,
               LetMove(v, u) \/ LetAgain(v, u) \/ AssignMove(v, u)
        PROVE  TypeInv'
    BY <1>1, <2>2, SimpleStatementTypes
  <2>3. ASSUME NEW u \in Vars, UseVar(u) \/ Consume(u) \/ Discard(u)
        PROVE  TypeInv'
    BY <1>1, <2>3, SimpleStatementTypes
  <2>4. CASE OpenBlock \/ CloseBlock
    BY <1>1, <2>4, BlockTypes
  <2>5. CASE OpenIf \/ OpenLoop \/ OpenWhile \/ OpenArms
    BY <1>1, <2>5, OpenTypes
  <2>6. CASE Else \/ NextArm
    BY <1>1, <2>6, BranchTypes
  <2>7. CASE EndIf \/ EndLoop \/ EndArms
    BY <1>1, <2>7, EndTypes
  <2>8. CASE \E k \in 1..MaxDepth : Break(k) \/ Continue(k)
    BY <1>1, <2>8, LeaveTypes
  <2>9. CASE \/ Finish \/ (\E u \in Vars : UseMoved(u))
             \/ (\E u \in Vars \cup {NoVar} : Return(u))
    BY <1>1, <2>9, FinishTypes
  <2> QED
    BY <1>1, <2>1, <2>2, <2>3, <2>4, <2>5, <2>6, <2>7, <2>8, <2>9 DEF ElabNext
<1>2. CASE ExecStep /\ UNCHANGED elabVars
  BY <1>2, ExecTypes
<1>3. CASE UNCHANGED vars
  BY <1>3 DEF vars, elabVars, execVars, TypeInv, TypeOK, ElabTypeOK,
              ExecTypeOK, LabelsKnown, ScopesNest, FrameKnown
<1> QED
  BY <1>1, <1>2, <1>3 DEF Next

(* The labels that jumps and branches name exist, scopes nest like the        *)
(* constructs that opened them, and every variable keeps its type.           *)
THEOREM TypeInvariance == Spec => []TypeInv
<1>1. Init => TypeInv
  BY InitTypes
<1>2. TypeInv /\ [Next]_vars => TypeInv'
  BY NextTypes
<1> QED
  BY <1>1, <1>2, PTL DEF Spec

(* Type correctness of the compiler and of the machine.                      *)
THEOREM TypeCorrect == Spec => []TypeOK
<1>1. TypeInv => TypeOK
  BY DEF TypeInv
<1> QED
  BY <1>1, TypeInvariance, PTL

-----------------------------------------------------------------------------
(* Ownership states                                                         *)

LEMMA BelowReflexive ==
  ASSUME NEW f \in FlagMap
  PROVE  Below(f, f)
  BY DEF Below

(* compileIf's merge claims nothing that a branch does not grant.            *)
LEMMA MergeBelow ==
  ASSUME NEW f \in FlagMap, NEW g \in FlagMap
  PROVE  Below(f, Merge(f, g)) /\ Below(g, Merge(f, g))
  BY DEF Below, Merge, Worse, FlagMap, Flag

(* A state that claims less is still true of the heap.                       *)
LEMMA SoundBelow ==
  ASSUME NEW own, NEW e, NEW f, NEW g, SoundIn(own, e, f), Below(f, g)
  PROVE  SoundIn(own, e, g)
<1>1. ASSUME NEW v \in Vars
      PROVE  /\ g[v] \in {"own", "param"} => OwnsIn(own, e, v)
             /\ g[v] = "lent" => OwnsIn(own, e, v) \/ e[v] = Static
  BY <1>1 DEF SoundIn, Below
<1> QED
  BY <1>1 DEF SoundIn

(* What leaves scope at position k of the scope stack is dropped at most     *)
(* once, and only if it is owned.                                            *)
LEMMA DropsLegal ==
  ASSUME TypeInv, ScopeInv, NEW k \in Nat, k <= Len(order)
  PROVE  /\ LegalDrops(Drops(k), flag)
         /\ OutOf(Drops(k), flag) = Outside(flag, k)
<1> DEFINE n == Len(order)
           d == Drops(k)
<1>1. /\ n \in Nat /\ DOMAIN order = 1..n
      /\ \A i, j \in 1..n : order[i] = order[j] => i = j
      /\ flag \in FlagMap
  BY FrameTypes, LenProperties DEF TypeInv, TypeOK, ElabTypeOK, ScopeInv
<1>2. /\ d.own = Owned /\ DOMAIN d.vs = 1..(n - k)
      /\ \A i \in 1..(n - k) : d.vs[i] = order[n + 1 - i]
  BY DEF Drops, Leaving
<1>3. \A i \in DOMAIN d.vs : d.vs[i] \in d.own => flag[d.vs[i]] = "own"
  BY <1>2 DEF Owned
<1>4. \A i, j \in DOMAIN d.vs : d.vs[i] = d.vs[j] => i = j
  <2>1. ASSUME NEW i \in 1..(n - k), NEW j \in 1..(n - k), d.vs[i] = d.vs[j]
        PROVE  i = j
    <3>1. n + 1 - i \in 1..n /\ n + 1 - j \in 1..n
      BY <1>1
    <3>2. order[n + 1 - i] = order[n + 1 - j]
      BY <1>2, <2>1
    <3> QED
      BY <1>1, <3>1, <3>2
  <2> QED
    BY <1>2, <2>1
<1>5. \A v \in Vars : (\E i \in DOMAIN d.vs : d.vs[i] = v) <=> v \in LeavingSet(k)
  <2>1. ASSUME NEW i \in 1..(n - k) PROVE d.vs[i] \in LeavingSet(k)
    <3>1. n + 1 - i \in (k + 1)..n
      BY <1>1
    <3> QED
      BY <1>2, <3>1 DEF LeavingSet
  <2>2. ASSUME NEW m \in (k + 1)..n
        PROVE  n + 1 - m \in 1..(n - k) /\ d.vs[n + 1 - m] = order[m]
    <3>1. n + 1 - m \in 1..(n - k) /\ n + 1 - (n + 1 - m) = m
      BY <1>1
    <3> QED
      BY <1>2, <3>1
  <2>3. ASSUME NEW v \in LeavingSet(k) PROVE \E i \in 1..(n - k) : d.vs[i] = v
    <3>1. PICK m \in (k + 1)..n : v = order[m]
      BY DEF LeavingSet
    <3> QED
      BY <2>2, <3>1
  <2> QED
    BY <1>2, <2>1, <2>3
<1>6. LegalDrops(d, flag)
  BY <1>3, <1>4 DEF LegalDrops
<1>7. OutOf(d, flag) = Outside(flag, k)
  BY <1>5 DEF OutOf, Outside
<1> QED
  BY <1>6, <1>7

(* The variables that stay in scope stay known.                              *)
LEMMA OutsideInScope ==
  ASSUME TypeInv, ScopeInv, NEW k \in Nat, k <= Len(order)
  PROVE  \A i \in 1..k : Outside(flag, k)[order[i]] # "out"
<1>1. ASSUME NEW i \in 1..k PROVE Outside(flag, k)[order[i]] # "out"
  <2>1. /\ Len(order) \in Nat /\ i \in 1..Len(order) /\ order[i] \in Vars
    BY FrameTypes, ElementOfSeq, LenProperties DEF TypeInv, TypeOK, ElabTypeOK
  <2>2. flag[order[i]] # "out"
    BY <2>1 DEF ScopeInv, InScope
  <2>3. ASSUME NEW j \in (k + 1)..Len(order) PROVE order[j] # order[i]
    <3>1. j \in DOMAIN order /\ i \in DOMAIN order /\ i # j
      BY <2>1, LenProperties DEF TypeInv, TypeOK, ElabTypeOK
    <3> QED
      BY <3>1 DEF ScopeInv
  <2>4. order[i] \notin LeavingSet(k)
    BY <2>3 DEF LeavingSet
  <2> QED
    BY <2>1, <2>2, <2>4 DEF Outside
<1> QED
  BY <1>1

-----------------------------------------------------------------------------
(* What emission does to the code and the recorded states                   *)

(* The state in front of an instruction does not change once it is emitted.  *)
LEMMA StateAtEmit ==
  ASSUME TypeInv, CodeInv, NEW i \in Inst, Emit(i)
  PROVE  /\ Len(code') = Len(code) + 1 /\ Len(ann') = Len(code')
         /\ Len(code) \in Nat /\ DOMAIN code = 1..Len(code)
         /\ DOMAIN code' = 1..(Len(code) + 1)
         /\ code'[Len(code) + 1] = i /\ ann'[Len(code) + 1] = flag
         /\ \A j \in 1..Len(code) : code'[j] = code[j] /\ ann'[j] = ann[j]
         /\ \A j \in 1..(Len(code) + 1) : ann'[j] = StateAt(j)
         /\ \A j \in Nat : j <= Len(code) + 1 => StateAt(j)' = ann'[j]
<1>1. /\ code \in Seq(Inst) /\ ann \in Seq(FlagMap) /\ flag \in FlagMap
      /\ Len(ann) = Len(code) /\ Len(code) \in Nat /\ DOMAIN code = 1..Len(code)
  BY LenProperties DEF TypeInv, TypeOK, ElabTypeOK, CodeInv
<1>2. /\ Len(code') = Len(code) + 1 /\ DOMAIN code' = 1..(Len(code) + 1)
      /\ code'[Len(code) + 1] = i
      /\ \A j \in 1..Len(code) : code'[j] = code[j]
  BY <1>1, AppendLemma DEF Emit
<1>3. /\ Len(ann') = Len(code) + 1 /\ ann'[Len(code) + 1] = flag
      /\ \A j \in 1..Len(code) : ann'[j] = ann[j]
  BY <1>1, AppendLemma DEF Emit
<1>4. \A j \in 1..(Len(code) + 1) : ann'[j] = StateAt(j)
  BY <1>1, <1>3 DEF StateAt
<1>5. \A j \in Nat : j <= Len(code) + 1 => StateAt(j)' = ann'[j]
  BY <1>1, <1>2 DEF StateAt
<1> QED
  BY <1>1, <1>2, <1>3, <1>4, <1>5

(* One instruction is emitted that is legal in the current state, and the    *)
(* state it leaves behind is what the compiler goes on with.                 *)
LEMMA CodeEmit ==
  ASSUME TypeInv, CodeInv, NEW i \in Inst, Emit(i), Legal(i, flag),
         term = "open",
         \A l \in DOMAIN at : into[l] \subseteq into'[l],
         i.op \notin {"jmp", "ret"} =>
           /\ phase' # "ready" /\ term' = "open" /\ Below(Post(i, flag), flag'),
         i.op \in {"jmp", "br"} => Post(i, flag) \in into'[i.to],
         phase' = "ready" => term' # "open" /\ ctl' = <<>>
  PROVE  CodeInv'
<1>0. PICK n \in Nat : n = Len(code)
  BY StateAtEmit
<1>1. /\ Len(code') = n + 1 /\ Len(ann') = Len(code') /\ n \in Nat
      /\ DOMAIN code = 1..n /\ DOMAIN code' = 1..(n + 1)
      /\ code'[n + 1] = i /\ ann'[n + 1] = flag
      /\ \A j \in 1..n : code'[j] = code[j] /\ ann'[j] = ann[j]
      /\ \A j \in 1..(n + 1) : ann'[j] = StateAt(j)
      /\ \A j \in Nat : j <= n + 1 => StateAt(j)' = ann'[j]
  BY <1>0, StateAtEmit
<1>2. StateAt(1)' = StartFlag
  BY <1>1 DEF CodeInv
<1>3. ASSUME NEW j \in 1..n PROVE InstOK(j)'
  <2>1. InstOK(j) /\ j \in DOMAIN code /\ code'[j] = code[j] /\ ann'[j] = ann[j]
    BY <1>1 DEF CodeInv
  <2>2. Legal(code[j], ann[j])'
    BY <2>1 DEF InstOK, Legal, LegalDrops
  <2>3. code[j].op \notin {"jmp", "ret"} => FallsTo(j)'
    <3>1. j + 1 \in 1..(n + 1) /\ j < n + 1
      BY <1>1
    <3>2. StateAt(j + 1)' = StateAt(j + 1)
      BY <1>1, <3>1
    <3>3. Post(code[j], ann[j])' = Post(code[j], ann[j])
      BY <2>1 DEF Post, OutOf
    <3> QED
      BY <1>1, <2>1, <3>1, <3>2, <3>3 DEF InstOK, FallsTo, Below
  <2>4. code[j].op \in {"jmp", "br"} => JumpsTo(j)'
    <3>1. Post(code[j], ann[j])' = Post(code[j], ann[j])
      BY <2>1 DEF Post, OutOf
    <3>2. code[j].op \in {"jmp", "br"} => code[j].to \in DOMAIN at
      BY <2>1 DEF TypeInv, LabelsKnown
    <3> QED
      BY <2>1, <3>1, <3>2 DEF InstOK, JumpsTo
  <2> QED
    BY <2>1, <2>2, <2>3, <2>4 DEF InstOK
<1>4. InstOK(n + 1)'
  <2>0. /\ n + 1 \in 1..(n + 1) /\ n + 1 + 1 \in Nat
        /\ ~(n + 1 + 1 <= Len(code'))
    BY <1>1
  <2>1. Legal(code[n + 1], ann[n + 1])'
    BY <1>1 DEF Legal, LegalDrops
  <2>2. i.op \notin {"jmp", "ret"} => FallsTo(n + 1)'
    <3>1. StateAt(n + 1 + 1)' = flag'
      BY <2>0 DEF StateAt
    <3>2. Post(code[n + 1], ann[n + 1])' = Post(i, flag)
      BY <1>1 DEF Post, OutOf
    <3> QED
      BY <3>1, <3>2 DEF FallsTo, Below
  <2>3. i.op \in {"jmp", "br"} => JumpsTo(n + 1)'
    <3>1. Post(code[n + 1], ann[n + 1])' = Post(i, flag)
      BY <1>1 DEF Post, OutOf
    <3> QED
      BY <1>1, <3>1 DEF JumpsTo
  <2> QED
    BY <1>1, <2>1, <2>2, <2>3 DEF InstOK
<1>5. (\A j \in DOMAIN code : InstOK(j))'
  BY <1>1, <1>3, <1>4
<1> QED
  BY <1>1, <1>2, <1>5 DEF CodeInv

(* Nothing is emitted: the compiler's state may only change behind a         *)
(* terminator.                                                               *)
LEMMA CodeStay ==
  ASSUME TypeInv, CodeInv, UNCHANGED <<code, ann>>,
         \/ term # "open"
         \/ flag' = flag /\ term' = "open" /\ phase' # "ready",
         \A l \in DOMAIN at : into[l] \subseteq into'[l],
         term' # "open" => term # "open",
         phase' = "ready" => term' # "open" /\ ctl' = <<>>
  PROVE  CodeInv'
<1>1. /\ Len(ann) = Len(code) /\ Len(code) \in Nat /\ DOMAIN code = 1..Len(code)
      /\ term # "open" => Len(code) > 0 /\ code[Len(code)].op \in {"jmp", "ret"}
  BY LenProperties DEF CodeInv, TypeInv, TypeOK, ElabTypeOK
<1>2. \A j \in Nat : j <= Len(code) => StateAt(j)' = StateAt(j)
  BY DEF StateAt
<1>3. StateAt(1)' = StartFlag
  <2>1. CASE Len(code) > 0
    BY <1>1, <1>2, <2>1 DEF CodeInv
  <2>2. CASE Len(code) = 0
    BY <1>1, <2>2 DEF CodeInv, StateAt
  <2> QED
    BY <1>1, <2>1, <2>2
<1>4. ASSUME NEW j \in DOMAIN code PROVE InstOK(j)'
  <2>1. InstOK(j) /\ code'[j] = code[j] /\ ann'[j] = ann[j]
    BY DEF CodeInv
  <2>2. Post(code[j], ann[j])' = Post(code[j], ann[j])
    BY <2>1 DEF Post, OutOf
  <2>3. Legal(code[j], ann[j])'
    BY <2>1 DEF InstOK, Legal, LegalDrops
  <2>4. code[j].op \in {"jmp", "br"} => JumpsTo(j)'
    <3>1. code[j].op \in {"jmp", "br"} => code[j].to \in DOMAIN at
      BY DEF TypeInv, LabelsKnown
    <3> QED
      BY <2>1, <2>2, <3>1 DEF InstOK, JumpsTo
  <2>5. code[j].op \notin {"jmp", "ret"} => FallsTo(j)'
    <3> SUFFICES ASSUME code[j].op \notin {"jmp", "ret"} PROVE FallsTo(j)'
      OBVIOUS
    <3>1. FallsTo(j) /\ j \in 1..Len(code)
      BY <1>1, <2>1 DEF InstOK
    <3>2. CASE j < Len(code)
      <4>1. j + 1 \in Nat /\ j + 1 <= Len(code)
        BY <1>1, <3>1, <3>2
      <4>2. StateAt(j + 1)' = StateAt(j + 1)
        BY <1>2, <4>1
      <4> QED
        BY <2>2, <3>1, <3>2, <4>2 DEF FallsTo, Below
    <3>3. CASE j = Len(code)
      <4>1. term = "open"
        BY <1>1, <3>1, <3>3
      <4>2. flag' = flag /\ term' = "open" /\ phase' # "ready"
        BY <4>1
      <4>3. StateAt(j + 1)' = StateAt(j + 1)
        BY <4>2 DEF StateAt
      <4> QED
        BY <2>2, <3>1, <4>2, <4>3 DEF FallsTo, Below
    <3> QED
      BY <1>1, <3>1, <3>2, <3>3
  <2> QED
    BY <2>1, <2>3, <2>4, <2>5 DEF InstOK
<1> QED
  BY <1>1, <1>3, <1>4 DEF CodeInv

(* The drops of a scope end in a jump: what follows the jump is what leaves   *)
(* the scope behind.                                                         *)
LEMMA JumpLegal ==
  ASSUME TypeInv, ScopeInv, NEW k \in Nat, k <= Len(order), NEW l \in DOMAIN at
  PROVE  /\ Jump(l, Drops(k)) \in Inst
         /\ Jump(l, Drops(k)).op = "jmp" /\ Jump(l, Drops(k)).to = l
         /\ Legal(Jump(l, Drops(k)), flag)
         /\ Post(Jump(l, Drops(k)), flag) = Outside(flag, k)
<1>1. l \in Nat /\ Drops(k) \in DropList
  BY DropsType, LenProperties DEF TypeInv, TypeOK, ElabTypeOK
<1>2. /\ Jump(l, Drops(k)) \in Inst
      /\ Jump(l, Drops(k)).op = "jmp" /\ Jump(l, Drops(k)).to = l
      /\ Jump(l, Drops(k)).d = Drops(k)
  BY <1>1 DEF Jump, Inst
<1>3. /\ LegalDrops(Drops(k), flag)
      /\ OutOf(Drops(k), flag) = Outside(flag, k)
  BY DropsLegal
<1> QED
  BY <1>2, <1>3 DEF Legal, Post

(* The end of a block that a label follows.                                  *)
LEMMA CodeFall ==
  ASSUME TypeInv, CodeInv, ScopeInv, NEW l \in DOMAIN at, NEW k \in Nat,
         k <= Len(order), FallInto(l, k), phase' = "compile", term' = "open",
         \A m \in DOMAIN at : into[m] \subseteq into'[m],
         FallEdge(k) \subseteq into'[l]
  PROVE  CodeInv'
<1>1. CASE term = "open"
  <2>1. PICK i \in Inst : i = Jump(l, Drops(k))
    BY JumpLegal
  <2>2. /\ i.op = "jmp" /\ i.to = l /\ Legal(i, flag)
        /\ Post(i, flag) = Outside(flag, k)
    BY <2>1, JumpLegal
  <2>3. Emit(i)
    BY <1>1, <2>1 DEF FallInto
  <2>4. Outside(flag, k) \in into'[l]
    BY <1>1 DEF FallEdge
  <2> QED
    BY <1>1, <2>2, <2>3, <2>4, CodeEmit
<1>2. CASE term # "open"
  BY <1>2, CodeStay DEF FallInto
<1> QED
  BY <1>1, <1>2

(* The labels placed so far keep their states, and their places lie in the   *)
(* code.                                                                     *)
LEMMA FallKeeps ==
  ASSUME TypeInv, CodeInv, LabelInv, ScopeInv, NEW l \in DOMAIN at,
         NEW k \in Nat, k <= Len(order), FallInto(l, k)
  PROVE  \A m \in DOMAIN at :
           /\ at[m] <= Len(code')
           /\ \A n \in Nat : at[m] = n /\ n # 0 => StateAt(n)' = StateAt(n)
<1>1. /\ Len(code) \in Nat /\ \A m \in DOMAIN at : at[m] \in Nat
  BY ElementOfSeq, LenProperties DEF TypeInv, TypeOK, ElabTypeOK
<1>2. CASE term = "open"
  <2>1. PICK i \in Inst : Emit(i)
    BY <1>2, JumpLegal DEF FallInto
  <2>2. /\ Len(code') = Len(code) + 1
        /\ \A j \in Nat : j <= Len(code) + 1 => StateAt(j)' = ann'[j]
        /\ \A j \in 1..(Len(code) + 1) : ann'[j] = StateAt(j)
    BY <2>1, StateAtEmit
  <2> QED
    BY <1>1, <2>2 DEF LabelInv
<1>3. CASE term # "open"
  <2>1. UNCHANGED <<code, ann>>
    BY <1>3 DEF FallInto
  <2>2. \A m \in DOMAIN at : at[m] <= Len(code)
    BY <1>1, <1>3 DEF LabelInv
  <2>3. \A n \in Nat : n <= Len(code) => StateAt(n)' = StateAt(n)
    BY <2>1 DEF StateAt
  <2> QED
    BY <1>1, <2>1, <2>2, <2>3
<1> QED
  BY <1>2, <1>3

-----------------------------------------------------------------------------
(* The scope stack                                                          *)

(* At most one variable is declared, and none leaves scope.                  *)
LEMMA ScopeKept ==
  ASSUME TypeInv, ScopeInv, TypeInv', UNCHANGED ctl,
         \/ order' = order
         \/ \E v \in Vars : /\ flag[v] = "out" /\ flag'[v] # "out"
                            /\ order' = Append(order, v),
         \A u \in Vars : flag[u] # "out" => flag'[u] # "out"
  PROVE  ScopeInv'
<1>1. /\ order \in Seq(Vars) /\ Len(order) \in Nat
      /\ DOMAIN order = 1..Len(order)
      /\ \A i \in 1..Len(order) : order[i] \in Vars /\ flag[order[i]] # "out"
      /\ \A i, j \in 1..Len(order) : order[i] = order[j] => i = j
  BY ElementOfSeq, LenProperties
     DEF TypeInv, TypeOK, ElabTypeOK, ScopeInv, InScope
<1>2. \A k \in DOMAIN ctl :
        /\ ctl[k].mark \in Nat /\ ctl[k].mark <= Len(order)
        /\ \A i \in 1..ctl[k].mark : /\ ctl[k].base[order[i]] # "out"
                                     /\ ctl[k].save[order[i]] # "out"
  BY FrameTypes DEF TypeInv, ScopesNest, ScopeInv, InScope
<1>3. CASE order' = order
  BY <1>1, <1>2, <1>3 DEF ScopeInv, InScope
<1>4. CASE order' # order
  <2>1. PICK v \in Vars : /\ flag[v] = "out" /\ flag'[v] # "out"
                          /\ order' = Append(order, v)
    BY <1>4
  <2>2. /\ DOMAIN order' = 1..(Len(order) + 1) /\ Len(order') = Len(order) + 1
        /\ order'[Len(order) + 1] = v
        /\ \A i \in 1..Len(order) : order'[i] = order[i]
    <3>1. order \in Seq(Vars)
      BY <1>1
    <3> QED
      BY <2>1, <3>1, AppendLemma
  <2>3. \A i, j \in DOMAIN order' : order'[i] = order'[j] => i = j
    <3>1. ASSUME NEW i \in 1..Len(order) PROVE order'[i] # v
      <4>1. order'[i] = order[i]
        BY <2>2
      <4>2. flag[order[i]] # "out"
        BY <1>1
      <4> QED
        BY <2>1, <4>1, <4>2
    <3> QED
      BY <1>1, <2>2, <3>1
  <2>4. ASSUME NEW i \in 1..Len(order') PROVE flag'[order'[i]] # "out"
    <3>1. CASE i = Len(order) + 1
      BY <2>1, <2>2, <3>1
    <3>2. CASE i \in 1..Len(order)
      BY <1>1, <2>2, <3>2
    <3> QED
      BY <1>1, <2>2, <3>1, <3>2
  <2>5. \A k \in DOMAIN ctl :
          \A i \in 1..ctl[k].mark : /\ ctl[k].base[order'[i]] # "out"
                                   /\ ctl[k].save[order'[i]] # "out"
    <3>1. ASSUME NEW k \in DOMAIN ctl, NEW i \in 1..ctl[k].mark
          PROVE  order'[i] = order[i]
      <4>1. i \in 1..Len(order)
        BY <1>1, <1>2
      <4> QED
        BY <2>2, <4>1
    <3> QED
      BY <1>2, <3>1
  <2> QED
    BY <2>3, <2>4, <2>5 DEF ScopeInv, InScope
<1> QED
  BY <1>3, <1>4

(* A construct is opened.                                                    *)
LEMMA ScopePush ==
  ASSUME TypeInv, ScopeInv, UNCHANGED <<order, flag>>, NEW F \in FrameSet,
         F.mark = Len(order), F.base = flag, F.save = flag,
         ctl' = Append(ctl, F)
  PROVE  ScopeInv'
<1>1. /\ DOMAIN ctl' = 1..(Len(ctl) + 1) /\ DOMAIN ctl = 1..Len(ctl)
      /\ ctl'[Len(ctl) + 1] = F
      /\ \A k \in 1..Len(ctl) : ctl'[k] = ctl[k]
  BY AppendLemma, FrameTypes DEF TypeInv, TypeOK, ElabTypeOK
<1>2. \A k \in DOMAIN ctl' : /\ InScope(ctl'[k].base, ctl'[k].mark)
                             /\ InScope(ctl'[k].save, ctl'[k].mark)
  BY <1>1 DEF ScopeInv
<1> QED
  BY <1>2 DEF ScopeInv, InScope

(* The innermost construct is closed or switches to its second branch: the    *)
(* scope stack is cut back to where it began.                                *)
LEMMA ScopeCut ==
  ASSUME TypeInv, ScopeInv, ctl # <<>>, CutScope,
         \A k \in DOMAIN ctl' : k \in DOMAIN ctl,
         \A k \in DOMAIN ctl' : ctl'[k].mark = ctl[k].mark,
         \A k \in DOMAIN ctl' : k # Len(ctl) => Rebased(ctl[k], ctl'[k]),
         \A i \in 1..Top.mark : flag'[order[i]] # "out",
         Len(ctl) \in DOMAIN ctl' => 
           \A i \in 1..Top.mark : /\ ctl'[Len(ctl)].base[order[i]] # "out"
                                 /\ ctl'[Len(ctl)].save[order[i]] # "out"
  PROVE  ScopeInv'
<1>1. /\ order \in Seq(Vars) /\ Len(order) \in Nat
      /\ DOMAIN order = 1..Len(order)
      /\ \A i, j \in 1..Len(order) : order[i] = order[j] => i = j
      /\ Top.mark \in Nat /\ Top.mark <= Len(order)
  BY PopTypes, LenProperties DEF TypeInv, TypeOK, ElabTypeOK, ScopeInv
<1>2. /\ DOMAIN order' = 1..Top.mark /\ Len(order') = Top.mark
      /\ \A i \in 1..Top.mark : order'[i] = order[i] /\ i \in 1..Len(order)
  BY <1>1, CutLemma DEF CutScope
<1>3. \A i, j \in DOMAIN order' : order'[i] = order'[j] => i = j
  BY <1>1, <1>2
<1>4. \A i \in 1..Len(order') : flag'[order'[i]] # "out"
  BY <1>2
<1>5. \A k \in DOMAIN ctl : ctl[k].mark \in Nat /\ ctl[k].mark <= Top.mark
  BY PopTypes, FrameTypes DEF TypeInv, ScopesNest, Top
<1>6. ASSUME NEW k \in DOMAIN ctl', NEW i \in 1..ctl'[k].mark
      PROVE  /\ ctl'[k].base[order'[i]] # "out"
             /\ ctl'[k].save[order'[i]] # "out"
  <2>1. k \in DOMAIN ctl /\ ctl'[k].mark = ctl[k].mark /\ i \in 1..ctl[k].mark
    OBVIOUS
  <2>2. i \in 1..Top.mark /\ order'[i] = order[i]
    BY <1>1, <1>2, <1>5, <2>1
  <2>3. CASE k = Len(ctl)
    BY <2>2, <2>3
  <2>4. CASE k # Len(ctl)
    <3>1. Rebased(ctl[k], ctl'[k])
      BY <2>4
    <3>2. ctl[k].base[order[i]] # "out" /\ ctl[k].save[order[i]] # "out"
      BY <2>1 DEF ScopeInv, InScope
    <3>3. ctl[k].mark \in Nat /\ ctl[k].mark <= Len(order)
      BY <1>1, <1>5, <2>1
    <3>4. Outside(flag, ctl[k].mark)[order[i]] # "out"
      BY <2>1, <3>3, OutsideInScope
    <3> QED
      BY <2>2, <3>1, <3>2, <3>4 DEF Rebased
  <2> QED
    BY <2>3, <2>4
<1> QED
  BY <1>3, <1>4, <1>6 DEF ScopeInv, InScope

-----------------------------------------------------------------------------
(* Labels and open constructs                                               *)

\* The labels placed so far keep their places and their states.
Keeps ==
  \A m \in DOMAIN at : \A n \in Nat : at[m] = n =>
    /\ n <= Len(code') + 1
    /\ n = Len(code') + 1 => term' = "open"
    /\ n # 0 => StateAt(n)' = StateAt(n)

LEMMA LabelsStay ==
  ASSUME TypeInv, LabelInv, Keeps, at' = at,
         \A m \in DOMAIN at : at[m] # 0 =>
           \A f \in into'[m] : f \in into[m] \/ Below(f, StateAt(at[m])),
         \A m \in DOMAIN at, k \in DOMAIN ctl : m \in Labels(ctl[k]) =>
           \E j \in DOMAIN ctl' : m \in Labels(ctl'[j])
  PROVE  LabelInv'
<1>1. ASSUME NEW m \in DOMAIN at
      PROVE  /\ at[m] <= Len(code') + 1
             /\ at[m] = Len(code') + 1 => term' = "open"
             /\ at[m] # 0 => \A f \in into'[m] : Below(f, StateAt(at[m])')
             /\ at[m] = 0 => \E k \in DOMAIN ctl' : m \in Labels(ctl'[k])
  <2>1. PICK n \in Nat : at[m] = n
    BY ElementOfSeq, LenProperties DEF TypeInv, TypeOK, ElabTypeOK
  <2>2. /\ n <= Len(code') + 1
        /\ n = Len(code') + 1 => term' = "open"
        /\ n # 0 => StateAt(n)' = StateAt(n)
    BY <2>1 DEF Keeps
  <2>3. at[m] = 0 => \E k \in DOMAIN ctl' : m \in Labels(ctl'[k])
    BY DEF LabelInv
  <2>4. ASSUME n # 0, NEW f \in into'[m] PROVE Below(f, StateAt(n)')
    <3>1. Below(f, StateAt(n))
      BY <2>1, <2>4 DEF LabelInv
    <3> QED
      BY <2>2, <2>4, <3>1
  <2>5. StateAt(at[m])' = StateAt(n)'
    BY <2>1 DEF StateAt
  <2> QED
    BY <2>1, <2>2, <2>3, <2>4, <2>5
<1> QED
  BY <1>1 DEF LabelInv, Labels, Branching

LEMMA FrameKept ==
  ASSUME TypeInv, Keeps, NEW F, FrameOK(F), FrameKnown(F),
         F.kind # "block" => at'[F.exit] = at[F.exit],
         F.kind \in {"then", "else"} => into'[F.exit] = into[F.exit],
         Branching(F) => /\ at'[F.next] = at[F.next]
                         /\ into'[F.next] = into[F.next],
         F.kind = "loop" => at'[F.head] = at[F.head]
  PROVE  FrameOK(F)'
<1>1. F.kind = "loop" => /\ at'[F.head] # 0
                         /\ StateAt(at[F.head])' = F.base
  <2> SUFFICES ASSUME F.kind = "loop"
               PROVE  at'[F.head] # 0 /\ StateAt(at[F.head])' = F.base
    OBVIOUS
  <2>1. PICK n \in Nat : at[F.head] = n /\ F.head \in DOMAIN at
    BY ElementOfSeq, LenProperties
       DEF TypeInv, TypeOK, ElabTypeOK, FrameKnown
  <2>2. n # 0 /\ StateAt(n) = F.base /\ at'[F.head] = n
    BY <2>1 DEF FrameOK
  <2>3. StateAt(n)' = F.base
    BY <2>1, <2>2 DEF Keeps
  <2>4. StateAt(at[F.head])' = StateAt(n)'
    BY <2>2 DEF StateAt
  <2> QED
    BY <2>2, <2>3, <2>4
<1>2. F.kind # "block" => at'[F.exit] = 0
  BY DEF FrameOK
<1>3. F.kind \in {"then", "else"} =>
        into'[F.exit] \subseteq IF F.kind = "else" /\ ~F.ret THEN {F.save} ELSE {}
  BY DEF FrameOK
<1>4. Branching(F) => /\ F.next # F.exit /\ at'[F.next] = 0
                      /\ into'[F.next] = {F.base}
  BY DEF FrameOK
<1>5. F.live => F.kind = "else"
  BY DEF FrameOK
<1> QED
  BY <1>1, <1>2, <1>3, <1>4, <1>5 DEF FrameOK, Branching

(* A snapshot that is taken over is no concern of FrameOK: only the second   *)
(* branch of an if has one that is in use.                                   *)
LEMMA RebasedOK ==
  ASSUME NEW F, NEW G, Rebased(F, G), FrameOK(F)'
  PROVE  FrameOK(G)' /\ Labels(G) = Labels(F)
<1>1. /\ G.kind = F.kind /\ G.head = F.head /\ G.next = F.next
      /\ G.exit = F.exit /\ G.save = F.save /\ G.ret = F.ret
      /\ G.live => F.live
      /\ G.base = F.base \/ F.live
  BY DEF Rebased
<1>2. F.live => F.kind = "else"
  BY DEF FrameOK
<1>3. Labels(G) = Labels(F)
  BY <1>1 DEF Labels, Branching
<1>4. G.base = F.base \/ F.kind = "else"
  BY <1>1, <1>2
<1> QED
  BY <1>1, <1>2, <1>3, <1>4 DEF FrameOK, Branching

LEMMA FramesStay ==
  ASSUME TypeInv, TypeInv', FrameInv, Keeps, at' = at,
         \A k \in DOMAIN ctl' : \/ k \in DOMAIN ctl /\ ctl'[k] = ctl[k]
                                \/ ctl'[k].kind = "block" /\ ~ctl'[k].live,
         \A m \in DOMAIN at :
           \/ into'[m] = into[m] \/ at[m] # 0
           \/ \E k \in DOMAIN ctl : ctl[k].kind = "loop" /\ m = ctl[k].exit
  PROVE  FrameInv'
<1>1. ASSUME NEW k \in DOMAIN ctl, NEW F, F = ctl[k], F.kind # "block"
      PROVE  FrameOK(F)'
  <2>1. FrameOK(F) /\ FrameKnown(F)
    BY <1>1 DEF FrameInv, TypeInv, LabelsKnown
  <2>2. F.kind \in {"then", "else"} => into'[F.exit] = into[F.exit]
    <3> SUFFICES ASSUME F.kind \in {"then", "else"}
                 PROVE  into'[F.exit] = into[F.exit]
      OBVIOUS
    <3>1. F.exit \in DOMAIN at /\ at[F.exit] = 0 /\ F.exit \in Labels(F)
      BY <2>1 DEF FrameOK, FrameKnown, Labels
    <3>2. \A j \in DOMAIN ctl : ctl[j].kind = "loop" => F.exit # ctl[j].exit
      <4>1. ASSUME NEW j \in DOMAIN ctl, ctl[j].kind = "loop", F.exit = ctl[j].exit
            PROVE  FALSE
        <5>1. j # k /\ F.exit \in Labels(ctl[j])
          BY <1>1, <4>1 DEF Labels
        <5> QED
          BY <1>1, <3>1, <5>1 DEF FrameInv
      <4> QED
        BY <4>1
    <3> QED
      BY <3>1, <3>2
  <2>3. Branching(F) => into'[F.next] = into[F.next]
    <3> SUFFICES ASSUME Branching(F) PROVE into'[F.next] = into[F.next]
      OBVIOUS
    <3>1. F.next \in DOMAIN at /\ at[F.next] = 0 /\ F.next \in Labels(F)
      BY <2>1 DEF FrameOK, FrameKnown, Labels, Branching
    <3>2. \A j \in DOMAIN ctl : ctl[j].kind = "loop" => F.next # ctl[j].exit
      <4>1. ASSUME NEW j \in DOMAIN ctl, ctl[j].kind = "loop", F.next = ctl[j].exit
            PROVE  FALSE
        <5>1. j # k /\ F.next \in Labels(ctl[j])
          BY <1>1, <4>1 DEF Labels, Branching
        <5> QED
          BY <1>1, <3>1, <5>1 DEF FrameInv
      <4> QED
        BY <4>1
    <3> QED
      BY <3>1, <3>2
  <2> QED
    BY <2>1, <2>2, <2>3, FrameKept
<1>2. ASSUME NEW F, F.kind = "block" PROVE Labels(F) = {}
  BY <1>2 DEF Labels, Branching
<1>3. ASSUME NEW k \in DOMAIN ctl', NEW F, F = ctl'[k] PROVE FrameOK(F)'
  <2>1. CASE F.kind # "block"
    BY <1>1, <1>3, <2>1
  <2>2. CASE F.kind = "block"
    <3>1. ~F.live
      BY <1>3, <2>2 DEF FrameInv, FrameOK
    <3> QED
      BY <2>2, <3>1 DEF FrameOK, Branching
  <2> QED
    BY <2>1, <2>2
<1>4. (\A k \in DOMAIN ctl : FrameOK(ctl[k]))'
  BY <1>3
<1>5. \A j, k \in DOMAIN ctl' :
        j # k => Labels(ctl'[j]) \cap Labels(ctl'[k]) = {}
  BY <1>2 DEF FrameInv
<1> QED
  BY <1>4, <1>5 DEF FrameInv, Labels, Branching

LEMMA EmitKeeps ==
  ASSUME TypeInv, CodeInv, LabelInv, NEW i \in Inst, Emit(i)
  PROVE  Keeps
<1>1. /\ Len(code) \in Nat /\ Len(code') = Len(code) + 1
      /\ \A j \in 1..(Len(code) + 1) : ann'[j] = StateAt(j)
      /\ \A j \in Nat : j <= Len(code) + 1 => StateAt(j)' = ann'[j]
  BY StateAtEmit
<1>2. \A m \in DOMAIN at : at[m] <= Len(code) + 1
  BY DEF LabelInv
<1> QED
  BY <1>1, <1>2 DEF Keeps

-----------------------------------------------------------------------------
(* Simple statements keep the compiler's invariant                          *)

LEMMA StatementInv ==
  ASSUME TypeInv, TypeInv', CompilerInv, NEW i \in Inst, Emit(i),
         i.op \notin {"jmp", "br", "ret"}, Legal(i, flag),
         Below(Post(i, flag), flag'), term = "open", phase = "compile",
         UNCHANGED <<phase, ctl, term, at, into>>,
         \/ order' = order
         \/ \E v \in Vars : /\ flag[v] = "out" /\ flag'[v] # "out"
                            /\ order' = Append(order, v),
         \A u \in Vars : flag[u] # "out" => flag'[u] # "out"
  PROVE  CompilerInv'
<1>1. CodeInv'
  BY CodeEmit DEF CompilerInv
<1>2. ScopeInv'
  BY ScopeKept DEF CompilerInv
<1>3. Keeps
  BY EmitKeeps DEF CompilerInv
<1>4. LabelInv'
  BY <1>3, LabelsStay DEF CompilerInv
<1>5. FrameInv'
  BY <1>3, FramesStay DEF CompilerInv
<1> QED
  BY <1>1, <1>2, <1>4, <1>5 DEF CompilerInv

(* What the instructions of the simple statements need and leave behind.     *)
LEMMA StoreLegal ==
  ASSUME NEW v \in Vars, NEW old \in BOOLEAN, NEW f \in FlagMap
  PROVE  /\ (old => f[v] = "own") =>
              Legal(New(v, old), f) /\ Legal(Lit(v, old), f)
         /\ Post(New(v, old), f) = [f EXCEPT ![v] = "own"]
         /\ Post(Lit(v, old), f) = [f EXCEPT ![v] = "lent"]
  BY DEF Legal, Post, New, Lit

LEMMA MoveLegal ==
  ASSUME NEW v \in Vars, NEW u \in Vars, NEW old \in BOOLEAN, NEW f \in FlagMap
  PROVE  /\ (/\ f[u] \in {"own", "param", "lent"}
             /\ old => v # u /\ f[v] = "own") => Legal(Mov(v, u, old), f)
         /\ Post(Mov(v, u, old), f) =
              [f EXCEPT ![u] = "moved",
                        ![v] = IF f[u] = "lent" THEN "lent" ELSE "own"]
  BY DEF Legal, Post, Mov

LEMMA UseLegal ==
  ASSUME NEW u \in Vars, NEW f \in FlagMap
  PROVE  /\ f[u] \in {"own", "param", "lent"} =>
              Legal(Borrow(u), f) /\ Legal(Give(u), f)
         /\ f[u] \in {"own", "param"} => Legal(DropOne(u), f)
         /\ Post(Borrow(u), f) = f
         /\ Post(Give(u), f) = [f EXCEPT ![u] = "moved"]
         /\ Post(DropOne(u), f) = [f EXCEPT ![u] = "moved"]
  BY DEF Legal, Post, Borrow, Give, DropOne

LEMMA SimpleStatementInv ==
  ASSUME TypeInv, TypeInv', CompilerInv, NEW v \in Vars, NEW u \in Vars,
         \/ LetNew(v) \/ LetLit(v) \/ LetMove(v, u)
         \/ AssignNew(v) \/ AssignLit(v) \/ AssignMove(v, u)
         \/ UseVar(u) \/ Consume(u) \/ Discard(u)
  PROVE  CompilerInv'
<1>1. /\ flag \in FlagMap /\ phase = "compile" /\ term = "open"
      /\ UNCHANGED <<phase, ctl, term, at, into>>
  BY DEF TypeInv, TypeOK, ElabTypeOK, LetNew, LetLit, LetMove, AssignNew,
         AssignLit, AssignMove, UseVar, Consume, Discard, Stmt
<1>2. \A w \in Vars : flag[w] # "out" => flag'[w] # "out"
  BY <1>1 DEF LetNew, LetLit, LetMove, AssignNew, AssignLit, AssignMove,
              UseVar, Consume, Discard, Received, FlagMap
<1>3. \/ order' = order
      \/ /\ flag[v] = "out" /\ flag'[v] # "out" /\ order' = Append(order, v)
  BY <1>1 DEF LetNew, LetLit, LetMove, AssignNew, AssignLit, AssignMove,
              UseVar, Consume, Discard, Declare, Received, FlagMap
<1>4. \E i \in Inst : /\ Emit(i) /\ i.op \notin {"jmp", "br", "ret"}
                      /\ Legal(i, flag) /\ Below(Post(i, flag), flag')
  <2>0. flag' \in FlagMap => Below(flag', flag')
    BY BelowReflexive
  <2>7. Below(flag', flag')
    BY <2>0 DEF TypeInv, TypeOK, ElabTypeOK
  <2>1. CASE LetNew(v) \/ AssignNew(v)
    <3>1. PICK old \in BOOLEAN : Emit(New(v, old)) /\ (old => flag[v] = "own")
      BY <2>1 DEF LetNew, AssignNew
    <3>2. flag' = [flag EXCEPT ![v] = "own"]
      BY <2>1 DEF LetNew, AssignNew
    <3>3. Legal(New(v, old), flag) /\ Post(New(v, old), flag) = flag'
      BY <1>1, <3>1, <3>2, StoreLegal
    <3> QED
      BY <2>7, <3>1, <3>3, InstTypes
  <2>2. CASE LetLit(v) \/ AssignLit(v)
    <3>1. PICK old \in BOOLEAN : Emit(Lit(v, old)) /\ (old => flag[v] = "own")
      BY <2>2 DEF LetLit, AssignLit
    <3>2. flag' = [flag EXCEPT ![v] = "lent"]
      BY <2>2 DEF LetLit, AssignLit
    <3>3. Legal(Lit(v, old), flag) /\ Post(Lit(v, old), flag) = flag'
      BY <1>1, <3>1, <3>2, StoreLegal
    <3> QED
      BY <2>7, <3>1, <3>3, InstTypes
  <2>3. CASE LetMove(v, u) \/ AssignMove(v, u)
    <3>1. PICK old \in BOOLEAN :
            Emit(Mov(v, u, old)) /\ (old => v # u /\ flag[v] = "own")
      BY <2>3 DEF LetMove, AssignMove
    <3>2. /\ flag' = [flag EXCEPT ![u] = "moved", ![v] = Received(u)]
          /\ flag[u] \in {"own", "param", "lent"}
      BY <2>3 DEF LetMove, AssignMove, Readable
    <3>3. Legal(Mov(v, u, old), flag) /\ Post(Mov(v, u, old), flag) = flag'
      BY <1>1, <3>1, <3>2, MoveLegal DEF Received
    <3> QED
      BY <2>7, <3>1, <3>3, InstTypes
  <2>4. CASE UseVar(u) \/ Consume(u)
    <3>1. /\ flag[u] \in {"own", "param", "lent"}
          /\ \/ Emit(Borrow(u)) /\ flag' = flag
             \/ Emit(Give(u)) /\ flag' = [flag EXCEPT ![u] = "moved"]
      BY <2>4 DEF UseVar, Consume, Readable
    <3>2. /\ Legal(Borrow(u), flag) /\ Post(Borrow(u), flag) = flag
          /\ Legal(Give(u), flag)
          /\ Post(Give(u), flag) = [flag EXCEPT ![u] = "moved"]
      BY <1>1, <3>1, UseLegal
    <3>3. CASE Emit(Borrow(u)) /\ flag' = flag
      BY <2>7, <3>2, <3>3, UseTypes
    <3>4. CASE Emit(Give(u)) /\ flag' = [flag EXCEPT ![u] = "moved"]
      BY <2>7, <3>2, <3>4, UseTypes
    <3> QED
      BY <3>1, <3>3, <3>4
  <2>5. CASE Discard(u)
    <3>1. /\ flag' = [flag EXCEPT ![u] = "moved"]
          /\ flag[u] \in {"own", "param", "lent"}
      BY <2>5 DEF Discard, Readable
    <3>2. CASE flag[u] = "lent"
      <4>1. Emit(Borrow(u))
        BY <2>5, <3>2 DEF Discard
      <4>2. Below(flag, flag')
        BY <1>1, <3>1 DEF Below, FlagMap
      <4>3. Legal(Borrow(u), flag) /\ Post(Borrow(u), flag) = flag
        BY <1>1, <3>1, UseLegal
      <4> QED
        BY <4>1, <4>2, <4>3, UseTypes
    <3>3. CASE flag[u] # "lent"
      <4>1. Emit(DropOne(u))
        BY <2>5, <3>3 DEF Discard
      <4>2. Legal(DropOne(u), flag) /\ Post(DropOne(u), flag) = flag'
        BY <1>1, <3>1, <3>3, UseLegal
      <4> QED
        BY <2>7, <4>1, <4>2, UseTypes
    <3> QED
      BY <3>2, <3>3
  <2> QED
    BY <2>1, <2>2, <2>3, <2>4, <2>5
<1> QED
  BY <1>1, <1>2, <1>3, <1>4, StatementInv

-----------------------------------------------------------------------------
(* Control constructs keep the compiler's invariant                         *)

LEMMA StayKeeps ==
  ASSUME TypeInv, LabelInv, UNCHANGED <<code, ann, term>>,
         term # "open" \/ flag' = flag
  PROVE  Keeps
<1>1. Len(code) \in Nat /\ \A m \in DOMAIN at : at[m] \in Nat
  BY ElementOfSeq, LenProperties DEF TypeInv, TypeOK, ElabTypeOK
<1>2. CASE flag' = flag
  BY <1>1, <1>2 DEF Keeps, LabelInv, StateAt
<1>3. CASE term # "open"
  <2>1. \A m \in DOMAIN at : at[m] <= Len(code)
    BY <1>1, <1>3 DEF LabelInv
  <2> QED
    BY <1>1, <2>1 DEF Keeps, StateAt
<1> QED
  BY <1>2, <1>3

LEMMA BlockInv ==
  ASSUME TypeInv, TypeInv', CompilerInv, OpenBlock \/ CloseBlock
  PROVE  CompilerInv'
<1>1. CASE OpenBlock
  <2>1. flag \in FlagMap /\ Len(order) \in Nat /\ "block" \in FrameKind
    BY FrameTypes DEF TypeInv, TypeOK, ElabTypeOK, FrameKind
  <2>2. PICK F \in FrameSet : /\ F = Frame("block", 0, 0, 0) /\ F.kind = "block"
                              /\ F.mark = Len(order) /\ ~F.live
                              /\ F.base = flag /\ F.save = flag
    <3>1. /\ Frame("block", 0, 0, 0) \in FrameSet
          /\ Frame("block", 0, 0, 0).kind = "block"
          /\ Frame("block", 0, 0, 0).mark = Len(order)
          /\ Frame("block", 0, 0, 0).base = flag
          /\ Frame("block", 0, 0, 0).save = flag
          /\ ~Frame("block", 0, 0, 0).live
      BY <2>1, NewFrameType
    <3> QED
      BY <3>1
  <2>3. /\ ctl' = Append(ctl, F) /\ phase = "compile" /\ term = "open"
        /\ UNCHANGED <<phase, flag, order, term, code, at, ann, into>>
    BY <1>1, <2>2 DEF OpenBlock, Open, Stmt
  <2>4. CodeInv'
    BY <2>3, CodeStay DEF CompilerInv
  <2>5. ScopeInv'
    BY <2>2, <2>3, ScopePush DEF CompilerInv
  <2>6. Keeps
    BY <2>3, StayKeeps DEF CompilerInv
  <2>7. /\ DOMAIN ctl' = 1..(Len(ctl) + 1) /\ DOMAIN ctl = 1..Len(ctl)
        /\ Len(ctl) \in Nat /\ ctl'[Len(ctl) + 1] = F
        /\ \A k \in 1..Len(ctl) : ctl'[k] = ctl[k]
    BY <2>3, AppendLemma, FrameTypes DEF TypeInv, TypeOK, ElabTypeOK
  <2>8. \A k \in DOMAIN ctl : k \in DOMAIN ctl' /\ ctl'[k] = ctl[k]
    BY <2>7
  <2>9. \A k \in DOMAIN ctl' : \/ k \in DOMAIN ctl /\ ctl'[k] = ctl[k]
                               \/ ctl'[k].kind = "block" /\ ~ctl'[k].live
    BY <2>2, <2>7
  <2>10. LabelInv'
    BY <2>3, <2>6, <2>8, LabelsStay DEF CompilerInv
  <2>11. FrameInv'
    BY <2>3, <2>6, <2>9, FramesStay DEF CompilerInv
  <2> QED
    BY <2>4, <2>5, <2>10, <2>11 DEF CompilerInv
<1>2. CASE CloseBlock
  <2>1. /\ ctl # <<>> /\ Top.kind = "block" /\ ctl' = Pop /\ CutScope
        /\ flag' = Outside(flag, Top.mark) /\ phase = "compile"
        /\ UNCHANGED <<phase, stmts, term, at, into>>
    BY <1>2 DEF CloseBlock, TopIs
  <2>2. Top.mark \in Nat /\ Top.mark <= Len(order)
    BY <2>1, PopTypes
  <2>3. CodeInv' /\ Keeps
    <3>1. CASE term = "open"
      <4>1. Drops(Top.mark) \in DropList
        BY <2>1, <2>2, DropsType DEF TypeInv, TypeOK, ElabTypeOK
      <4>2. PICK i \in Inst : /\ i = DropAll(Drops(Top.mark)) /\ i.op = "leave"
                              /\ i.d = Drops(Top.mark)
        BY <4>1, LeaveType
      <4>3. Emit(i)
        BY <1>2, <3>1, <4>2 DEF CloseBlock
      <4>4. Legal(i, flag) /\ Post(i, flag) = flag'
        BY <2>1, <2>2, <4>2, DropsLegal DEF CompilerInv, Legal, Post
      <4>5. Below(flag', flag')
        BY BelowReflexive DEF TypeInv, TypeOK, ElabTypeOK
      <4> QED
        BY <2>1, <3>1, <4>2, <4>3, <4>4, <4>5, CodeEmit, EmitKeeps
           DEF CompilerInv
    <3>2. CASE term # "open"
      BY <1>2, <2>1, <3>2, CodeStay, StayKeeps DEF CloseBlock, CompilerInv
    <3> QED
      BY <3>1, <3>2
  <2>4. \A k \in DOMAIN ctl' : /\ k \in DOMAIN ctl /\ ctl'[k] = ctl[k]
                              /\ k # Len(ctl)
    BY <2>1, PopTypes, FrameTypes
  <2>5. \A i \in 1..Top.mark : flag'[order[i]] # "out"
    BY <2>1, <2>2, OutsideInScope DEF CompilerInv
  <2>6. ScopeInv'
    BY <2>1, <2>4, <2>5, ScopeCut DEF CompilerInv, Rebased
  <2>7. ASSUME NEW m, NEW k \in DOMAIN ctl, m \in Labels(ctl[k])
        PROVE  k \in DOMAIN ctl' /\ ctl'[k] = ctl[k]
    <3>1. k # Len(ctl)
      BY <2>1, <2>7 DEF Labels, Branching, Top
    <3> QED
      BY <2>1, <3>1, PopTypes, FrameTypes
  <2>8. LabelInv'
    BY <2>1, <2>3, <2>7, LabelsStay DEF CompilerInv
  <2>9. FrameInv'
    BY <2>1, <2>3, <2>4, FramesStay DEF CompilerInv
  <2> QED
    BY <2>3, <2>6, <2>8, <2>9 DEF CompilerInv
<1> QED
  BY <1>1, <1>2

LEMMA FinishInv ==
  ASSUME TypeInv, TypeInv', CompilerInv,
         \/ Finish \/ (\E u \in Vars : UseMoved(u))
         \/ (\E u \in Vars \cup {NoVar} : Return(u))
  PROVE  CompilerInv'
<1>1. /\ UNCHANGED <<order, ctl, at, into>> /\ phase = "compile"
      /\ flag \in FlagMap /\ 0 \in Nat /\ 0 <= Len(order)
      /\ Drops(0) \in DropList
  <2>1. UNCHANGED <<order, ctl, at, into>> /\ phase = "compile"
    BY DEF Finish, UseMoved, Return, Stmt
  <2>2. flag \in FlagMap /\ order \in Seq(Vars) /\ 0 \in Nat
    BY DEF TypeInv, TypeOK, ElabTypeOK
  <2> QED
    BY <2>1, <2>2, DropsType, FrameTypes
<1>2. /\ LegalDrops(Drops(0), flag)
  BY <1>1, DropsLegal DEF CompilerInv
<1>3. \A w \in Vars : flag[w] # "out" => flag'[w] # "out"
  BY DEF Finish, UseMoved, Return
<1>4. ScopeInv'
  BY <1>1, <1>3, ScopeKept DEF CompilerInv
<1>5. CodeInv' /\ Keeps
  <2>1. CASE \E i \in Inst : /\ Emit(i) /\ i.op = "ret" /\ Legal(i, flag)
                             /\ term = "open" /\ term' = "ret"
                             /\ phase' = "ready" => ctl = <<>>
    BY <1>1, <2>1, CodeEmit, EmitKeeps DEF CompilerInv
  <2>2. CASE UNCHANGED <<code, ann, flag, term>> /\ phase' = "rejected"
    <3>1. CodeInv'
      BY <1>1, <2>2, CodeStay DEF CompilerInv, TypeInv, TypeOK, ElabTypeOK
    <3> QED
      BY <2>2, <3>1, StayKeeps DEF CompilerInv
  <2>3. CASE Finish /\ term # "open"
    <3>1. UNCHANGED <<code, ann, flag>> /\ term' = "ret" /\ ctl = <<>>
      BY <2>3 DEF Finish
    <3>2. CodeInv'
      BY <1>1, <2>3, <3>1, CodeStay DEF CompilerInv
    <3>3. \A m \in DOMAIN at : at[m] \in Nat /\ at[m] <= Len(code)
      <4>1. Len(code) \in Nat /\ \A m \in DOMAIN at : at[m] \in Nat
        BY ElementOfSeq, LenProperties DEF TypeInv, TypeOK, ElabTypeOK
      <4> QED
        BY <2>3, <4>1 DEF CompilerInv, LabelInv
    <3>4. Len(code) \in Nat
      BY LenProperties DEF TypeInv, TypeOK, ElabTypeOK
    <3> QED
      BY <3>1, <3>2, <3>3, <3>4 DEF Keeps, StateAt
  <2>4. CASE Finish /\ term = "open"
    <3>1. PICK i \in Inst : i = Ret(NoVar, Drops(0)) /\ i.op = "ret"
                            /\ i.v = NoVar /\ i.d = Drops(0)
      <4>1. NoVar \in Vars \cup {NoVar}
        OBVIOUS
      <4> QED
        BY <1>1, <4>1, RetType
    <3>2. NoVar \notin Drops(0).own
      BY ElabAssumption DEF Drops, Owned
    <3>3. Legal(i, flag)
      BY <1>2, <3>1, <3>2 DEF Legal
    <3>4. Emit(i) /\ term' = "ret" /\ ctl = <<>>
      BY <2>4, <3>1 DEF Finish
    <3> QED
      BY <2>1, <2>4, <3>1, <3>3, <3>4
  <2>5. ASSUME NEW u \in Vars \cup {NoVar}, Return(u)
        PROVE  CodeInv' /\ Keeps
    <3>1. PICK d \in DropList : /\ d = [Drops(0) EXCEPT !.own = @ \ {u}]
                                /\ d.vs = Drops(0).vs
                                /\ d.own = Drops(0).own \ {u}
      <4>1. /\ [Drops(0) EXCEPT !.own = @ \ {u}] \in DropList
            /\ [Drops(0) EXCEPT !.own = @ \ {u}].vs = Drops(0).vs
            /\ [Drops(0) EXCEPT !.own = @ \ {u}].own = Drops(0).own \ {u}
        BY <1>1 DEF DropList
      <4> QED
        BY <4>1
    <3>2. PICK i \in Inst : i = Ret(u, d) /\ i.op = "ret" /\ i.v = u /\ i.d = d
      BY <3>1, RetType
    <3>3. LegalDrops(d, flag)
      BY <1>2, <3>1 DEF LegalDrops
    <3>4. u # NoVar => flag[u] \in {"own", "param", "lent"}
      BY <2>5 DEF Return, Readable
    <3>5. Legal(i, flag)
      BY <3>1, <3>2, <3>3, <3>4 DEF Legal
    <3>6. /\ Emit(i) /\ term = "open" /\ term' = "ret" /\ phase' = "compile"
      BY <1>1, <2>5, <3>1, <3>2 DEF Return, Stmt
    <3> QED
      BY <2>1, <3>2, <3>5, <3>6
  <2>6. CASE \E u \in Vars : UseMoved(u)
    BY <2>2, <2>6 DEF UseMoved, Stmt
  <2> QED
    BY <2>3, <2>4, <2>5, <2>6
<1>6. LabelInv'
  BY <1>1, <1>5, LabelsStay DEF CompilerInv
<1>7. FrameInv'
  BY <1>1, <1>5, FramesStay DEF CompilerInv
<1> QED
  BY <1>4, <1>5, <1>6, <1>7 DEF CompilerInv

(* The labels of a frame exist.                                              *)
LEMMA LabelsExist ==
  ASSUME NEW F, FrameKnown(F)
  PROVE  Labels(F) \subseteq DOMAIN at
  BY DEF FrameKnown, Labels, Branching

(* The beginning of an if, a loop or a match.                                *)
LEMMA OpenedInv ==
  ASSUME TypeInv, TypeInv', CompilerInv, phase = "compile", term = "open",
         UNCHANGED <<phase, flag, order, term>>,
         NEW kind \in {"then", "loop", "arm"}, NEW head \in Nat, NEW next \in Nat,
         NEW a \in Nat, NEW A \in SUBSET FlagMap, NEW B \in SUBSET FlagMap,
         NEW n \in Nat, n = Len(at),
         ctl' = Append(ctl, Frame(kind, head, next, n + 2)),
         NewLabels(a, 0), NewEdges(A, B),
         kind = "loop" => /\ head = n + 1 /\ a = Len(code) + 1 /\ A = {}
                          /\ "loop" \in Shapes,
         kind # "loop" => next = n + 1 /\ a = 0 /\ A = {flag} /\ B = {},
         kind = "arm" => "arms" \in Shapes,
         \/ UNCHANGED <<code, ann>>
         \/ Emit(Branch(n + 1)) /\ A = {flag}
         \/ Emit(Branch(n + 2)) /\ B = {flag}
  PROVE  CompilerInv'
<1>1. /\ flag \in FlagMap /\ at \in Seq(Nat) /\ into \in Seq(SUBSET FlagMap)
      /\ Len(into) = n /\ Len(code) \in Nat /\ DOMAIN at = 1..n
      /\ Len(order) \in Nat
  BY FrameTypes, LenProperties DEF TypeInv, TypeOK, ElabTypeOK, LabelsKnown
<1>2. /\ DOMAIN at' = 1..(n + 2) /\ at'[n + 1] = a /\ at'[n + 2] = 0
      /\ \A m \in 1..n : at'[m] = at[m]
  <2>1. at' = Append(Append(at, a), 0) /\ 0 \in Nat
    BY DEF NewLabels
  <2> QED
    BY <1>1, <2>1, AppendTwo
<1>3. /\ into'[n + 1] = A /\ into'[n + 2] = B
      /\ \A m \in 1..n : into'[m] = into[m]
  <2>1. into' = Append(Append(into, A), B)
    BY DEF NewEdges
  <2> QED
    BY <1>1, <2>1, AppendTwo
<1>4. PICK F \in FrameSet :
        /\ ctl' = Append(ctl, F) /\ F.kind = kind /\ F.mark = Len(order)
        /\ F.head = head /\ F.next = next /\ F.exit = n + 2
        /\ F.base = flag /\ F.save = flag /\ ~F.live
  <2>1. kind \in FrameKind
    BY DEF FrameKind
  <2>3. n + 2 \in Nat /\ flag \in FlagMap /\ Len(order) \in Nat
    BY <1>1
  <2>2. /\ Frame(kind, head, next, n + 2) \in FrameSet
        /\ Frame(kind, head, next, n + 2).kind = kind
        /\ Frame(kind, head, next, n + 2).mark = Len(order)
        /\ Frame(kind, head, next, n + 2).head = head
        /\ Frame(kind, head, next, n + 2).next = next
        /\ Frame(kind, head, next, n + 2).exit = n + 2
        /\ Frame(kind, head, next, n + 2).base = flag
        /\ Frame(kind, head, next, n + 2).save = flag
        /\ ~Frame(kind, head, next, n + 2).live
    BY <2>1, <2>3 DEF Frame, FrameSet
  <2> QED
    BY <2>2
<1>5. /\ DOMAIN ctl' = 1..(Len(ctl) + 1) /\ DOMAIN ctl = 1..Len(ctl)
      /\ Len(ctl) \in Nat /\ ctl'[Len(ctl) + 1] = F
      /\ \A k \in 1..Len(ctl) : ctl'[k] = ctl[k]
  BY <1>4, AppendLemma, FrameTypes DEF TypeInv, TypeOK, ElabTypeOK
<1>6. CodeInv' /\ Keeps
  <2>0. \A l \in DOMAIN at : into[l] \subseteq into'[l]
    BY <1>1, <1>3
  <2>1. CASE UNCHANGED <<code, ann>>
    BY <2>0, <2>1, CodeStay, StayKeeps DEF CompilerInv
  <2>2. ASSUME NEW l \in {n + 1, n + 2}, Emit(Branch(l)), into'[l] = {flag}
        PROVE  CodeInv' /\ Keeps
    <3>1. PICK i \in Inst : i = Branch(l) /\ i.op = "br" /\ i.to = l
      <4>1. Branch(l) \in Inst /\ Branch(l).op = "br" /\ Branch(l).to = l
        BY DEF Branch, Inst
      <4> QED
        BY <4>1
    <3>2. Legal(i, flag) /\ Post(i, flag) = flag
      BY <3>1 DEF Legal, Post
    <3>3. Below(flag, flag')
      BY <1>1, BelowReflexive
    <3> QED
      BY <2>0, <2>2, <3>1, <3>2, <3>3, CodeEmit, EmitKeeps DEF CompilerInv
  <2> QED
    BY <1>3, <2>1, <2>2
<1>7. ScopeInv'
  BY <1>4, ScopePush DEF CompilerInv
<1>8. /\ Labels(F) \subseteq {n + 1, n + 2} /\ n + 2 \in Labels(F)
      /\ kind # "loop" => n + 1 \in Labels(F)
  BY <1>4 DEF Labels, Branching
<1>9. a = Len(code) + 1 => StateAt(a)' = flag /\ a <= Len(code') + 1
  <2>1. CASE UNCHANGED <<code, ann>>
    BY <1>1, <2>1 DEF StateAt
  <2>2. ASSUME NEW l \in {n + 1, n + 2}, Emit(Branch(l))
        PROVE  a = Len(code) + 1 => StateAt(a)' = flag /\ a <= Len(code') + 1
    <3>1. Branch(l) \in Inst
      BY DEF Branch, Inst
    <3> QED
      BY <1>1, <2>2, <3>1, StateAtEmit DEF CompilerInv
  <2> QED
    BY <2>1, <2>2
<1>10. LabelInv'
  <2>1. ASSUME NEW m \in 1..n
        PROVE  /\ at'[m] <= Len(code') + 1
               /\ at'[m] = Len(code') + 1 => term' = "open"
               /\ at'[m] # 0 => \A f \in into'[m] : Below(f, StateAt(at[m])')
               /\ at'[m] = 0 => \E k \in DOMAIN ctl' : m \in Labels(ctl'[k])
    <3>1. PICK p \in Nat : at[m] = p /\ at'[m] = p
      BY <1>1, <1>2, ElementOfSeq
    <3>2. /\ p <= Len(code') + 1
          /\ p = Len(code') + 1 => term' = "open"
          /\ p # 0 => StateAt(p)' = StateAt(p)
      BY <1>1, <1>6, <3>1 DEF Keeps
    <3>3. StateAt(at[m])' = StateAt(p)'
      BY <3>1 DEF StateAt
    <3>6. /\ m \in DOMAIN at /\ into'[m] = into[m]
          /\ at[m] # 0 => \A f \in into[m] : Below(f, StateAt(at[m]))
          /\ at[m] = 0 => \E k \in DOMAIN ctl : m \in Labels(ctl[k])
      <4>1. m \in DOMAIN at /\ into'[m] = into[m]
        BY <1>1, <1>3
      <4> QED
        BY <4>1 DEF CompilerInv, LabelInv
    <3>4. p # 0 => \A f \in into'[m] : Below(f, StateAt(p)')
      BY <3>1, <3>2, <3>6
    <3>5. p = 0 => \E k \in DOMAIN ctl' : m \in Labels(ctl'[k])
      <4>1. \A k \in DOMAIN ctl : k \in DOMAIN ctl' /\ ctl'[k] = ctl[k]
        BY <1>5
      <4> QED
        BY <3>1, <3>6, <4>1
    <3> QED
      BY <3>1, <3>2, <3>3, <3>4, <3>5
  <2>2. /\ at'[n + 1] <= Len(code') + 1
        /\ at'[n + 1] # 0 => into'[n + 1] = {}
        /\ at'[n + 1] = 0 => \E k \in DOMAIN ctl' : n + 1 \in Labels(ctl'[k])
    <3>1. CASE kind = "loop"
      BY <1>1, <1>2, <1>3, <1>9, <3>1
    <3>2. CASE kind # "loop"
      <4>1. a = 0 /\ 0 <= Len(code') + 1
        BY <3>2, LenProperties DEF TypeInv, TypeOK, ElabTypeOK
      <4> QED
        BY <1>2, <1>5, <1>8, <3>2, <4>1
    <3> QED
      BY <3>1, <3>2
  <2>3. /\ at'[n + 2] <= Len(code') + 1
        /\ at'[n + 2] = 0 /\ \E k \in DOMAIN ctl' : n + 2 \in Labels(ctl'[k])
    <3>1. 0 <= Len(code') + 1
      BY LenProperties DEF TypeInv, TypeOK, ElabTypeOK
    <3> QED
      BY <1>2, <1>5, <1>8, <3>1
  <2>4. \A m \in DOMAIN at' : m \in 1..n \/ m = n + 1 \/ m = n + 2
    BY <1>2
  <2>5. ASSUME NEW m \in DOMAIN at'
        PROVE  /\ at'[m] <= Len(code') + 1
               /\ at'[m] = Len(code') + 1 => term' = "open"
               /\ at'[m] # 0 => \A f \in into'[m] : Below(f, StateAt(at[m])')
               /\ at'[m] = 0 => \E k \in DOMAIN ctl' : m \in Labels(ctl'[k])
    BY <2>1, <2>2, <2>3, <2>4
  <2> QED
    BY <2>5 DEF LabelInv, Labels, Branching
<1>11. FrameInv'
  <2>1. ASSUME NEW k \in DOMAIN ctl, NEW G, G = ctl[k]
        PROVE  FrameOK(G)' /\ Labels(G) \subseteq 1..n
    <3>1. FrameOK(G) /\ FrameKnown(G)
      BY <2>1 DEF CompilerInv, FrameInv, TypeInv, LabelsKnown
    <3>2. /\ G.kind # "block" => G.exit \in 1..n
          /\ Branching(G) => G.next \in 1..n
          /\ G.kind = "loop" => G.head \in 1..n
      BY <1>1, <3>1 DEF FrameKnown, Branching
    <3>3. FrameOK(G)'
      BY <1>2, <1>3, <1>6, <3>1, <3>2, FrameKept
    <3> QED
      BY <1>1, <3>1, <3>3, LabelsExist
  <2>2. FrameOK(F)'
    <3>1. kind = "loop" => at'[n + 1] # 0 /\ StateAt(at[n + 1])' = flag
      BY <1>1, <1>2, <1>9 DEF StateAt
    <3> QED
      BY <1>2, <1>3, <1>4, <3>1 DEF FrameOK, Branching
  <2>3. ASSUME NEW k \in DOMAIN ctl', NEW G, G = ctl'[k] PROVE FrameOK(G)'
    BY <1>5, <2>1, <2>2, <2>3
  <2>4. (\A k \in DOMAIN ctl : FrameOK(ctl[k]))'
    BY <2>3
  <2>5. ASSUME NEW j \in DOMAIN ctl', NEW k \in DOMAIN ctl', j # k
        PROVE  Labels(ctl'[j]) \cap Labels(ctl'[k]) = {}
    <3>1. CASE j \in DOMAIN ctl /\ k \in DOMAIN ctl
      <4>1. ctl'[j] = ctl[j] /\ ctl'[k] = ctl[k]
        BY <1>5, <3>1
      <4> QED
        BY <2>5, <3>1, <4>1 DEF CompilerInv, FrameInv
    <3>2. CASE j = Len(ctl) + 1 /\ k \in DOMAIN ctl
      BY <1>5, <1>8, <2>1, <3>2
    <3>3. CASE k = Len(ctl) + 1 /\ j \in DOMAIN ctl
      BY <1>5, <1>8, <2>1, <3>3
    <3>4. /\ j \in DOMAIN ctl \/ j = Len(ctl) + 1
          /\ k \in DOMAIN ctl \/ k = Len(ctl) + 1
      BY <1>5
    <3> QED
      BY <2>5, <3>1, <3>2, <3>3, <3>4
  <2> QED
    BY <2>4, <2>5 DEF FrameInv, Labels, Branching
<1> QED
  BY <1>6, <1>7, <1>10, <1>11 DEF CompilerInv

LEMMA OpenInv ==
  ASSUME TypeInv, TypeInv', CompilerInv,
         OpenIf \/ OpenLoop \/ OpenWhile \/ OpenArms
  PROVE  CompilerInv'
<1>1. PICK n \in Nat : n = Len(at)
  BY LenProperties DEF TypeInv, TypeOK, ElabTypeOK
<1>2. /\ {flag} \in SUBSET FlagMap /\ {} \in SUBSET FlagMap
      /\ n + 1 \in Nat /\ n + 2 \in Nat /\ Len(code) + 1 \in Nat
  BY LenProperties DEF TypeInv, TypeOK, ElabTypeOK
<1>3. /\ phase = "compile" /\ term = "open"
      /\ UNCHANGED <<phase, flag, order, term>>
  BY DEF OpenIf, OpenLoop, OpenWhile, OpenArms, Open, Stmt
<1>4. CASE OpenIf
  <2>1. /\ ctl' = Append(ctl, Frame("then", 0, n + 1, n + 2))
        /\ NewLabels(0, 0) /\ NewEdges({flag}, {}) /\ Emit(Branch(n + 1))
    BY <1>1, <1>4 DEF OpenIf
  <2> QED
    BY <1>1, <1>2, <1>3, <2>1, OpenedInv
<1>5. CASE OpenArms
  <2>1. /\ ctl' = Append(ctl, Frame("arm", 0, n + 1, n + 2)) /\ "arms" \in Shapes
        /\ NewLabels(0, 0) /\ NewEdges({flag}, {}) /\ Emit(Branch(n + 1))
    BY <1>1, <1>5 DEF OpenArms, Open
  <2> QED
    BY <1>1, <1>2, <1>3, <2>1, OpenedInv
<1>6. CASE OpenLoop
  <2>1. /\ ctl' = Append(ctl, Frame("loop", n + 1, 0, n + 2)) /\ "loop" \in Shapes
        /\ NewLabels(Len(code) + 1, 0) /\ NewEdges({}, {})
        /\ UNCHANGED <<code, ann>>
    BY <1>1, <1>6 DEF OpenLoop, Open
  <2> QED
    BY <1>1, <1>2, <1>3, <2>1, OpenedInv
<1>7. CASE OpenWhile
  <2>1. /\ ctl' = Append(ctl, Frame("loop", n + 1, 0, n + 2)) /\ "loop" \in Shapes
        /\ NewLabels(Len(code) + 1, 0) /\ NewEdges({}, {flag})
        /\ Emit(Branch(n + 2))
    BY <1>1, <1>7 DEF OpenWhile, Open
  <2> QED
    BY <1>1, <1>2, <1>3, <2>1, OpenedInv
<1> QED
  BY <1>4, <1>5, <1>6, <1>7

(* A block ends in front of a label p that is placed behind it.              *)
LEMMA FallPlaceKeeps ==
  ASSUME TypeInv, TypeInv', CompilerInv, NEW l \in DOMAIN at, NEW k \in Nat,
         k <= Len(order), FallInto(l, k), term' = "open",
         NEW p \in DOMAIN at, at[p] = 0, at' = Place(at, p)
  PROVE  /\ Keeps
         /\ DOMAIN at' = DOMAIN at /\ at'[p] = Len(code') + 1
         /\ \A m \in DOMAIN at : m # p => at'[m] = at[m]
         /\ StateAt(Len(code) + 1)' = flag'
         /\ Len(code') \in Nat
<1>1. /\ Len(code') \in Nat /\ DOMAIN at = 1..Len(at)
      /\ \A m \in DOMAIN at : at[m] \in Nat
  BY ElementOfSeq, LenProperties DEF TypeInv, TypeOK, ElabTypeOK
<1>2. Keeps
  BY <1>1, FallKeeps DEF CompilerInv, Keeps
<1>3. /\ DOMAIN at' = DOMAIN at /\ at'[p] = Len(code') + 1
      /\ \A m \in DOMAIN at : m # p => at'[m] = at[m]
  BY DEF Place
<1>4. StateAt(Len(code) + 1)' = flag'
  BY <1>1 DEF StateAt
<1> QED
  BY <1>1, <1>2, <1>3, <1>4

(* The innermost construct is closed, or switches to its second branch F.    *)
LEMMA ClosedInv ==
  ASSUME TypeInv, TypeInv', CompilerInv, ctl # <<>>, phase = "compile",
         phase' = phase, term' = "open", CutScope,
         NEW l \in DOMAIN at, FallInto(l, Top.mark),
         into' = [into EXCEPT ![l] = @ \cup FallEdge(Top.mark)],
         l \in Labels(Top) \/ at[l] # 0,
         at[l] # 0 => \A f \in FallEdge(Top.mark) : Below(f, StateAt(at[l])),
         NEW p \in DOMAIN at, p \in Labels(Top), at[p] = 0, at' = Place(at, p),
         \A f \in into'[p] : Below(f, flag'),
         \A i \in 1..Top.mark : flag'[order[i]] # "out",
         \/ ctl' = Pop /\ Labels(Top) = {p}
         \/ \E F \in FrameSet :
              /\ \E P : Around(P) /\ ctl' = Append(P, F)
              /\ F.mark = Top.mark /\ FrameOK(F)'
              /\ Labels(F) = Labels(Top) \ {p}
              /\ \A i \in 1..Top.mark : /\ F.base[order[i]] # "out"
                                        /\ F.save[order[i]] # "out"
  PROVE  CompilerInv'
<1>1. /\ Keeps
      /\ DOMAIN at' = DOMAIN at /\ at'[p] = Len(code') + 1
      /\ \A m \in DOMAIN at : m # p => at'[m] = at[m]
      /\ StateAt(Len(code) + 1)' = flag'
      /\ Len(code') \in Nat
      /\ Top.mark \in Nat /\ Top.mark <= Len(order)
  BY FallPlaceKeeps, PopTypes
<1>2. /\ l \in DOMAIN into
      /\ \A m \in DOMAIN at : m # l => into'[m] = into[m]
      /\ into'[l] = into[l] \cup FallEdge(Top.mark)
  BY LenProperties DEF TypeInv, TypeOK, ElabTypeOK, LabelsKnown
<1>3. CodeInv'
  <2>1. /\ \A m \in DOMAIN at : into[m] \subseteq into'[m]
        /\ FallEdge(Top.mark) \subseteq into'[l]
    BY <1>2
  <2> QED
    BY <1>1, <2>1, CodeFall DEF CompilerInv
<1>4. /\ Len(ctl) \in Nat /\ DOMAIN ctl = 1..Len(ctl) /\ Len(ctl) \in DOMAIN ctl
      /\ Top = ctl[Len(ctl)]
      /\ Pop \in Seq(FrameSet) /\ Len(Pop) = Len(ctl) - 1
      /\ DOMAIN Pop = 1..(Len(ctl) - 1)
      /\ \A k \in DOMAIN Pop : Pop[k] = ctl[k]
  BY PopTypes, FrameTypes DEF Top
<1>5. /\ \A k \in DOMAIN ctl : k # Len(ctl) =>
           k \in DOMAIN ctl' /\ Rebased(ctl[k], ctl'[k])
      /\ \A k \in DOMAIN ctl' : k \in DOMAIN ctl
      /\ \/ Len(ctl) \notin DOMAIN ctl' /\ Labels(Top) = {p}
         \/ /\ Len(ctl) \in DOMAIN ctl' /\ ctl'[Len(ctl)].mark = Top.mark
            /\ Labels(ctl'[Len(ctl)]) = Labels(Top) \ {p}
            /\ \A F : F = ctl'[Len(ctl)] => FrameOK(F)'
            /\ \A i \in 1..Top.mark : /\ ctl'[Len(ctl)].base[order[i]] # "out"
                                      /\ ctl'[Len(ctl)].save[order[i]] # "out"
  <2>1. CASE ctl' = Pop /\ Labels(Top) = {p}
    <3>1. \A k \in DOMAIN ctl : k # Len(ctl) => k \in DOMAIN ctl' /\ ctl'[k] = ctl[k]
      BY <1>4, <2>1
    <3>2. (\A k \in DOMAIN ctl' : k \in DOMAIN ctl) /\ Len(ctl) \notin DOMAIN ctl'
      BY <1>4, <2>1
    <3> QED
      BY <2>1, <3>1, <3>2 DEF Rebased
  <2>2. ASSUME NEW F \in FrameSet, NEW P, Around(P), ctl' = Append(P, F)
        PROVE  /\ \A k \in DOMAIN ctl : k # Len(ctl) =>
                    k \in DOMAIN ctl' /\ Rebased(ctl[k], ctl'[k])
               /\ \A k \in DOMAIN ctl' : k \in DOMAIN ctl
               /\ Len(ctl) \in DOMAIN ctl' /\ ctl'[Len(ctl)] = F
    BY <2>2, AroundAppend
  <2> QED
    BY <2>1, <2>2
<1>6. ScopeInv'
  <2>1. \A k \in DOMAIN ctl' : ctl'[k].mark = ctl[k].mark
    BY <1>4, <1>5 DEF Rebased
  <2> QED
    BY <1>5, <2>1, ScopeCut DEF CompilerInv
<1>7. LabelInv'
  <2>1. ASSUME NEW m \in DOMAIN at, m # p
        PROVE  /\ at'[m] <= Len(code') + 1
               /\ at'[m] # 0 => \A f \in into'[m] : Below(f, StateAt(at[m])')
               /\ at'[m] = 0 => \E k \in DOMAIN ctl' : m \in Labels(ctl'[k])
    <3>1. PICK n \in Nat : at[m] = n /\ at'[m] = n
      <4>1. at \in Seq(Nat) /\ m \in DOMAIN at
        BY DEF TypeInv, TypeOK, ElabTypeOK
      <4>2. at[m] \in Nat
        BY <4>1, ElementOfSeq, LenProperties
      <4> QED
        BY <1>1, <2>1, <4>2
    <3>2. n <= Len(code') + 1 /\ (n # 0 => StateAt(n)' = StateAt(n))
      BY <1>1, <3>1 DEF Keeps
    <3>3. StateAt(at[m])' = StateAt(n)'
      BY <3>1 DEF StateAt
    <3>4. n # 0 => \A f \in into'[m] : Below(f, StateAt(n))
      <4>1. n # 0 => \A f \in into[m] : Below(f, StateAt(n))
        BY <3>1 DEF CompilerInv, LabelInv
      <4>2. CASE m = l
        BY <1>2, <3>1, <4>1, <4>2
      <4>3. CASE m # l
        BY <1>2, <4>1, <4>3
      <4> QED
        BY <4>2, <4>3
    <3>5. n = 0 => \E k \in DOMAIN ctl' : m \in Labels(ctl'[k])
      <4>1. n = 0 => \E k \in DOMAIN ctl : m \in Labels(ctl[k])
        BY <3>1 DEF CompilerInv, LabelInv
      <4>2. n = 0 => \/ m \in Labels(Top)
                     \/ \E k \in DOMAIN ctl : /\ k # Len(ctl)
                                             /\ m \in Labels(ctl[k])
        BY <1>4, <4>1
      <4>3. \A k \in DOMAIN ctl : k # Len(ctl) => Labels(ctl'[k]) = Labels(ctl[k])
        BY <1>5 DEF Rebased, Labels, Branching
      <4> QED
        BY <1>4, <1>5, <2>1, <4>2, <4>3
    <3> QED
      BY <3>1, <3>2, <3>3, <3>4, <3>5
  <2>2. /\ at'[p] <= Len(code') + 1 /\ at'[p] # 0
        /\ \A f \in into'[p] : Below(f, StateAt(at[p])')
    <3>1. StateAt(at[p])' = flag'
      BY <1>1 DEF StateAt
    <3> QED
      BY <1>1, <3>1
  <2>3. ASSUME NEW m \in DOMAIN at'
        PROVE  /\ at'[m] <= Len(code') + 1
               /\ at'[m] = Len(code') + 1 => term' = "open"
               /\ at'[m] # 0 => \A f \in into'[m] : Below(f, StateAt(at[m])')
               /\ at'[m] = 0 => \E k \in DOMAIN ctl' : m \in Labels(ctl'[k])
    BY <1>1, <2>1, <2>2
  <2> QED
    BY <2>3 DEF LabelInv, Labels, Branching
<1>8. FrameInv'
  <2>1. ASSUME NEW k \in DOMAIN ctl, k # Len(ctl), NEW G, G = ctl[k]
        PROVE  FrameOK(G)'
    <3>1. FrameOK(G) /\ FrameKnown(G)
      BY <2>1 DEF CompilerInv, FrameInv, TypeInv, LabelsKnown
    <3>2. Labels(G) \subseteq DOMAIN at
      BY <3>1, LabelsExist
    <3>3. Labels(G) \cap Labels(Top) = {}
      BY <1>4, <2>1 DEF CompilerInv, FrameInv
    <3>4. ASSUME NEW m \in Labels(G), at[m] = 0
          PROVE  at'[m] = at[m] /\ into'[m] = into[m]
      <4>1. m \in DOMAIN at /\ m # p /\ m # l
        BY <3>2, <3>3, <3>4
      <4> QED
        BY <1>1, <1>2, <4>1
    <3>5. /\ G.kind # "block" => G.exit \in Labels(G) /\ at[G.exit] = 0
          /\ Branching(G) => G.next \in Labels(G) /\ at[G.next] = 0
      BY <3>1 DEF FrameOK, Labels, Branching
    <3>6. G.kind = "loop" => at'[G.head] = at[G.head]
      <4>1. G.kind = "loop" => G.head \in DOMAIN at /\ at[G.head] # 0
        BY <3>1 DEF FrameOK, FrameKnown
      <4> QED
        BY <1>1, <4>1
    <3> QED
      BY <1>1, <3>1, <3>4, <3>5, <3>6, FrameKept
  <2>2. ASSUME NEW k \in DOMAIN ctl', NEW G, G = ctl'[k]
        PROVE  FrameOK(G)' /\ Labels(G) \subseteq Labels(ctl[k])
    <3>1. CASE k = Len(ctl)
      BY <1>4, <1>5, <2>2, <3>1
    <3>2. CASE k # Len(ctl)
      <4>1. PICK F : F = ctl[k]
        OBVIOUS
      <4>2. FrameOK(F)' /\ Rebased(F, G)
        BY <1>5, <2>1, <2>2, <3>2, <4>1
      <4> QED
        BY <4>1, <4>2, RebasedOK
    <3> QED
      BY <3>1, <3>2
  <2>3. (\A k \in DOMAIN ctl : FrameOK(ctl[k]))'
    BY <2>2
  <2>4. \A k \in DOMAIN ctl' : Labels(ctl'[k]) \subseteq Labels(ctl[k])
    BY <2>2
  <2>5. \A j, k \in DOMAIN ctl' :
          j # k => Labels(ctl'[j]) \cap Labels(ctl'[k]) = {}
    BY <1>5, <2>4 DEF CompilerInv, FrameInv
  <2> QED
    BY <2>3, <2>5 DEF FrameInv, Labels, Branching
<1> QED
  BY <1>3, <1>6, <1>7, <1>8 DEF CompilerInv

-----------------------------------------------------------------------------
(* The middle and the end of the constructs                                 *)

(* The disciplines give what the compiler does not check.                    *)
LEMMA AgreesBelow ==
  ASSUME Disciplined, NEW kind \in {"loop", "arms"}, kind \in Shapes,
         NEW f, NEW g \in FlagMap, Agrees(kind, f, g)
  PROVE  Below(f, g)
<1>1. CASE kind \in Discipline
  BY <1>1 DEF Agrees
<1>2. CASE "exact" \in Discipline
  BY <1>2, BelowReflexive DEF Agrees
<1> QED
  BY <1>1, <1>2 DEF Disciplined

LEMMA TopFacts ==
  ASSUME TypeInv, CompilerInv, ctl # <<>>
  PROVE  /\ Top \in FrameSet /\ FrameOK(Top) /\ FrameKnown(Top)
         /\ Labels(Top) \subseteq DOMAIN at
         /\ Top.mark \in Nat /\ Top.mark <= Len(order)
         /\ Top.base \in FlagMap /\ Top.save \in FlagMap
         /\ \A i \in 1..Top.mark : /\ Top.base[order[i]] # "out"
                                   /\ Top.save[order[i]] # "out"
         /\ \A i \in 1..Top.mark : Outside(flag, Top.mark)[order[i]] # "out"
         /\ Outside(flag, Top.mark) \in FlagMap
         /\ DOMAIN at = DOMAIN into
<1>1. Len(ctl) \in DOMAIN ctl /\ Top = ctl[Len(ctl)] /\ Top \in FrameSet
  BY PopTypes DEF Top
<1>2. FrameOK(Top) /\ FrameKnown(Top)
  BY <1>1 DEF CompilerInv, FrameInv, TypeInv, LabelsKnown
<1>3. Top.mark \in Nat /\ Top.mark <= Len(order)
  BY PopTypes
<1>4. Top.base \in FlagMap /\ Top.save \in FlagMap
  BY <1>1 DEF FrameSet
<1>5. \A i \in 1..Top.mark : /\ Top.base[order[i]] # "out"
                             /\ Top.save[order[i]] # "out"
  BY <1>1 DEF CompilerInv, ScopeInv, InScope
<1>6. \A i \in 1..Top.mark : Outside(flag, Top.mark)[order[i]] # "out"
  BY <1>3, OutsideInScope DEF CompilerInv
<1>7. flag \in FlagMap
  BY DEF TypeInv, TypeOK, ElabTypeOK
<1>8. Outside(flag, Top.mark) \in FlagMap
  BY <1>7, OutsideType
<1>9. DOMAIN at = DOMAIN into
  BY LenProperties DEF TypeInv, TypeOK, ElabTypeOK, LabelsKnown
<1>10. Labels(Top) \subseteq DOMAIN at
  BY <1>1, <1>2, LabelsExist
<1> QED
  BY <1>1, <1>2, <1>3, <1>4, <1>5, <1>6, <1>8, <1>9, <1>10

LEMMA BranchInv ==
  ASSUME Disciplined, TypeInv, TypeInv', CompilerInv, Else \/ NextArm
  PROVE  CompilerInv'
<1>0. ctl # <<>> /\ phase = "compile" /\ Top.kind \in {"then", "arm"}
  BY DEF Else, Restored, NextArm, TopIs
<1>1. PICK T \in FrameSet : T = Top
  BY <1>0, TopFacts
<1>2. PICK l \in DOMAIN at : l = T.exit
  BY <1>0, <1>1, TopFacts DEF FrameKnown
<1>3. PICK p \in DOMAIN at : p = T.next
  BY <1>0, <1>1, TopFacts DEF FrameKnown
<1>4. /\ at[l] = 0 /\ at[p] = 0 /\ p # l /\ into[p] = {T.base}
      /\ Labels(T) = {l, p}
      /\ T.kind = "then" => into[l] = {}
      /\ T.kind = "arm" => "arms" \in Shapes
  BY <1>0, <1>1, <1>2, <1>3, TopFacts DEF FrameOK, Branching, Labels
<1>5. /\ phase' = phase /\ term' = "open" /\ CutScope
      /\ FallInto(l, Top.mark)
      /\ into' = [into EXCEPT ![l] = @ \cup FallEdge(Top.mark)]
      /\ at' = Place(at, p)
  BY <1>1, <1>2, <1>3 DEF Else, Restored, NextArm
<1>6. /\ into'[l] = into[l] \cup FallEdge(Top.mark)
      /\ into'[p] = {T.base} /\ at'[l] = 0
  BY <1>0, <1>2, <1>3, <1>4, <1>5, TopFacts DEF Place
<1>7. CASE Else
  <2>1. T.kind = "then" /\ flag' = T.base
    BY <1>1, <1>7 DEF Else, Restored, TopIs
  <2>2. PICK F : F = [T EXCEPT !.kind = "else", !.live = TRUE,
                               !.save = Outside(flag, Top.mark),
                               !.ret = (term = "ret")]
    OBVIOUS
  <2>3. /\ F \in FrameSet /\ F.kind = "else" /\ F.mark = T.mark
        /\ F.exit = l /\ F.base = T.base /\ F.save = Outside(flag, Top.mark)
        /\ F.ret = (term = "ret")
    BY <1>0, <1>2, <2>2, TopFacts DEF FrameSet, FrameKind
  <2>4. ctl' = Append(Abandoned(Pop), F) /\ Around(Abandoned(Pop))
    BY <1>0, <1>1, <1>7, <2>2, AroundPop DEF Else
  <2>5. Labels(F) = Labels(Top) \ {p}
    BY <1>1, <1>4, <2>3 DEF Labels, Branching
  <2>6. into'[l] \subseteq IF ~F.ret THEN {F.save} ELSE {}
    BY <1>4, <1>6, <2>1, <2>3 DEF FallEdge
  <2>7. FrameOK(F)'
    BY <1>6, <2>3, <2>6 DEF FrameOK, Branching
  <2>8. \A f \in into'[p] : Below(f, flag')
    BY <1>0, <1>1, <1>6, <2>1, TopFacts, BelowReflexive
  <2>9. \A i \in 1..Top.mark : /\ flag'[order[i]] # "out"
                               /\ F.base[order[i]] # "out"
                               /\ F.save[order[i]] # "out"
    BY <1>0, <1>1, <2>1, <2>3, TopFacts
  <2>10. l \in Labels(Top) /\ p \in Labels(Top) /\ F.mark = Top.mark
    BY <1>1, <1>4, <2>3
  <2> QED
    BY <1>0, <1>4, <1>5, <2>3, <2>4, <2>5, <2>7, <2>8, <2>9, <2>10, ClosedInv
<1>8. CASE NextArm
  <2>1. /\ T.kind = "arm" /\ flag' = Outside(flag, Top.mark)
        /\ AllAgree("arms", into[p], flag')
    BY <1>1, <1>3, <1>8 DEF NextArm, TopIs
  <2>2. PICK F : F = [T EXCEPT !.kind = "last"]
    OBVIOUS
  <2>3. /\ F \in FrameSet /\ F.kind = "last" /\ F.mark = T.mark
        /\ F.exit = l /\ F.base = T.base /\ F.save = T.save /\ ~F.live
    <3>1. ~T.live
      BY <1>0, <1>1, <2>1, TopFacts DEF FrameOK
    <3> QED
      BY <1>2, <2>2, <3>1 DEF FrameSet, FrameKind
  <2>4. ctl' = Append(Pop, F) /\ Around(Pop)
    BY <1>0, <1>1, <1>8, <2>2, AroundPop DEF NextArm
  <2>5. Labels(F) = Labels(Top) \ {p}
    BY <1>1, <1>4, <2>3 DEF Labels, Branching
  <2>7. FrameOK(F)'
    BY <1>4, <1>6, <2>1, <2>3 DEF FrameOK, Branching
  <2>8. \A f \in into'[p] : Below(f, flag')
    <3>1. flag' \in FlagMap /\ into'[p] = into[p] /\ "arms" \in Shapes
      BY <1>0, <1>4, <1>6, <2>1, TopFacts
    <3>2. ASSUME NEW f \in into[p] PROVE Below(f, flag')
      <4>1. Agrees("arms", f, flag')
        BY <2>1, <3>2 DEF AllAgree
      <4> QED
        BY <3>1, <4>1, AgreesBelow
    <3> QED
      BY <3>1, <3>2
  <2>9. \A i \in 1..Top.mark : /\ flag'[order[i]] # "out"
                               /\ F.base[order[i]] # "out"
                               /\ F.save[order[i]] # "out"
    BY <1>0, <1>1, <2>1, <2>3, TopFacts
  <2>10. l \in Labels(Top) /\ p \in Labels(Top) /\ F.mark = Top.mark
    BY <1>1, <1>4, <2>3
  <2> QED
    BY <1>0, <1>4, <1>5, <2>3, <2>4, <2>5, <2>7, <2>8, <2>9, <2>10, ClosedInv
<1> QED
  BY <1>7, <1>8

(* The end of an if, of a loop or of a match.                                *)
LEMMA EndInv ==
  ASSUME Disciplined, TypeInv, TypeInv', CompilerInv,
         EndIf \/ EndLoop \/ EndArms
  PROVE  CompilerInv'
<1>0. ctl # <<>> /\ phase = "compile" /\ Top.kind \in {"else", "loop", "last"}
  BY DEF EndIf, EndLoop, EndArms, TopIs
<1>1. PICK T \in FrameSet : T = Top
  BY <1>0, TopFacts
<1>2. PICK p \in DOMAIN at : p = T.exit
  BY <1>0, <1>1, TopFacts DEF FrameKnown
<1>3. at[p] = 0 /\ Labels(Top) = {p}
  BY <1>0, <1>1, <1>2, TopFacts DEF FrameOK, Branching, Labels
<1>4. /\ phase' = phase /\ term' = "open" /\ CutScope
      /\ at' = Place(at, p) /\ ctl' = Pop
  BY <1>1, <1>2 DEF EndIf, EndLoop, EndArms
<1>5. flag' \in FlagMap
  BY DEF TypeInv, TypeOK, ElabTypeOK
<1>6. CASE EndIf
  <2>1. /\ T.kind = "else" /\ flag' = Merged /\ FallInto(p, Top.mark)
        /\ into' = [into EXCEPT ![p] = @ \cup FallEdge(Top.mark)]
    BY <1>1, <1>2, <1>6 DEF EndIf, TopIs
  <2>2. /\ into'[p] = into[p] \cup FallEdge(Top.mark)
        /\ into[p] \subseteq IF ~T.ret THEN {T.save} ELSE {}
    BY <1>0, <1>1, <1>2, <2>1, TopFacts DEF FrameOK
  <2>3. PICK g \in FlagMap : g = Outside(flag, Top.mark)
    BY <1>0, TopFacts
  <2>4. PICK s \in FlagMap : s = T.save
    BY <1>0, <1>1, TopFacts
  <2>9. PICK b \in FlagMap : b = T.base
    BY <1>0, <1>1, TopFacts
  <2>5. flag' = IF T.ret /\ term = "ret" THEN (IF T.live THEN g ELSE b)
                ELSE IF T.ret THEN g
                ELSE IF term = "ret" THEN s ELSE Merge(s, g)
    BY <1>1, <2>1, <2>3, <2>4, <2>9 DEF Merged
  <2>6. \A f \in into'[p] : Below(f, flag')
    <3>1. Below(g, g) /\ Below(s, s)
      BY BelowReflexive
    <3>2. Below(s, Merge(s, g)) /\ Below(g, Merge(s, g))
      BY MergeBelow
    <3>3. ASSUME NEW f \in FallEdge(Top.mark) PROVE f = g /\ term = "open"
      BY <2>3, <3>3 DEF FallEdge
    <3>4. ASSUME NEW f \in into[p] PROVE f = s /\ ~T.ret
      BY <2>2, <2>4, <3>4
    <3> QED
      BY <2>2, <2>5, <3>1, <3>2, <3>3, <3>4
  <2>7. \A i \in 1..Top.mark : flag'[order[i]] # "out"
    <3>1. ASSUME NEW i \in 1..Top.mark PROVE flag'[order[i]] # "out"
      <4>1. g[order[i]] # "out" /\ s[order[i]] # "out" /\ b[order[i]] # "out"
        BY <1>0, <1>1, <2>3, <2>4, <2>9, TopFacts
      <4>2. order[i] \in Vars
        <5>1. order \in Seq(Vars) /\ Len(order) \in Nat
          BY FrameTypes DEF TypeInv, TypeOK, ElabTypeOK
        <5>2. Top.mark \in Nat /\ Top.mark <= Len(order)
          BY <1>0, TopFacts
        <5>3. i \in 1..Len(order)
          BY <5>1, <5>2
        <5> QED
          BY <5>1, <5>3, ElementOfSeq
      <4>3. Merge(s, g)[order[i]] # "out"
        BY <4>1, <4>2 DEF Merge, Worse
      <4> QED
        BY <2>5, <4>1, <4>3
    <3> QED
      BY <3>1
  <2> QED
    BY <1>0, <1>3, <1>4, <2>1, <2>6, <2>7, ClosedInv
<1>7. CASE EndArms
  <2>1. /\ T.kind = "last" /\ flag' = Outside(flag, Top.mark)
        /\ FallInto(p, Top.mark)
        /\ into' = [into EXCEPT ![p] = @ \cup FallEdge(Top.mark)]
        /\ AllAgree("arms", into'[p], flag')
    BY <1>1, <1>2, <1>7 DEF EndArms, TopIs
  <2>2. "arms" \in Shapes
    BY <1>0, <1>1, <2>1, TopFacts DEF FrameOK
  <2>3. ASSUME NEW f \in into'[p] PROVE Below(f, flag')
    BY <1>5, <2>1, <2>2, <2>3, AgreesBelow DEF AllAgree
  <2>4. \A i \in 1..Top.mark : flag'[order[i]] # "out"
    BY <1>0, <2>1, TopFacts
  <2> QED
    BY <1>0, <1>3, <1>4, <2>1, <2>3, <2>4, ClosedInv
<1>8. CASE EndLoop
  <2>1. PICK l \in DOMAIN at : l = T.head
    BY <1>0, <1>1, <1>8, TopFacts DEF FrameKnown, EndLoop, TopIs
  <2>2. /\ T.kind = "loop" /\ flag' = Outside(flag, Top.mark)
        /\ FallInto(l, Top.mark)
        /\ into' = [into EXCEPT ![l] = @ \cup FallEdge(Top.mark)]
        /\ AllAgree("loop", FallEdge(Top.mark), T.base)
        /\ AllAgree("loop", into[p], flag')
    BY <1>1, <1>2, <1>8, <2>1 DEF EndLoop, TopIs
  <2>3. "loop" \in Shapes /\ at[l] # 0 /\ StateAt(at[l]) = T.base
    BY <1>0, <1>1, <2>1, <2>2, TopFacts DEF FrameOK
  <2>4. T.base \in FlagMap
    BY <1>0, <1>1, TopFacts
  <2>5. ASSUME NEW f \in FallEdge(Top.mark) PROVE Below(f, StateAt(at[l]))
    <3>1. Agrees("loop", f, T.base)
      BY <2>2, <2>5 DEF AllAgree
    <3>2. Below(f, T.base)
      BY <2>3, <2>4, <3>1, AgreesBelow
    <3> QED
      BY <2>3, <3>2
  <2>6. p # l /\ into'[p] = into[p]
    BY <1>0, <1>3, <2>1, <2>2, <2>3, TopFacts
  <2>7. ASSUME NEW f \in into'[p] PROVE Below(f, flag')
    <3>1. Agrees("loop", f, flag')
      BY <2>2, <2>6, <2>7 DEF AllAgree
    <3> QED
      BY <1>5, <2>3, <3>1, AgreesBelow
  <2>8. \A i \in 1..Top.mark : flag'[order[i]] # "out"
    BY <1>0, <2>2, TopFacts
  <2> QED
    BY <1>0, <1>3, <1>4, <2>2, <2>3, <2>5, <2>7, <2>8, ClosedInv
<1> QED
  BY <1>6, <1>7, <1>8

(* A break or continue: one more state flows to a label of a loop.           *)
LEMMA LeaveInv ==
  ASSUME Disciplined, TypeInv, TypeInv', CompilerInv, NEW k \in 1..MaxDepth,
         Break(k) \/ Continue(k)
  PROVE  CompilerInv'
<1>1. /\ k \in DOMAIN ctl /\ phase = "compile" /\ term = "open"
      /\ UNCHANGED <<phase, flag, order, ctl, at>> /\ term' = "jump"
  BY DEF Break, Continue, Stmt
<1>2. PICK T \in FrameSet : T = ctl[k] /\ T.kind = "loop"
  BY FrameTypes DEF Break, Continue
<1>3. /\ FrameOK(T) /\ FrameKnown(T) /\ T.mark \in Nat /\ T.mark <= Len(order)
      /\ T.base \in FlagMap
  BY <1>1, <1>2, FrameTypes DEF CompilerInv, FrameInv, TypeInv, LabelsKnown, ScopesNest
<1>4. PICK s \in FlagMap : s = Outside(flag, T.mark)
  <2>1. flag \in FlagMap
    BY DEF TypeInv, TypeOK, ElabTypeOK
  <2> QED
    BY <2>1, OutsideType
<1>5. PICK l \in DOMAIN at :
        /\ l \in {T.exit, T.head} /\ l = IF Break(k) THEN T.exit ELSE T.head
        /\ Emit(Jump(l, Drops(T.mark)))
        /\ into' = [into EXCEPT ![l] = @ \cup {s}]
  <2>1. CASE Break(k)
    BY <1>2, <1>3, <1>4, <2>1 DEF Break, FrameKnown
  <2>2. CASE ~Break(k)
    BY <1>2, <1>3, <1>4, <2>2 DEF Continue, FrameKnown
  <2> QED
    BY <2>1, <2>2
<1>6. PICK i \in Inst : /\ i = Jump(l, Drops(T.mark)) /\ i.op = "jmp" /\ i.to = l
                        /\ Legal(i, flag) /\ Post(i, flag) = s
  BY <1>3, <1>4, JumpLegal DEF CompilerInv
<1>7. /\ DOMAIN at = DOMAIN into /\ into'[l] = into[l] \cup {s}
      /\ \A m \in DOMAIN at : m # l => into'[m] = into[m]
  BY <1>5, LenProperties DEF TypeInv, TypeOK, ElabTypeOK, LabelsKnown
<1>8. CodeInv'
  <2>1. \A m \in DOMAIN at : into[m] \subseteq into'[m]
    BY <1>7
  <2> QED
    BY <1>1, <1>5, <1>6, <1>7, <2>1, CodeEmit DEF CompilerInv
<1>9. Keeps
  BY <1>5, <1>6, EmitKeeps DEF CompilerInv
<1>10. ScopeInv'
  BY <1>1, ScopeKept DEF CompilerInv
<1>11. at[l] # 0 => Below(s, StateAt(at[l]))
  <2>1. CASE Break(k)
    BY <1>2, <1>3, <1>5, <2>1 DEF FrameOK
  <2>2. CASE Continue(k)
    <3>1. Agrees("loop", s, T.base) /\ "loop" \in Shapes
      BY <1>2, <1>3, <1>4, <2>2 DEF Continue, FrameOK
    <3>2. Below(s, T.base)
      BY <1>3, <3>1, AgreesBelow
    <3>3. l = T.head \/ l = T.exit
      BY <1>5
    <3> QED
      BY <1>2, <1>3, <3>2, <3>3 DEF FrameOK
  <2> QED
    BY <2>1, <2>2
<1>12. LabelInv'
  <2>1. \A m \in DOMAIN at : at[m] # 0 =>
          \A f \in into'[m] : f \in into[m] \/ Below(f, StateAt(at[m]))
    BY <1>7, <1>11
  <2> QED
    BY <1>1, <1>9, <2>1, LabelsStay DEF CompilerInv
<1>13. FrameInv'
  <2>1. \A m \in DOMAIN at :
          \/ into'[m] = into[m] \/ at[m] # 0
          \/ \E j \in DOMAIN ctl : ctl[j].kind = "loop" /\ m = ctl[j].exit
    BY <1>1, <1>2, <1>3, <1>5, <1>7 DEF FrameOK
  <2> QED
    BY <1>1, <1>9, <2>1, FramesStay DEF CompilerInv
<1> QED
  BY <1>8, <1>10, <1>12, <1>13 DEF CompilerInv

(* Every step of the compiler keeps its invariant.                           *)
LEMMA CompilerStep ==
  ASSUME Disciplined, TypeInv, TypeInv', CompilerInv, ElabNext
  PROVE  CompilerInv'
<1>1. ASSUME NEW v \in Vars, LetNew(v) \/ LetLit(v) \/ AssignNew(v) \/ AssignLit(v)
      PROVE  CompilerInv'
  BY <1>1, SimpleStatementInv
<1>2. ASSUME NEW v \in Vars, NEW u \in Vars, LetMove(v, u) \/ AssignMove(v, u)
      PROVE  CompilerInv'
  BY <1>2, SimpleStatementInv
<1>3. ASSUME NEW v \in Vars, NEW u \in Vars, LetAgain(v, u)
      PROVE  CompilerInv'
  BY <1>3 DEF LetAgain, Disciplined
<1>4. ASSUME NEW u \in Vars, UseVar(u) \/ Consume(u) \/ Discard(u)
      PROVE  CompilerInv'
  BY <1>4, SimpleStatementInv
<1>5. ASSUME NEW u \in Vars, UseMoved(u) PROVE CompilerInv'
  BY <1>5, FinishInv
<1>6. ASSUME NEW u \in Vars \cup {NoVar}, Return(u) PROVE CompilerInv'
  BY <1>6, FinishInv
<1>7. CASE OpenBlock \/ CloseBlock
  BY <1>7, BlockInv
<1>8. CASE OpenIf \/ OpenLoop \/ OpenWhile \/ OpenArms
  BY <1>8, OpenInv
<1>9. CASE Else \/ NextArm
  BY <1>9, BranchInv
<1>10. CASE EndIf \/ EndLoop \/ EndArms
  BY <1>10, EndInv
<1>11. ASSUME NEW k \in 1..MaxDepth, Break(k) \/ Continue(k) PROVE CompilerInv'
  BY <1>11, LeaveInv
<1>12. CASE Finish
  BY <1>12, FinishInv
<1> QED
  BY <1>1, <1>2, <1>3, <1>4, <1>5, <1>6, <1>7, <1>8, <1>9, <1>10, <1>11, <1>12
     DEF ElabNext

-----------------------------------------------------------------------------
(* Execution                                                                *)

(* What it means for an ownership state to be true, variable by variable.    *)
LEMMA SoundUse ==
  ASSUME NEW f, SoundIn(owner, env, f), NEW v \in Vars
  PROVE  /\ f[v] \in {"own", "param"} => Owns(v)
         /\ f[v] \in {"own", "param", "lent"} => Valid(v)
         /\ f[v] = "lent" => Owns(v) \/ env[v] = Static
  BY DEF SoundIn, Owns, Valid

(* The drops of a scope end: each is legal, and what stays in scope keeps    *)
(* what it owns.                                                             *)
LEMMA SoundDrops ==
  ASSUME TypeInv, NEW f \in FlagMap, SoundIn(owner, env, f),
         NEW d \in DropList, LegalDrops(d, f)
  PROVE  /\ DropsFine(d)
         /\ SoundIn(AfterDrops(d), env, OutOf(d, f))
<1>1. \A i \in DOMAIN d.vs : d.vs[i] \in Vars
  BY ElementOfSeq, LenProperties DEF DropList
<1>2. DropsFine(d)
  BY <1>1, SoundUse DEF LegalDrops, DropsFine, Called
<1>3. ASSUME NEW v \in Vars, OwnsIn(owner, env, v), OutOf(d, f)[v] # "out"
      PROVE  OwnsIn(AfterDrops(d), env, v)
  BY <1>3 DEF OutOf, OwnsIn, AfterDrops
<1> QED
  BY <1>2, <1>3 DEF SoundIn, OutOf

(* A value that a variable gets or gives leaves the others alone.            *)
LEMMA StoreSound ==
  ASSUME TypeInv, NEW f \in FlagMap, SoundIn(owner, env, f), Running,
         Legal(Cur, f), StepLit \/ (\E c \in Cells : StepNew(c))
  PROVE  /\ status' = "running" /\ pc' = pc + 1
         /\ SoundIn(owner', env', Post(Cur, f))
<1>1. /\ Cur \in Inst /\ Cur.v \in Vars /\ Cur.op \in {"new", "lit"}
      /\ env \in [Vars -> Cells \cup {Static, Unset}] /\ Static \notin Cells
  BY CurTypes, OperandTypes, ExecAssumption
     DEF TypeInv, TypeOK, ExecTypeOK, StepLit, StepNew, At
<1>2. Cur.old => Valid(Cur.v)
  BY <1>1, SoundUse DEF Legal
<1>3. ASSUME NEW c \in Cells, StepNew(c)
      PROVE  /\ status' = "running" /\ pc' = pc + 1
             /\ SoundIn(owner', env', Post(Cur, f))
  <2>1. /\ env' = [env EXCEPT ![Cur.v] = c] /\ c \in Fresh
        /\ owner' = [d \in Cells |-> IF d = c THEN Cur.v
                                     ELSE IF d \in Old(Cur.v)
                                            THEN Overwritten(Cur)
                                            ELSE owner[d]]
        /\ status' = "running" /\ pc' = pc + 1
    BY <1>2, <1>3 DEF StepNew, Next1, Goto, Running
  <2>2. Post(Cur, f) = [f EXCEPT ![Cur.v] = "own"]
    BY <1>3 DEF StepNew, At, Post
  <2>3. OwnsIn(owner', env', Cur.v)
    BY <1>1, <2>1 DEF OwnsIn
  <2>4. ASSUME NEW w \in Vars, w # Cur.v
        PROVE  /\ OwnsIn(owner, env, w) => OwnsIn(owner', env', w)
               /\ env'[w] = env[w] /\ Post(Cur, f)[w] = f[w]
    BY <1>1, <2>1, <2>2, <2>4 DEF OwnsIn, Fresh, Old, Owns, FlagMap
  <2>5. Post(Cur, f)[Cur.v] = "own"
    BY <1>1, <2>2 DEF FlagMap
  <2> QED
    BY <2>1, <2>3, <2>4, <2>5 DEF SoundIn
<1>4. CASE StepLit
  <2>1. /\ env' = [env EXCEPT ![Cur.v] = Static]
        /\ owner' = [d \in Cells |-> IF d \in Old(Cur.v)
                                       THEN Overwritten(Cur)
                                       ELSE owner[d]]
        /\ status' = "running" /\ pc' = pc + 1
    BY <1>2, <1>4 DEF StepLit, Next1, Goto, Running
  <2>2. Post(Cur, f) = [f EXCEPT ![Cur.v] = "lent"]
    BY <1>4 DEF StepLit, At, Post
  <2>3. env'[Cur.v] = Static
    BY <1>1, <2>1
  <2>4. ASSUME NEW w \in Vars, w # Cur.v
        PROVE  /\ OwnsIn(owner, env, w) => OwnsIn(owner', env', w)
               /\ env'[w] = env[w] /\ Post(Cur, f)[w] = f[w]
    BY <1>1, <2>1, <2>2, <2>4 DEF OwnsIn, Old, Owns, FlagMap
  <2>5. Post(Cur, f)[Cur.v] = "lent"
    BY <1>1, <2>2 DEF FlagMap
  <2> QED
    BY <2>1, <2>3, <2>4, <2>5 DEF SoundIn
<1> QED
  BY <1>3, <1>4

LEMMA MoveSound ==
  ASSUME TypeInv, NEW f \in FlagMap, SoundIn(owner, env, f), Running,
         Legal(Cur, f), StepMov
  PROVE  /\ status' = "running" /\ pc' = pc + 1
         /\ SoundIn(owner', env', Post(Cur, f))
<1>1. PICK v \in Vars, u \in Vars : v = Cur.v /\ u = Cur.src
  BY CurTypes, OperandTypes DEF StepMov, At
<1>2. /\ env \in [Vars -> Cells \cup {Static, Unset}] /\ Static \notin Cells
      /\ owner \in [Cells -> Vars \cup {Released, Lost}]
  BY ExecAssumption DEF TypeInv, TypeOK, ExecTypeOK
<1>3. Valid(u) /\ (Cur.old => Valid(v)) /\ (f[u] \in {"own", "param"} => Owns(u))
  BY <1>1, SoundUse DEF Legal, StepMov, At
<1>4. /\ env' = [env EXCEPT ![v] = env[u]]
      /\ owner' = [d \in Cells |-> IF d = env[u] THEN v
                                   ELSE IF d \in Old(v)
                                          THEN Overwritten(Cur)
                                          ELSE owner[d]]
      /\ status' = "running" /\ pc' = pc + 1
  BY <1>1, <1>3 DEF StepMov, Next1, Goto, Running
<1>5. PICK g : /\ g = Post(Cur, f)
               /\ g = [f EXCEPT ![u] = "moved",
                         ![v] = IF f[u] = "lent" THEN "lent" ELSE "own"]
  BY <1>1 DEF StepMov, At, Post
<1>6. f[u] \in {"own", "param", "lent"}
  BY <1>1 DEF Legal, StepMov, At
<1>7. ASSUME NEW w \in Vars, w # v, w # u
      PROVE  /\ OwnsIn(owner, env, w) => OwnsIn(owner', env', w)
             /\ env'[w] = env[w] /\ g[w] = f[w]
  BY <1>2, <1>3, <1>4, <1>5, <1>7 DEF OwnsIn, Old, Owns, Valid, FlagMap
<1>8. /\ g[v] = "own" => Owns(u)
      /\ g[v] \in {"own", "lent"} /\ (u # v => g[u] = "moved")
  BY <1>3, <1>5, <1>6 DEF FlagMap
<1>9. /\ Owns(u) => OwnsIn(owner', env', v)
      /\ env[u] = Static => env'[v] = Static
  BY <1>2, <1>4 DEF Owns, OwnsIn
<1>10. ASSUME NEW w \in Vars
       PROVE  /\ g[w] \in {"own", "param"} => OwnsIn(owner', env', w)
              /\ g[w] = "lent" => OwnsIn(owner', env', w) \/ env'[w] = Static
  <2>1. CASE w = v
    BY <1>3, <1>8, <1>9, <2>1 DEF Valid
  <2>2. CASE w # v /\ w = u
    BY <1>8, <2>2
  <2>3. CASE w # v /\ w # u
    BY <1>7, <2>3 DEF SoundIn
  <2> QED
    BY <2>1, <2>2, <2>3
<1> QED
  BY <1>4, <1>5, <1>10 DEF SoundIn

LEMMA GiveSound ==
  ASSUME TypeInv, NEW f \in FlagMap, SoundIn(owner, env, f), Running,
         Legal(Cur, f), StepUse \/ StepGive \/ StepDrop
  PROVE  /\ status' = "running" /\ pc' = pc + 1
         /\ SoundIn(owner', env', Post(Cur, f))
<1>1. PICK v \in Vars : v = Cur.v
  BY CurTypes, OperandTypes DEF StepUse, StepGive, StepDrop, At
<1>2. /\ env \in [Vars -> Cells \cup {Static, Unset}] /\ Static \notin Cells
      /\ owner \in [Cells -> Vars \cup {Released, Lost}]
  BY ExecAssumption DEF TypeInv, TypeOK, ExecTypeOK
<1>3. CASE StepUse
  <2>1. Valid(v) /\ Post(Cur, f) = f
    BY <1>1, <1>3, SoundUse DEF Legal, StepUse, At, Post
  <2> QED
    BY <1>1, <1>3, <2>1 DEF StepUse, Next1, Goto, Running
<1>4. CASE StepGive \/ StepDrop
  <2>1. /\ StepGive => Valid(v)
        /\ StepDrop => Owns(v)
        /\ Post(Cur, f) = [f EXCEPT ![v] = "moved"]
    BY <1>1, <1>4, SoundUse DEF Legal, StepGive, StepDrop, At, Post
  <2>2. /\ env' = env /\ status' = "running" /\ pc' = pc + 1
        /\ owner' = [d \in Cells |-> IF d = env[v] THEN Released ELSE owner[d]]
        /\ Valid(v)
    <3>1. CASE StepGive
      BY <1>1, <2>1, <3>1 DEF StepGive, Next1, Goto, Running
    <3>2. CASE StepDrop
      <4>1. Valid(v)
        BY <2>1, <3>2 DEF Valid
      <4> QED
        BY <1>1, <3>2, <4>1 DEF StepDrop, Next1, Goto, Running
    <3> QED
      BY <1>4, <3>1, <3>2
  <2>3. ASSUME NEW w \in Vars, w # v
        PROVE  /\ OwnsIn(owner, env, w) => OwnsIn(owner', env', w)
               /\ Post(Cur, f)[w] = f[w]
    BY <1>2, <2>1, <2>2, <2>3 DEF OwnsIn, Owns, Valid, FlagMap
  <2>4. Post(Cur, f)[v] = "moved"
    BY <2>1 DEF FlagMap
  <2> QED
    BY <2>2, <2>3, <2>4 DEF SoundIn
<1> QED
  BY <1>3, <1>4

(* No instruction that is legal in a true state fails, and the state it      *)
(* leaves behind is true.                                                    *)
LEMMA StepSound ==
  ASSUME TypeInv, NEW f \in FlagMap, SoundIn(owner, env, f),
         Legal(Cur, f), ExecStep
  PROVE  /\ status' \in {"running", "returned"}
         /\ status' = "running" =>
              /\ SoundIn(owner', env', Post(Cur, f))
              /\ \/ Cur.op \notin {"jmp", "ret"} /\ pc' = pc + 1
                 \/ Cur.op \in {"br", "jmp"} /\ pc' = at[Cur.to]
<1>1. Running
  BY DEF ExecStep, StepNew, StepLit, StepMov, StepUse, StepGive, StepDrop,
         StepLeave, StepBranch, StepJump, StepRet, At
<1>2. Cur \in Inst /\ (Cur.op \in {"leave", "jmp", "ret"} => Cur.d \in DropList)
  BY <1>1, CurTypes, OperandTypes
<1>3. CASE StepLit \/ (\E c \in Cells : StepNew(c))
  <2>1. Cur.op \in {"new", "lit"}
    BY <1>3 DEF StepLit, StepNew, At
  <2> QED
    BY <1>1, <1>3, <2>1, StoreSound
<1>4. CASE StepMov
  <2>1. Cur.op = "mov"
    BY <1>4 DEF StepMov, At
  <2> QED
    BY <1>1, <1>4, <2>1, MoveSound
<1>5. CASE StepUse \/ StepGive \/ StepDrop
  <2>1. Cur.op \in {"use", "give", "drop"}
    BY <1>5 DEF StepUse, StepGive, StepDrop, At
  <2> QED
    BY <1>1, <1>5, <2>1, GiveSound
<1>6. CASE StepLeave \/ StepJump
  <2>1. Cur.op \in {"leave", "jmp"}
    BY <1>6 DEF StepLeave, StepJump, At
  <2>2. LegalDrops(Cur.d, f) /\ Post(Cur, f) = OutOf(Cur.d, f)
    BY <2>1 DEF Legal, Post
  <2>3. DropsFine(Cur.d) /\ SoundIn(AfterDrops(Cur.d), env, OutOf(Cur.d, f))
    BY <1>2, <2>1, <2>2, SoundDrops
  <2>4. owner' = AfterDrops(Cur.d) /\ env' = env /\ status' = status
    BY <1>6, <2>3 DEF StepLeave, StepJump, Next1, Goto
  <2>5. \/ Cur.op = "leave" /\ pc' = pc + 1
        \/ Cur.op = "jmp" /\ pc' = at[Cur.to]
    BY <1>6, <2>3 DEF StepLeave, StepJump, At, Next1, Goto
  <2> QED
    BY <1>1, <2>2, <2>3, <2>4, <2>5 DEF Running
<1>7. CASE StepBranch
  <2>1. /\ Cur.op = "br" /\ env' = env /\ owner' = owner /\ status' = "running"
        /\ pc' = pc + 1 \/ pc' = at[Cur.to]
    BY <1>1, <1>7 DEF StepBranch, At, Next1, Goto, Running
  <2>2. Post(Cur, f) = f
    BY <2>1 DEF Post
  <2> QED
    BY <2>1, <2>2
<1>8. CASE StepRet
  <2>1. /\ Cur.op = "ret" /\ LegalDrops(Cur.d, f)
        /\ Cur.v # NoVar => f[Cur.v] \in {"own", "param", "lent"}
    BY <1>8 DEF StepRet, At, Legal
  <2>2. Cur.v # NoVar => Valid(Cur.v)
    BY <1>2, <2>1, OperandTypes, SoundUse
  <2>3. DropsFine(Cur.d)
    BY <1>2, <2>1, SoundDrops
  <2> QED
    BY <1>8, <2>2, <2>3 DEF StepRet
<1> QED
  BY <1>3, <1>4, <1>5, <1>6, <1>7, <1>8 DEF ExecStep

(* The state the code flows to is recorded there, and it claims no more than  *)
(* what the executed instruction leaves behind.                              *)
LEMMA ExecInvStep ==
  ASSUME TypeInv, CompilerInv, ExecInv, ExecStep, UNCHANGED elabVars
  PROVE  ExecInv'
<1>1. /\ phase = "ready" /\ status = "running" /\ pc \in DOMAIN code
      /\ Running
  BY DEF ExecStep, StepNew, StepLit, StepMov, StepUse, StepGive, StepDrop,
         StepLeave, StepBranch, StepJump, StepRet, At, Running
<1>2. /\ phase' = phase /\ code' = code /\ ann' = ann
  BY DEF elabVars
<1>3. /\ Len(ann) = Len(code) /\ Len(code) \in Nat /\ DOMAIN code = 1..Len(code)
      /\ code \in Seq(Inst) /\ ann \in Seq(FlagMap) /\ pc \in Nat
  BY LenProperties
     DEF TypeInv, TypeOK, ElabTypeOK, ExecTypeOK, CompilerInv, CodeInv
<1>4. PICK f \in FlagMap : f = ann[pc]
  BY <1>1, <1>3, ElementOfSeq
<1>5. SoundIn(owner, env, f) /\ InstOK(pc) /\ Cur = code[pc]
  BY <1>1, <1>4 DEF ExecInv, CompilerInv, CodeInv, Cur
<1>6. /\ status' \in {"running", "returned"}
      /\ status' = "running" =>
           /\ SoundIn(owner', env', Post(Cur, f))
           /\ \/ Cur.op \notin {"jmp", "ret"} /\ pc' = pc + 1
              \/ Cur.op \in {"br", "jmp"} /\ pc' = at[Cur.to]
  BY <1>4, <1>5, StepSound DEF InstOK
<1>7. ASSUME status' = "running", Cur.op \notin {"jmp", "ret"}, pc' = pc + 1
      PROVE  pc' \in DOMAIN code /\ SoundIn(owner', env', ann[pc'])
  <2>1. FallsTo(pc)
    BY <1>5, <1>7 DEF InstOK
  <2>2. pc + 1 \in 1..Len(code) /\ StateAt(pc + 1) = ann[pc + 1]
    BY <1>1, <1>3, <2>1 DEF FallsTo, StateAt
  <2>3. Below(Post(Cur, f), ann[pc + 1])
    BY <1>4, <1>5, <2>1, <2>2 DEF FallsTo
  <2> QED
    BY <1>3, <1>6, <1>7, <2>2, <2>3, SoundBelow
<1>8. ASSUME status' = "running", Cur.op \in {"br", "jmp"}, pc' = at[Cur.to]
      PROVE  pc' \in DOMAIN code /\ SoundIn(owner', env', ann[pc'])
  <2>1. PICK l \in DOMAIN at : l = Cur.to /\ at[l] \in Nat
    BY <1>1, <1>8, CurTypes
  <2>2. Post(Cur, f) \in into[l]
    BY <1>4, <1>5, <1>8, <2>1 DEF InstOK, JumpsTo
  <2>3. DOMAIN ctl = {} /\ term # "open"
    BY <1>1, EmptySeq, LenProperties DEF CompilerInv, CodeInv
  <2>4. at[l] # 0 /\ at[l] <= Len(code)
    BY <1>3, <2>1, <2>3 DEF CompilerInv, LabelInv
  <2>5. Below(Post(Cur, f), ann[at[l]])
    BY <2>2, <2>4 DEF CompilerInv, LabelInv, StateAt
  <2>6. at[l] \in 1..Len(code) /\ pc' = at[l]
    BY <1>3, <1>8, <2>1, <2>4
  <2> QED
    BY <1>3, <1>6, <1>8, <2>5, <2>6, SoundBelow
<1>9. status' = "running" => pc' \in DOMAIN code' /\ SoundIn(owner', env', ann'[pc'])
  BY <1>2, <1>6, <1>7, <1>8
<1> QED
  BY <1>1, <1>2, <1>6, <1>9 DEF ExecInv

(* The machine waits until the code is complete.                             *)
LEMMA ExecInvWaits ==
  ASSUME TypeInv, CompilerInv', ExecInv, ElabNext, UNCHANGED execVars
  PROVE  ExecInv'
<1>1. phase = "compile" /\ (phase' = "ready" => Finish)
  BY DEF ElabNext, LetNew, LetLit, LetMove, LetAgain, AssignNew, AssignLit,
         AssignMove, UseVar, Consume, Discard, UseMoved, Return, OpenBlock,
         CloseBlock, OpenIf, Else, EndIf, OpenLoop, OpenWhile, EndLoop, Break,
         Continue, OpenArms, NextArm, EndArms, Finish, Stmt, Open, TopIs
<1>2. /\ pc' = 1 /\ status' = "running" /\ owner' = owner /\ env' = env
      /\ SoundIn(owner, env, StartFlag)
  BY <1>1 DEF ExecInv, execVars
<1>3. ASSUME phase' = "ready"
      PROVE  1 \in DOMAIN code' /\ ann'[1] = StartFlag
  <2>1. term' = "ret"
    BY <1>1, <1>3 DEF Finish
  <2>2. Len(code') > 0 /\ StateAt(1)' = StartFlag
    BY <2>1 DEF CompilerInv, CodeInv
  <2>3. code' \in Seq(Inst)
    BY <1>1, <1>3, FinishTypes DEF TypeInv, TypeOK, ElabTypeOK
  <2>4. Len(code') \in Nat /\ DOMAIN code' = 1..Len(code')
    BY <2>3, LenProperties
  <2>5. 1 <= Len(code')
    BY <2>2, <2>4
  <2> QED
    BY <2>2, <2>4, <2>5 DEF StateAt
<1> QED
  BY <1>2, <1>3 DEF ExecInv

-----------------------------------------------------------------------------
(* The theorems                                                             *)

LEMMA InitInv == Init => IInv
<1> SUFFICES ASSUME Init PROVE IInv
  OBVIOUS
<1>1. TypeInv
  BY InitTypes
<1>2. /\ code = <<>> /\ ann = <<>> /\ at = <<>> /\ ctl = <<>> /\ order = <<>>
      /\ flag = StartFlag /\ term = "open" /\ phase = "compile"
  BY DEF Init, ElabInit, StartFlag
<1>3. /\ DOMAIN code = {} /\ Len(code) = 0 /\ Len(ann) = 0 /\ DOMAIN at = {}
      /\ DOMAIN ctl = {} /\ DOMAIN order = {} /\ Len(order) = 0
  BY <1>2, EmptySeq, LenProperties
<1>4. CodeInv
  BY <1>2, <1>3 DEF CodeInv, StateAt
<1>5. LabelInv /\ FrameInv
  BY <1>3 DEF LabelInv, FrameInv
<1>6. ScopeInv
  BY <1>3 DEF ScopeInv, InScope
<1>7. ExecInv
  <2>1. ASSUME NEW v \in Vars, StartFlag[v] \in {"own", "param"}
        PROVE  OwnsIn(owner, env, v)
    <3>1. v \in Params
      BY <2>1 DEF StartFlag
    <3>2. env[v] \in Cells /\ owner[env[v]] = CHOOSE u \in Params : env[u] = env[v]
      BY <3>1 DEF Init, ExecInit
    <3>3. (CHOOSE u \in Params : env[u] = env[v]) = v
      BY <3>1 DEF Init, ExecInit
    <3> QED
      BY <3>2, <3>3 DEF OwnsIn
  <2>2. \A v \in Vars : StartFlag[v] # "lent"
    BY DEF StartFlag
  <2>3. SoundIn(owner, env, StartFlag)
    BY <2>1, <2>2 DEF SoundIn
  <2> QED
    BY <1>2, <2>3 DEF ExecInv, Init, ExecInit
<1> QED
  BY <1>1, <1>4, <1>5, <1>6, <1>7 DEF IInv, CompilerInv

LEMMA NextInv ==
  ASSUME Disciplined, IInv, [Next]_vars
  PROVE  IInv'
<1>1. TypeInv /\ CompilerInv /\ ExecInv /\ TypeInv'
  BY NextTypes DEF IInv
<1>2. CASE ElabNext /\ UNCHANGED execVars
  <2>1. CompilerInv'
    BY <1>1, <1>2, CompilerStep
  <2>2. ExecInv'
    BY <1>1, <1>2, <2>1, ExecInvWaits
  <2> QED
    BY <1>1, <2>1, <2>2 DEF IInv
<1>3. CASE ExecStep /\ UNCHANGED elabVars
  <2>1. CompilerInv'
    BY <1>1, <1>3
       DEF elabVars, CompilerInv, CodeInv, LabelInv, ScopeInv, FrameInv,
           InstOK, FallsTo, JumpsTo, StateAt, FrameOK, InScope
  <2>2. ExecInv'
    BY <1>1, <1>3, ExecInvStep
  <2> QED
    BY <1>1, <2>1, <2>2 DEF IInv
<1>4. CASE UNCHANGED vars
  BY <1>1, <1>4
     DEF vars, elabVars, execVars, IInv, CompilerInv, CodeInv, LabelInv,
         ScopeInv, FrameInv, InstOK, FallsTo, JumpsTo, StateAt, FrameOK,
         InScope, ExecInv
<1> QED
  BY <1>2, <1>3, <1>4 DEF Next

(* For disciplined programs the compiler's states and the emitted code stay  *)
(* consistent, and the state recorded at each instruction is true when it    *)
(* is executed.                                                              *)
THEOREM Invariance ==
  ASSUME Disciplined
  PROVE  Spec => []IInv
<1>1. Init => IInv
  BY InitInv
<1>2. IInv /\ [Next]_vars => IInv'
  BY NextInv
<1> QED
  BY <1>1, <1>2, PTL DEF Spec

(* No path of the code emitted for a disciplined program drops a value that  *)
(* was dropped, moved or handed over before.                                 *)
THEOREM DropsOnce ==
  ASSUME Disciplined
  PROVE  Spec => []NoDoubleDrop
<1>1. IInv => NoDoubleDrop
  BY DEF IInv, ExecInv, NoDoubleDrop
<1> QED
  BY <1>1, Invariance, PTL

(* No path reads a variable whose value is gone.                             *)
THEOREM ReadsLive ==
  ASSUME Disciplined
  PROVE  Spec => []NoStaleUse
<1>1. IInv => NoStaleUse
  BY DEF IInv, ExecInv, NoStaleUse
<1> QED
  BY <1>1, Invariance, PTL

(* Every label a path reaches is placed and control stays in the code.       *)
THEOREM NeverRunsOff ==
  ASSUME Disciplined
  PROVE  Spec => []StaysInCode
<1>1. IInv => StaysInCode
  BY DEF IInv, ExecInv, StaysInCode
<1> QED
  BY <1>1, Invariance, PTL

(* What the compiler believed of a variable when it emitted an instruction   *)
(* holds of the heap on every path to that instruction.                      *)
THEOREM BeliefsHold ==
  ASSUME Disciplined
  PROVE  Spec => []FlagsSound
<1>1. IInv => FlagsSound
  BY DEF IInv, ExecInv, FlagsSound
<1> QED
  BY <1>1, Invariance, PTL

-----------------------------------------------------------------------------
(* Leaks: the code forgets nothing.  The lemmas follow those on IInv, with  *)
(* the converse of Below: a state retains the claims of another.            *)

LEMMA RetainsSelf ==
  ASSUME NEW f
  PROVE  Retains(f, f)
  BY DEF Retains

(* One more instruction, which forgets nothing of the current state.         *)
LEMMA ExactEmit ==
  ASSUME TypeInv, CodeInv, CodeExact, NEW i \in Inst, Emit(i), Complete(i, flag),
         i.op \notin {"jmp", "ret"} => Retains(Post(i, flag), flag')
  PROVE  CodeExact'
<1>0. PICK n \in Nat : n = Len(code)
  BY StateAtEmit
<1>1. /\ Len(code') = n + 1 /\ n \in Nat
      /\ DOMAIN code = 1..n /\ DOMAIN code' = 1..(n + 1)
      /\ code'[n + 1] = i /\ ann'[n + 1] = flag
      /\ \A j \in 1..n : code'[j] = code[j] /\ ann'[j] = ann[j]
      /\ \A j \in 1..(n + 1) : ann'[j] = StateAt(j)
      /\ \A j \in Nat : j <= n + 1 => StateAt(j)' = ann'[j]
  BY <1>0, StateAtEmit
<1>2. ASSUME NEW j \in 1..n
      PROVE  /\ Complete(code'[j], ann'[j])
             /\ code'[j].op \notin {"jmp", "ret"} =>
                  Retains(Post(code'[j], ann'[j]), StateAt(j + 1)')
  <2>1. /\ Complete(code[j], ann[j])
        /\ code[j].op \notin {"jmp", "ret"} =>
             Retains(Post(code[j], ann[j]), StateAt(j + 1))
    BY <1>1 DEF CodeExact
  <2>2. j + 1 \in 1..(n + 1) /\ j + 1 <= n + 1 /\ j + 1 \in Nat
    BY <1>1
  <2>3. StateAt(j + 1)' = StateAt(j + 1)
    BY <1>1, <2>2
  <2> QED
    BY <1>1, <2>1, <2>3
<1>3. StateAt(n + 1 + 1)' = flag'
  <2>1. ~(n + 1 + 1 <= Len(code'))
    BY <1>1
  <2> QED
    BY <2>1 DEF StateAt
<1>4. ASSUME NEW j \in DOMAIN code'
      PROVE  /\ Complete(code'[j], ann'[j])
             /\ code'[j].op \notin {"jmp", "ret"} =>
                  Retains(Post(code'[j], ann'[j]), StateAt(j + 1)')
  <2>1. CASE j \in 1..n
    BY <1>2, <2>1
  <2>2. CASE j = n + 1
    BY <1>1, <1>3, <2>2
  <2> QED
    BY <1>1, <2>1, <2>2
<1> QED
  BY <1>4, Zenon DEF CodeExact, Complete, CompleteDrops, Claims, Retains, Post, OutOf

(* Nothing is emitted.                                                       *)
LEMMA ExactStay ==
  ASSUME TypeInv, CodeInv, CodeExact, UNCHANGED <<code, ann>>,
         term # "open" \/ flag' = flag
  PROVE  CodeExact'
<1>1. /\ Len(code) \in Nat /\ DOMAIN code = 1..Len(code)
      /\ term # "open" => Len(code) > 0 /\ code[Len(code)].op \in {"jmp", "ret"}
  BY LenProperties DEF CodeInv, TypeInv, TypeOK, ElabTypeOK
<1>2. ASSUME NEW j \in DOMAIN code, code[j].op \notin {"jmp", "ret"}
      PROVE  StateAt(j + 1)' = StateAt(j + 1)
  <2>1. CASE j < Len(code)
    <3>1. j + 1 <= Len(code)
      BY <1>1, <2>1
    <3> QED
      BY <3>1 DEF StateAt
  <2>2. CASE j = Len(code)
    <3>1. flag' = flag
      BY <1>1, <1>2, <2>2
    <3> QED
      BY <3>1 DEF StateAt
  <2> QED
    BY <1>1, <2>1, <2>2
<1>3. \A j \in DOMAIN code' :
        /\ Complete(code'[j], ann'[j])
        /\ code'[j].op \notin {"jmp", "ret"} =>
             Retains(Post(code'[j], ann'[j]), StateAt(j + 1)')
  BY <1>2 DEF CodeExact
<1> QED
  BY <1>3, Zenon DEF CodeExact, Complete, CompleteDrops, Claims, Retains, Post, OutOf

(* The labels: each is as it was, not placed, without edges, or entered by   *)
(* states that its own retains.                                              *)
LEMMA ExactLabels ==
  ASSUME TypeInv, LabelExact, Keeps,
         \A m \in DOMAIN at' :
           \/ at'[m] = 0
           \/ into'[m] = {}
           \/ /\ m \in DOMAIN at /\ at'[m] = at[m]
              /\ \A f \in into'[m] : f \in into[m] \/ Retains(f, StateAt(at[m]))
           \/ \A f \in into'[m] : Retains(f, StateAt(at[m])')
  PROVE  LabelExact'
<1>1. ASSUME NEW m \in DOMAIN at', at'[m] # 0, NEW f \in into'[m]
      PROVE  Retains(f, StateAt(at[m])')
  <2>1. CASE /\ m \in DOMAIN at /\ at'[m] = at[m]
             /\ \A g \in into'[m] : g \in into[m] \/ Retains(g, StateAt(at[m]))
    <3>1. PICK n \in Nat : at[m] = n
      BY <2>1, ElementOfSeq, LenProperties DEF TypeInv, TypeOK, ElabTypeOK
    <3>2. Retains(f, StateAt(n))
      BY <1>1, <2>1, <3>1 DEF LabelExact
    <3>3. StateAt(n)' = StateAt(n)
      BY <1>1, <2>1, <3>1 DEF Keeps
    <3>4. StateAt(at[m])' = StateAt(n)'
      BY <2>1, <3>1 DEF StateAt
    <3> QED
      BY <3>2, <3>3, <3>4
  <2> QED
    BY <1>1, <2>1
<1> QED
  BY <1>1, Zenon DEF LabelExact, Retains, Claims
-----------------------------------------------------------------------------
(* Leaks: what is in scope                                                  *)

LEMMA FullPrefix ==
  ASSUME NEW o, NEW p, NEW f, NEW n \in Nat, NEW m \in Nat, n <= m,
         \A i \in 1..n : p[i] = o[i], Full(o, f, n)
  PROVE  Full(p, f, m)
<1>1. \A i \in 1..n : i \in 1..m
  OBVIOUS
<1> QED
  BY <1>1 DEF Full

(* The scope stack is cut: what is still in scope is on what is left of it.  *)
LEMMA FullOutside ==
  ASSUME TypeInv, ScopeFull, NEW k \in Nat, k <= Len(order)
  PROVE  Full(order, Outside(flag, k), k)
<1>1. Len(order) \in Nat /\ DOMAIN order = 1..Len(order)
  BY LenProperties DEF TypeInv, TypeOK, ElabTypeOK
<1>2. LeavingSet(k) \cap Params = {}
  BY <1>1 DEF LeavingSet, ScopeFull
<1>3. ASSUME NEW v \in Vars, v \notin Params, Outside(flag, k)[v] # "out"
      PROVE  \E i \in 1..k : order[i] = v
  <2>1. flag[v] # "out" /\ v \notin LeavingSet(k)
    BY <1>3 DEF Outside
  <2>2. PICK i \in 1..Len(order) : order[i] = v
    BY <1>3, <2>1 DEF ScopeFull, Full
  <2>3. i \notin (k + 1)..Len(order)
    BY <2>1, <2>2 DEF LeavingSet
  <2> QED
    BY <1>1, <2>2, <2>3
<1>4. \A v \in Vars : /\ v \in Params => Outside(flag, k)[v] \in {"param", "moved"}
                      /\ v \notin Params => Outside(flag, k)[v] # "param"
  BY <1>2 DEF Outside, ScopeFull, Full
<1> QED
  BY <1>3, <1>4 DEF Full

LEMMA FullMerge ==
  ASSUME NEW o, NEW n, NEW f \in FlagMap, NEW g \in FlagMap, Full(o, f, n), Full(o, g, n)
  PROVE  Full(o, Merge(f, g), n)
<1>1. ASSUME NEW v \in Vars
      PROVE  /\ v \in Params => Merge(f, g)[v] \in {"param", "moved"}
             /\ v \notin Params => Merge(f, g)[v] # "param"
             /\ Merge(f, g)[v] # "out" => f[v] # "out" \/ g[v] # "out"
  BY DEF Merge, Worse, Full, FlagMap, Flag
<1> QED
  BY <1>1 DEF Full

(* The drops of a scope end include all that is claimed.                     *)
LEMMA DropsComplete ==
  ASSUME TypeInv, ScopeFull, NEW k \in Nat, k <= Len(order)
  PROVE  CompleteDrops(Drops(k), flag, {})
<1> DEFINE n == Len(order)
<1>1. n \in Nat /\ DOMAIN order = 1..n
  BY LenProperties DEF TypeInv, TypeOK, ElabTypeOK
<1>2. /\ Drops(k).own = Owned /\ DOMAIN Drops(k).vs = 1..(n - k)
      /\ \A i \in 1..(n - k) : Drops(k).vs[i] = order[n + 1 - i]
  BY DEF Drops, Leaving
<1>3. ASSUME NEW i \in 1..(n - k), order[n + 1 - i] \in Claims(flag)
      PROVE  order[n + 1 - i] \in Owned
  <2>1. n + 1 - i \in DOMAIN order
    BY <1>1
  <2>2. order[n + 1 - i] \in Vars \ Params
    BY <1>3, <2>1 DEF ScopeFull, Claims
  <2> QED
    BY <1>3, <2>2 DEF Claims, Owned, ScopeFull, Full
<1> QED
  BY <1>2, <1>3 DEF CompleteDrops

(* At a return they are all that is claimed.                                 *)
LEMMA DropsAll ==
  ASSUME TypeInv, ScopeFull
  PROVE  \A v \in Claims(flag) \ Params : \E i \in DOMAIN Drops(0).vs : Drops(0).vs[i] = v
<1> DEFINE n == Len(order)
<1>1. n \in Nat
  BY LenProperties DEF TypeInv, TypeOK, ElabTypeOK
<1>2. /\ DOMAIN Drops(0).vs = 1..(n - 0)
      /\ \A i \in 1..(n - 0) : Drops(0).vs[i] = order[n + 1 - i]
  BY DEF Drops, Leaving
<1>3. ASSUME NEW v \in Claims(flag) \ Params
      PROVE  \E i \in DOMAIN Drops(0).vs : Drops(0).vs[i] = v
  <2>1. PICK j \in 1..n : order[j] = v
    BY DEF ScopeFull, Full, Claims
  <2>2. n + 1 - j \in 1..(n - 0) /\ n + 1 - (n + 1 - j) = j
    BY <1>1
  <2>3. Drops(0).vs[n + 1 - j] = v
    BY <1>2, <2>1, <2>2
  <2> QED
    BY <1>2, <2>2, <2>3
<1> QED
  BY <1>3

LEMMA FullNext ==
  ASSUME \A i \in DOMAIN order' : order'[i] \notin Params,
         Full(order', flag', Len(order')),
         \A k \in DOMAIN ctl' : /\ Full(order', ctl'[k].base, ctl'[k].mark)
                               /\ Full(order', ctl'[k].save, ctl'[k].mark)
  PROVE  ScopeFull'
  BY Zenon DEF ScopeFull, Full

(* What the scope stack is when it keeps all its variables.                  *)
Grows == /\ Len(order) \in Nat /\ Len(order') \in Nat /\ Len(order) <= Len(order')
         /\ \A i \in 1..Len(order) : order'[i] = order[i]
         /\ \A i \in DOMAIN order' : order'[i] \notin Params

LEMMA GrowsDeclared ==
  ASSUME TypeInv, ScopeFull, NEW v \in Vars, flag[v] = "out", order' = Append(order, v)
  PROVE  Grows /\ \E i \in 1..Len(order') : order'[i] = v
<1>1. /\ order \in Seq(Vars) /\ DOMAIN order = 1..Len(order) /\ Len(order) \in Nat
  BY LenProperties DEF TypeInv, TypeOK, ElabTypeOK
<1>2. v \notin Params
  BY DEF ScopeFull, Full
<1>3. /\ Len(order') = Len(order) + 1 /\ DOMAIN order' = 1..(Len(order) + 1)
      /\ \A i \in 1..Len(order) : order'[i] = order[i]
      /\ order'[Len(order) + 1] = v
  BY <1>1, AppendLemma
<1>4. \A i \in 1..Len(order) : order[i] \notin Params
  BY <1>1 DEF ScopeFull
<1>5. \A i \in DOMAIN order' : order'[i] \notin Params
  BY <1>1, <1>2, <1>3, <1>4
<1>6. Len(order) + 1 \in 1..Len(order')
  BY <1>1, <1>3
<1> QED
  BY <1>1, <1>3, <1>5, <1>6 DEF Grows

LEMMA GrowsNot ==
  ASSUME TypeInv, ScopeFull, order' = order
  PROVE  Grows
  BY LenProperties DEF TypeInv, TypeOK, ElabTypeOK, ScopeFull, Grows

(* At most one variable is declared, and none leaves scope.                  *)
LEMMA FullKept ==
  ASSUME TypeInv, ScopeFull, UNCHANGED ctl, Grows,
         \A v \in Vars :
           \/ flag'[v] = flag[v]
           \/ flag'[v] = "moved" /\ flag[v] # "out"
           \/ /\ flag'[v] \in {"own", "lent"} /\ v \notin Params
              /\ flag[v] # "out" \/ \E i \in 1..Len(order') : order'[i] = v
  PROVE  ScopeFull'
<1>1. Full(order', flag, Len(order'))
  BY FullPrefix DEF ScopeFull, Grows
<1>2. ASSUME NEW v \in Vars
      PROVE  /\ v \in Params => flag'[v] \in {"param", "moved"}
             /\ v \notin Params => flag'[v] # "param"
             /\ v \notin Params /\ flag'[v] # "out" => \E i \in 1..Len(order') : order'[i] = v
  <2>1. /\ v \in Params => flag[v] \in {"param", "moved"}
        /\ v \notin Params => flag[v] # "param"
        /\ v \notin Params /\ flag[v] # "out" => \E i \in 1..Len(order') : order'[i] = v
    BY <1>1 DEF Full
  <2>2. CASE flag'[v] = flag[v]
    BY <2>1, <2>2
  <2>3. CASE flag'[v] = "moved" /\ flag[v] # "out"
    BY <2>1, <2>3
  <2>4. CASE /\ flag'[v] \in {"own", "lent"} /\ v \notin Params
             /\ flag[v] # "out" \/ \E i \in 1..Len(order') : order'[i] = v
    BY <2>1, <2>4
  <2> QED
    BY <2>2, <2>3, <2>4
<1>3. ASSUME NEW k \in DOMAIN ctl
      PROVE  /\ Full(order', ctl[k].base, ctl[k].mark)
             /\ Full(order', ctl[k].save, ctl[k].mark)
  <2>1. ctl[k].mark \in Nat /\ ctl[k].mark <= Len(order)
    BY FrameTypes DEF TypeInv, ScopesNest
  <2>2. \A i \in 1..ctl[k].mark : order'[i] = order[i]
    BY <2>1 DEF Grows
  <2>3. ctl[k].mark <= ctl[k].mark
    BY <2>1
  <2>4. Full(order, ctl[k].base, ctl[k].mark) /\ Full(order, ctl[k].save, ctl[k].mark)
    BY DEF ScopeFull
  <2>5. \A f : Full(order, f, ctl[k].mark) => Full(order', f, ctl[k].mark)
    BY <2>1, <2>2, <2>3, FullPrefix
  <2> QED
    BY <2>4, <2>5
<1>4. Full(order', flag', Len(order'))
  BY <1>2 DEF Full
<1>5. \A i \in DOMAIN order' : order'[i] \notin Params
  BY DEF Grows
<1>6. \A k \in DOMAIN ctl' : /\ Full(order', ctl'[k].base, ctl'[k].mark)
                             /\ Full(order', ctl'[k].save, ctl'[k].mark)
  BY <1>3
<1> QED
  BY <1>4, <1>5, <1>6, FullNext

(* A construct is opened.                                                    *)
LEMMA FullPush ==
  ASSUME TypeInv, ScopeFull, UNCHANGED <<order, flag>>, NEW F \in FrameSet,
         F.mark = Len(order), F.base = flag, F.save = flag, ctl' = Append(ctl, F)
  PROVE  ScopeFull'
<1>1. /\ DOMAIN ctl' = 1..(Len(ctl) + 1) /\ DOMAIN ctl = 1..Len(ctl)
      /\ ctl'[Len(ctl) + 1] = F /\ \A k \in 1..Len(ctl) : ctl'[k] = ctl[k]
      /\ Len(ctl) \in Nat
  BY AppendLemma, FrameTypes DEF TypeInv, TypeOK, ElabTypeOK
<1>2. ASSUME NEW k \in DOMAIN ctl'
      PROVE  /\ Full(order, ctl'[k].base, ctl'[k].mark)
             /\ Full(order, ctl'[k].save, ctl'[k].mark)
  <2>1. CASE k \in DOMAIN ctl
    BY <1>1, <2>1 DEF ScopeFull
  <2>2. CASE k = Len(ctl) + 1
    BY <1>1, <2>2 DEF ScopeFull
  <2> QED
    BY <1>1, <2>1, <2>2
<1>3. (\A i \in DOMAIN order' : order'[i] \notin Params) /\ Full(order', flag', Len(order'))
  BY DEF ScopeFull
<1>4. \A k \in DOMAIN ctl' : /\ Full(order', ctl'[k].base, ctl'[k].mark)
                             /\ Full(order', ctl'[k].save, ctl'[k].mark)
  BY <1>2
<1> QED
  BY <1>3, <1>4, FullNext

(* A construct is closed, or goes over to its second branch.                 *)
LEMMA FullCut ==
  ASSUME TypeInv, ScopeFull, ctl # <<>>, CutScope,
         \A k \in DOMAIN ctl' : k \in DOMAIN ctl,
         \A k \in DOMAIN ctl' : ctl'[k].mark = ctl[k].mark,
         \A k \in DOMAIN ctl' : k # Len(ctl) => Rebased(ctl[k], ctl'[k]),
         Full(order, flag', Top.mark),
         Len(ctl) \in DOMAIN ctl' => /\ Full(order, ctl'[Len(ctl)].base, Top.mark)
                                     /\ Full(order, ctl'[Len(ctl)].save, Top.mark)
  PROVE  ScopeFull'
<1>1. /\ order \in Seq(Vars) /\ Len(order) \in Nat /\ DOMAIN order = 1..Len(order)
      /\ Top.mark \in Nat /\ Top.mark <= Len(order)
  BY PopTypes, LenProperties DEF TypeInv, TypeOK, ElabTypeOK
<1>2. /\ DOMAIN order' = 1..Top.mark /\ Len(order') = Top.mark
      /\ \A i \in 1..Top.mark : order'[i] = order[i] /\ i \in DOMAIN order
  BY <1>1, CutLemma DEF CutScope
<1>3. \A i \in DOMAIN order' : order'[i] \notin Params
  BY <1>2 DEF ScopeFull
<1>4. \A n \in Nat : \A f : n <= Top.mark /\ Full(order, f, n) => Full(order', f, n)
  <2>1. ASSUME NEW n \in Nat, NEW f, n <= Top.mark, Full(order, f, n)
        PROVE  Full(order', f, n)
    <3>1. (\A i \in 1..n : order'[i] = order[i]) /\ n <= n
      BY <1>1, <1>2, <2>1
    <3> QED
      BY <2>1, <3>1, FullPrefix
  <2> QED
    BY <2>1
<1>5. Full(order', flag', Len(order'))
  BY <1>1, <1>2, <1>4
<1>6. ASSUME NEW k \in DOMAIN ctl'
      PROVE  /\ Full(order', ctl'[k].base, ctl'[k].mark)
             /\ Full(order', ctl'[k].save, ctl'[k].mark)
  <2>1. /\ k \in DOMAIN ctl /\ ctl[k].mark \in Nat /\ ctl[k].mark <= Top.mark
        /\ Top = ctl[Len(ctl)]
    BY PopTypes, FrameTypes DEF TypeInv, ScopesNest, Top
  <2>2. CASE k = Len(ctl)
    BY <1>1, <1>4, <2>1, <2>2
  <2>3. CASE k # Len(ctl)
    <3>1. Full(order, Outside(flag, ctl[k].mark), ctl[k].mark)
      BY <1>1, <2>1, FullOutside
    <3>2. Rebased(ctl[k], ctl'[k])
      BY <2>3
    <3>3. Full(order, ctl'[k].base, ctl[k].mark) /\ Full(order, ctl'[k].save, ctl[k].mark)
      BY <2>1, <3>1, <3>2 DEF ScopeFull, Rebased
    <3> QED
      BY <1>4, <2>1, <3>3
  <2> QED
    BY <2>2, <2>3
<1> QED
  BY <1>3, <1>5, <1>6, FullNext
-----------------------------------------------------------------------------
(* Leaks: execution                                                         *)

(* Who owns a value is known to, and holds it.                               *)
LEMMA OwnedIs ==
  ASSUME NEW f, AllOwned(owner, env, f), NEW c \in Cells, NEW v \in Vars, owner[c] = v
  PROVE  v \in Claims(f) /\ env[v] = c /\ Owns(v)
  BY DEF AllOwned, Owns, OwnsIn

LEMMA StoreOwned ==
  ASSUME TypeInv, NEW f \in FlagMap, SoundIn(owner, env, f), AllOwned(owner, env, f), Running,
         Legal(Cur, f), Complete(Cur, f), StepLit \/ (\E c \in Cells : StepNew(c))
  PROVE  AllOwned(owner', env', Post(Cur, f))
<1>1. PICK v \in Vars : v = Cur.v
  BY CurTypes, OperandTypes DEF StepLit, StepNew, At
<1>2. /\ env \in [Vars -> Cells \cup {Static, Unset}] /\ Static \notin Cells
      /\ owner \in [Cells -> Vars \cup {Released, Lost}]
      /\ Released \notin Vars /\ Lost \notin Vars /\ Released # Lost
  BY ExecAssumption DEF TypeInv, TypeOK, ExecTypeOK
<1>3. Cur.op \in {"new", "lit"}
  BY DEF StepLit, StepNew, At
<1>4. (Cur.old => Valid(v)) /\ (Cur.old \/ v \notin Claims(f))
  BY <1>1, <1>3, SoundUse DEF Legal, Complete
<1>5. ASSUME NEW d \in Cells, d \in Old(v)
      PROVE  owner[d] = v /\ Overwritten(Cur) = Released
  BY <1>2, <1>4, <1>5, OwnedIs DEF Old, Owns, OwnsIn, Overwritten
<1>6. ASSUME NEW d \in Cells, d \notin Old(v), owner[d] \in Vars
      PROVE  owner[d] # v /\ owner[d] \in Claims(f) /\ env[owner[d]] = d
  BY <1>6, OwnedIs DEF Old
<1>7. ASSUME NEW d \in Cells PROVE owner[d] # Lost
  BY DEF AllOwned
<1>8. ASSUME NEW c \in Cells, StepNew(c) PROVE AllOwned(owner', env', Post(Cur, f))
  <2>1. /\ env' = [env EXCEPT ![v] = c]
        /\ owner' = [d \in Cells |-> IF d = c THEN v
                                     ELSE IF d \in Old(v) THEN Overwritten(Cur)
                                     ELSE owner[d]]
    BY <1>1, <1>4, <1>8 DEF StepNew
  <2>2. Post(Cur, f) = [f EXCEPT ![v] = "own"]
    BY <1>1, <1>8 DEF StepNew, At, Post
  <2>3. ASSUME NEW d \in Cells
        PROVE  /\ owner'[d] # Lost
               /\ owner'[d] \in Vars => owner'[d] \in Claims(Post(Cur, f)) /\ env'[owner'[d]] = d
    <3>1. CASE d = c
      BY <1>2, <2>1, <2>2, <3>1 DEF Claims, FlagMap
    <3>2. CASE d # c /\ d \in Old(v)
      BY <1>2, <1>5, <2>1, <3>2
    <3>3. CASE d # c /\ d \notin Old(v)
      <4>1. owner'[d] = owner[d]
        BY <2>1, <3>3
      <4> QED
        BY <1>2, <1>6, <1>7, <2>1, <2>2, <3>3, <4>1 DEF Claims, FlagMap
    <3> QED
      BY <3>1, <3>2, <3>3
  <2> QED
    BY <2>3 DEF AllOwned
<1>9. CASE StepLit
  <2>1. /\ env' = [env EXCEPT ![v] = Static]
        /\ owner' = [d \in Cells |-> IF d \in Old(v) THEN Overwritten(Cur) ELSE owner[d]]
    BY <1>1, <1>4, <1>9 DEF StepLit
  <2>2. Post(Cur, f) = [f EXCEPT ![v] = "lent"]
    BY <1>1, <1>9 DEF StepLit, At, Post
  <2>3. ASSUME NEW d \in Cells
        PROVE  /\ owner'[d] # Lost
               /\ owner'[d] \in Vars => owner'[d] \in Claims(Post(Cur, f)) /\ env'[owner'[d]] = d
    <3>1. CASE d \in Old(v)
      BY <1>2, <1>5, <2>1, <3>1
    <3>2. CASE d \notin Old(v)
      <4>1. owner'[d] = owner[d]
        BY <2>1, <3>2
      <4> QED
        BY <1>2, <1>6, <1>7, <2>1, <2>2, <3>2, <4>1 DEF Claims, FlagMap
    <3> QED
      BY <3>1, <3>2
  <2> QED
    BY <2>3 DEF AllOwned
<1> QED
  BY <1>8, <1>9

LEMMA MoveOwned ==
  ASSUME TypeInv, NEW f \in FlagMap, SoundIn(owner, env, f), AllOwned(owner, env, f), Running,
         Legal(Cur, f), Complete(Cur, f), StepMov
  PROVE  AllOwned(owner', env', Post(Cur, f))
<1>1. PICK v \in Vars, u \in Vars : v = Cur.v /\ u = Cur.src
  BY CurTypes, OperandTypes DEF StepMov, At
<1>2. /\ env \in [Vars -> Cells \cup {Static, Unset}] /\ Static \notin Cells
      /\ owner \in [Cells -> Vars \cup {Released, Lost}]
      /\ Released \notin Vars /\ Lost \notin Vars /\ Released # Lost
  BY ExecAssumption DEF TypeInv, TypeOK, ExecTypeOK
<1>3. /\ f[u] \in {"own", "param", "lent"} /\ Valid(u) /\ (Cur.old => Valid(v))
      /\ Cur.old \/ v = u \/ v \notin Claims(f)
  BY <1>1, SoundUse DEF Legal, Complete, StepMov, At
<1>4. /\ env' = [env EXCEPT ![v] = env[u]]
      /\ owner' = [d \in Cells |-> IF d = env[u] THEN v
                                   ELSE IF d \in Old(v) THEN Overwritten(Cur)
                                   ELSE owner[d]]
  BY <1>1, <1>3 DEF StepMov
<1>5. Post(Cur, f) = [f EXCEPT ![u] = "moved", ![v] = IF f[u] = "lent" THEN "lent" ELSE "own"]
  BY <1>1 DEF StepMov, At, Post
<1>6. ASSUME NEW d \in Cells
      PROVE  /\ owner'[d] # Lost
             /\ owner'[d] \in Vars => owner'[d] \in Claims(Post(Cur, f)) /\ env'[owner'[d]] = d
  <2>1. CASE d = env[u]
    <3>1. owner[d] = u
      BY <1>2, <1>3, <2>1 DEF Valid, Owns, OwnsIn
    <3>2. f[u] # "lent"
      BY <3>1, OwnedIs DEF Claims
    <3>3. v \in Claims(Post(Cur, f))
      BY <1>5, <3>2 DEF Claims, FlagMap
    <3> QED
      BY <1>2, <1>4, <2>1, <3>3
  <2>2. CASE d # env[u] /\ d \in Old(v)
    <3>1. owner[d] = v /\ env[v] = d
      BY <2>2 DEF Old, Owns, OwnsIn
    <3>2. Cur.old
      BY <1>3, <2>2, <3>1, OwnedIs
    <3> QED
      BY <1>2, <1>4, <2>2, <3>2 DEF Overwritten
  <2>3. CASE d # env[u] /\ d \notin Old(v)
    <3>1. owner'[d] = owner[d] /\ owner[d] # Lost
      BY <1>4, <2>3 DEF AllOwned
    <3>2. ASSUME NEW w \in Vars, owner[d] = w
          PROVE  w \in Claims(Post(Cur, f)) /\ env'[w] = d
      <4>1. w \in Claims(f) /\ env[w] = d /\ Owns(w)
        BY <3>2, OwnedIs
      <4>2. w # u /\ w # v
        BY <2>3, <4>1 DEF Old
      <4> QED
        BY <1>2, <1>4, <1>5, <4>1, <4>2 DEF Claims, FlagMap
    <3> QED
      BY <3>1, <3>2
  <2> QED
    BY <2>1, <2>2, <2>3
<1> QED
  BY <1>6 DEF AllOwned

LEMMA GiveOwned ==
  ASSUME TypeInv, NEW f \in FlagMap, SoundIn(owner, env, f), AllOwned(owner, env, f), Running,
         Legal(Cur, f), StepUse \/ StepGive \/ StepDrop
  PROVE  AllOwned(owner', env', Post(Cur, f))
<1>1. PICK v \in Vars : v = Cur.v
  BY CurTypes, OperandTypes DEF StepUse, StepGive, StepDrop, At
<1>2. /\ owner \in [Cells -> Vars \cup {Released, Lost}]
      /\ Released \notin Vars /\ Lost \notin Vars /\ Released # Lost
  BY ExecAssumption DEF TypeInv, TypeOK, ExecTypeOK
<1>3. Valid(v)
  BY <1>1, SoundUse DEF Legal, StepUse, StepGive, StepDrop, At
<1>4. CASE StepUse
  BY <1>1, <1>3, <1>4 DEF StepUse, At, Post
<1>5. CASE StepGive \/ StepDrop
  <2>1. /\ env' = env
        /\ owner' = [d \in Cells |-> IF d = env[v] THEN Released ELSE owner[d]]
    BY <1>1, <1>3, <1>5 DEF StepGive, StepDrop
  <2>2. Post(Cur, f) = [f EXCEPT ![v] = "moved"]
    BY <1>1, <1>5 DEF StepGive, StepDrop, At, Post
  <2>3. ASSUME NEW d \in Cells
        PROVE  /\ owner'[d] # Lost
               /\ owner'[d] \in Vars => owner'[d] \in Claims(Post(Cur, f)) /\ env'[owner'[d]] = d
    <3>1. CASE d = env[v]
      BY <1>2, <2>1, <3>1
    <3>2. CASE d # env[v]
      <4>1. owner'[d] = owner[d] /\ owner[d] # Lost
        BY <2>1, <3>2 DEF AllOwned
      <4>2. ASSUME NEW w \in Vars, owner[d] = w
            PROVE  w \in Claims(Post(Cur, f)) /\ env'[w] = d
        <5>1. w \in Claims(f) /\ env[w] = d /\ w # v
          BY <3>2, <4>2, OwnedIs
        <5> QED
          BY <2>1, <2>2, <5>1 DEF Claims, FlagMap
      <4> QED
        BY <4>1, <4>2
    <3> QED
      BY <3>1, <3>2
  <2> QED
    BY <2>3 DEF AllOwned
<1> QED
  BY <1>4, <1>5

(* The drops of a scope end.                                                 *)
LEMMA DropsOwned ==
  ASSUME TypeInv, NEW f \in FlagMap, AllOwned(owner, env, f), NEW d \in DropList, NEW kept,
         CompleteDrops(d, f, kept), NEW c \in Cells
  PROVE  /\ AfterDrops(d)[c] = Lost => owner[c] \in kept \cap Vars
         /\ AfterDrops(d)[c] \in Vars =>
              /\ AfterDrops(d)[c] = owner[c] /\ owner[c] \in Claims(f) /\ env[owner[c]] = c
              /\ \A i \in DOMAIN d.vs : d.vs[i] # owner[c]
<1>1. /\ Released \notin Vars /\ Lost \notin Vars /\ Released # Lost
      /\ \A i \in DOMAIN d.vs : d.vs[i] \in Vars
  BY ExecAssumption, ElementOfSeq, LenProperties DEF DropList
<1>2. owner[c] # Lost /\ (owner[c] \in Vars => owner[c] \in Claims(f) /\ env[owner[c]] = c)
  BY DEF AllOwned
<1>3. CASE \E i \in DOMAIN d.vs : owner[c] = d.vs[i]
  <2>1. PICK i \in DOMAIN d.vs : owner[c] = d.vs[i]
    BY <1>3
  <2>2. owner[c] \in Vars /\ owner[c] \in d.own \cup kept
    BY <1>1, <1>2, <2>1 DEF CompleteDrops
  <2>3. AfterDrops(d)[c] = IF owner[c] \in d.own THEN Released ELSE Lost
    BY <1>3 DEF AfterDrops
  <2> QED
    BY <1>1, <2>2, <2>3
<1>4. CASE ~(\E i \in DOMAIN d.vs : owner[c] = d.vs[i])
  <2>1. AfterDrops(d)[c] = owner[c]
    BY <1>4 DEF AfterDrops
  <2> QED
    BY <1>2, <1>4, <2>1
<1> QED
  BY <1>3, <1>4

LEMMA LeaveOwned ==
  ASSUME TypeInv, NEW f \in FlagMap, SoundIn(owner, env, f), AllOwned(owner, env, f), Running,
         Legal(Cur, f), Complete(Cur, f), StepLeave \/ StepJump
  PROVE  AllOwned(owner', env', Post(Cur, f))
<1>1. Cur.op \in {"leave", "jmp"} /\ Cur.d \in DropList
  BY CurTypes, OperandTypes DEF StepLeave, StepJump, At
<1>2. PICK d \in DropList : d = Cur.d
  BY <1>1
<1>3. LegalDrops(d, f) /\ Post(Cur, f) = OutOf(d, f) /\ CompleteDrops(d, f, {})
  BY <1>1, <1>2 DEF Legal, Post, Complete
<1>4. owner' = AfterDrops(d) /\ env' = env
  BY <1>2, <1>3, SoundDrops DEF StepLeave, StepJump
<1>5. ASSUME NEW c \in Cells
      PROVE  /\ owner'[c] # Lost
             /\ owner'[c] \in Vars => owner'[c] \in Claims(OutOf(d, f)) /\ env'[owner'[c]] = c
  <2>1. /\ AfterDrops(d)[c] # Lost
        /\ AfterDrops(d)[c] \in Vars =>
             /\ AfterDrops(d)[c] = owner[c] /\ owner[c] \in Claims(f) /\ env[owner[c]] = c
             /\ \A i \in DOMAIN d.vs : d.vs[i] # owner[c]
    BY <1>3, DropsOwned
  <2> QED
    BY <1>4, <2>1 DEF OutOf, Claims
<1> QED
  BY <1>3, <1>5 DEF AllOwned

(* When the function has returned, no value is left with a local.            *)
LEMMA RetOwned ==
  ASSUME TypeInv, NEW f \in FlagMap, SoundIn(owner, env, f), AllOwned(owner, env, f), Running,
         Legal(Cur, f), Complete(Cur, f), StepRet
  PROVE  NoLeak' /\ status' = "returned"
<1>1. Cur.op = "ret" /\ Cur.d \in DropList /\ Cur.v \in Vars \cup {NoVar}
  BY CurTypes, OperandTypes DEF StepRet, At
<1>2. PICK d \in DropList : d = Cur.d
  BY <1>1
<1>3. /\ LegalDrops(d, f) /\ CompleteDrops(d, f, {Cur.v})
      /\ Cur.v # NoVar => f[Cur.v] \in {"own", "param", "lent"}
      /\ \A v \in Claims(f) \ Params : v = Cur.v \/ \E i \in DOMAIN d.vs : d.vs[i] = v
  BY <1>1, <1>2 DEF Legal, Complete
<1>4. DropsFine(d) /\ (Cur.v # NoVar => Valid(Cur.v))
  BY <1>1, <1>3, SoundDrops, SoundUse
<1>5. /\ owner' = [c \in Cells |-> IF Cur.v # NoVar /\ env[Cur.v] = c THEN Released
                                   ELSE AfterDrops(d)[c]]
      /\ status' = "returned"
  BY <1>2, <1>4 DEF StepRet
<1>6. Released \notin Vars /\ Released # Lost /\ NoVar \notin Vars
  BY ExecAssumption, ElabAssumption
<1>7. ASSUME NEW c \in Cells
      PROVE  owner'[c] # Lost /\ owner'[c] \notin Vars \ Params
  <2>1. CASE Cur.v # NoVar /\ env[Cur.v] = c
    BY <1>5, <1>6, <2>1
  <2>2. CASE ~(Cur.v # NoVar /\ env[Cur.v] = c)
    <3>1. owner'[c] = AfterDrops(d)[c]
      BY <1>5, <2>2
    <3>2. /\ AfterDrops(d)[c] = Lost => owner[c] \in {Cur.v} \cap Vars
          /\ AfterDrops(d)[c] \in Vars =>
               /\ AfterDrops(d)[c] = owner[c] /\ owner[c] \in Claims(f) /\ env[owner[c]] = c
               /\ \A i \in DOMAIN d.vs : d.vs[i] # owner[c]
      BY <1>3, DropsOwned
    <3>3. owner[c] \in Vars => owner[c] # Cur.v
      BY <1>6, <2>2 DEF AllOwned
    <3> QED
      BY <1>3, <3>1, <3>2, <3>3
  <2> QED
    BY <2>1, <2>2
<1> QED
  BY <1>5, <1>7 DEF NoLeak

LEMMA OwnedRetained ==
  ASSUME NEW own, NEW e, NEW f, NEW g, AllOwned(own, e, f), Retains(f, g)
  PROVE  AllOwned(own, e, g)
  BY DEF AllOwned, Retains

LEMMA OwnedNoLeak ==
  ASSUME NEW f, AllOwned(owner, env, f), status = "running"
  PROVE  NoLeak
  BY DEF AllOwned, NoLeak

LEMMA StepOwned ==
  ASSUME TypeInv, NEW f \in FlagMap, SoundIn(owner, env, f), AllOwned(owner, env, f),
         Legal(Cur, f), Complete(Cur, f), ExecStep
  PROVE  \/ AllOwned(owner', env', Post(Cur, f)) /\ status' = "running"
         \/ NoLeak' /\ status' = "returned"
<1>1. Running /\ status = "running"
  BY DEF ExecStep, StepNew, StepLit, StepMov, StepUse, StepGive, StepDrop,
         StepLeave, StepBranch, StepJump, StepRet, At, Running
<1>2. CASE StepLit \/ (\E c \in Cells : StepNew(c))
  BY <1>1, <1>2, StoreOwned, StoreSound
<1>3. CASE StepMov
  BY <1>1, <1>3, MoveOwned, MoveSound
<1>4. CASE StepUse \/ StepGive \/ StepDrop
  BY <1>1, <1>4, GiveOwned, GiveSound
<1>5. CASE StepLeave \/ StepJump
  <2>1. AllOwned(owner', env', Post(Cur, f))
    BY <1>1, <1>5, LeaveOwned
  <2>2. status' = "running"
    <3>1. Cur.op \in {"leave", "jmp"} /\ Cur.d \in DropList
      BY <1>1, <1>5, CurTypes, OperandTypes DEF StepLeave, StepJump, At
    <3>2. DropsFine(Cur.d)
      BY <3>1, SoundDrops DEF Legal
    <3> QED
      BY <1>1, <1>5, <3>2 DEF StepLeave, StepJump, Next1, Goto
  <2> QED
    BY <2>1, <2>2
<1>6. CASE StepBranch
  BY <1>1, <1>6 DEF StepBranch, At, Post, Next1, Goto
<1>7. CASE StepRet
  BY <1>1, <1>7, RetOwned
<1> QED
  BY <1>2, <1>3, <1>4, <1>5, <1>6, <1>7 DEF ExecStep

(* The state at the place the code goes to retains what the executed         *)
(* instruction leaves behind.                                                *)
LEMMA OwnersStep ==
  ASSUME IInv, CodeExact, LabelExact, OwnersKnown, ExecStep, UNCHANGED elabVars
  PROVE  OwnersKnown' /\ NoLeak'
<1>0. TypeInv /\ CompilerInv /\ ExecInv
  BY DEF IInv
<1>1. /\ phase = "ready" /\ status = "running" /\ pc \in DOMAIN code /\ Running
  BY DEF ExecStep, StepNew, StepLit, StepMov, StepUse, StepGive, StepDrop,
         StepLeave, StepBranch, StepJump, StepRet, At, Running
<1>2. phase' = phase /\ code' = code /\ ann' = ann
  BY DEF elabVars
<1>3. /\ Len(ann) = Len(code) /\ Len(code) \in Nat /\ DOMAIN code = 1..Len(code)
      /\ ann \in Seq(FlagMap) /\ pc \in Nat
  BY <1>0, LenProperties DEF TypeInv, TypeOK, ElabTypeOK, ExecTypeOK, CompilerInv, CodeInv
<1>4. PICK f \in FlagMap : f = ann[pc]
  BY <1>1, <1>3, ElementOfSeq
<1>5. /\ SoundIn(owner, env, f) /\ AllOwned(owner, env, f) /\ InstOK(pc) /\ Cur = code[pc]
      /\ Complete(Cur, f)
      /\ Cur.op \notin {"jmp", "ret"} => Retains(Post(Cur, f), StateAt(pc + 1))
  BY <1>0, <1>1, <1>4 DEF ExecInv, CompilerInv, CodeInv, Cur, OwnersKnown, CodeExact
<1>6. Legal(Cur, f)
  BY <1>4, <1>5 DEF InstOK
<1>7. CASE NoLeak' /\ status' = "returned"
  BY <1>2, <1>1, <1>7 DEF OwnersKnown
<1>8. CASE AllOwned(owner', env', Post(Cur, f)) /\ status' = "running"
  <2>1. \/ Cur.op \notin {"jmp", "ret"} /\ pc' = pc + 1
        \/ Cur.op \in {"br", "jmp"} /\ pc' = at[Cur.to]
    BY <1>0, <1>5, <1>6, <1>8, StepSound
  <2>2. ASSUME Cur.op \notin {"jmp", "ret"}, pc' = pc + 1
        PROVE  Retains(Post(Cur, f), ann[pc'])
    <3>1. FallsTo(pc)
      BY <1>5, <2>2 DEF InstOK
    <3>2. pc + 1 <= Len(code)
      BY <1>1, <1>3, <3>1 DEF FallsTo
    <3>3. StateAt(pc + 1) = ann[pc']
      BY <2>2, <3>2 DEF StateAt
    <3> QED
      BY <1>5, <2>2, <3>3
  <2>3. ASSUME Cur.op \in {"br", "jmp"}, pc' = at[Cur.to]
        PROVE  Retains(Post(Cur, f), ann[pc'])
    <3>1. PICK l \in DOMAIN at : l = Cur.to
      BY <1>0, <1>1, <1>5, <2>3 DEF TypeInv, LabelsKnown
    <3>2. Post(Cur, f) \in into[l]
      BY <1>4, <1>5, <2>3, <3>1 DEF InstOK, JumpsTo
    <3>3. ctl = <<>> /\ term # "open"
      BY <1>0, <1>1 DEF CompilerInv, CodeInv
    <3>4. DOMAIN ctl = {}
      BY <3>3
    <3>5. at[l] \in Nat
      BY <1>0, <3>1, ElementOfSeq, LenProperties DEF TypeInv, TypeOK, ElabTypeOK
    <3>6. at[l] # 0 /\ at[l] <= Len(code)
      BY <1>0, <1>3, <3>3, <3>4, <3>5 DEF CompilerInv, LabelInv
    <3>7. Retains(Post(Cur, f), StateAt(at[l]))
      BY <3>2, <3>6 DEF LabelExact
    <3>8. StateAt(at[l]) = ann[pc']
      BY <2>3, <3>1, <3>6 DEF StateAt
    <3> QED
      BY <3>7, <3>8
  <2>4. AllOwned(owner', env', ann[pc'])
    BY <1>8, <2>1, <2>2, <2>3, OwnedRetained
  <2>5. OwnersKnown'
    BY <1>1, <1>2, <2>4 DEF OwnersKnown, AllOwned
  <2>6. NoLeak'
    BY <1>8, <2>4 DEF AllOwned, NoLeak
  <2> QED
    BY <2>5, <2>6
<1> QED
  BY <1>0, <1>5, <1>6, <1>7, <1>8, StepOwned

(* The machine waits until the code is complete.                             *)
LEMMA OwnersWait ==
  ASSUME IInv, IInv', OwnersKnown, ElabNext, UNCHANGED execVars
  PROVE  OwnersKnown' /\ NoLeak'
<1>1. phase = "compile"
  BY DEF ElabNext, LetNew, LetLit, LetMove, LetAgain, AssignNew, AssignLit,
         AssignMove, UseVar, Consume, Discard, UseMoved, Return, OpenBlock,
         CloseBlock, OpenIf, Else, EndIf, OpenLoop, OpenWhile, EndLoop, Break,
         Continue, OpenArms, NextArm, EndArms, Finish, Stmt, Open, TopIs
<1>2. /\ pc' = 1 /\ status' = "running" /\ owner' = owner /\ env' = env
      /\ AllOwned(owner, env, StartFlag)
  BY <1>1 DEF IInv, ExecInv, OwnersKnown, execVars
<1>3. ASSUME phase' = "ready" PROVE ann'[1] = StartFlag
  <2>1. pc' \in DOMAIN code' /\ StateAt(1)' = StartFlag
    BY <1>2, <1>3 DEF IInv, ExecInv, CompilerInv, CodeInv
  <2>2. code' \in Seq(Inst)
    BY DEF IInv, TypeInv, TypeOK, ElabTypeOK
  <2>3. 1 <= Len(code')
    BY <1>2, <2>1, <2>2, LenProperties
  <2> QED
    BY <2>1, <2>3 DEF StateAt
<1> QED
  BY <1>2, <1>3 DEF OwnersKnown, AllOwned, NoLeak
-----------------------------------------------------------------------------
(* Leaks: the statements                                                    *)

\* What the compiler's state knows.
Knows == CodeExact /\ LabelExact /\ ScopeFull

LEMMA LabelsExact ==
  ASSUME TypeInv, LabelExact, Keeps, UNCHANGED <<at, into>>
  PROVE  LabelExact'
  BY ExactLabels

LEMMA StoreComplete ==
  ASSUME NEW v \in Vars, NEW old \in BOOLEAN, NEW f, old \/ v \notin Claims(f)
  PROVE  Complete(New(v, old), f) /\ Complete(Lit(v, old), f)
  BY DEF Complete, New, Lit

LEMMA MoveComplete ==
  ASSUME NEW v \in Vars, NEW u \in Vars, NEW old \in BOOLEAN, NEW f,
         old \/ v = u \/ v \notin Claims(f)
  PROVE  Complete(Mov(v, u, old), f)
  BY DEF Complete, Mov

LEMMA UseComplete ==
  ASSUME NEW u \in Vars, NEW f
  PROVE  Complete(Borrow(u), f) /\ Complete(Give(u), f) /\ Complete(DropOne(u), f)
  BY DEF Complete, Borrow, Give, DropOne

LEMMA StatementKnows ==
  ASSUME TypeInv, CompilerInv, Knows, NEW v \in Vars, NEW u \in Vars,
         \/ LetNew(v) \/ LetLit(v) \/ LetMove(v, u)
         \/ AssignNew(v) \/ AssignLit(v) \/ AssignMove(v, u)
         \/ UseVar(u) \/ Consume(u) \/ Discard(u)
  PROVE  Knows'
<1>1. flag \in FlagMap /\ UNCHANGED <<ctl, at, into>>
  BY DEF TypeInv, TypeOK, ElabTypeOK, LetNew, LetLit, LetMove, AssignNew,
         AssignLit, AssignMove, UseVar, Consume, Discard, Stmt
<1>2. /\ v \in Params => flag[v] \in {"param", "moved"}
      /\ v \notin Params => flag[v] # "param"
  BY DEF Knows, ScopeFull, Full
<1>3. PICK i \in Inst : /\ Emit(i) /\ i.op \notin {"jmp", "br", "ret"}
                        /\ Complete(i, flag) /\ Retains(Post(i, flag), flag')
  <2>1. CASE LetNew(v) \/ AssignNew(v)
    <3>1. PICK old \in BOOLEAN : Emit(New(v, old)) /\ (old \/ v \notin Claims(flag))
      BY <1>2, <2>1 DEF LetNew, AssignNew, Declare, Assignable, Claims
    <3>2. flag' = [flag EXCEPT ![v] = "own"]
      BY <2>1 DEF LetNew, AssignNew
    <3>3. Complete(New(v, old), flag) /\ Post(New(v, old), flag) = flag'
      BY <1>1, <3>1, <3>2, StoreLegal, StoreComplete
    <3> QED
      BY <3>1, <3>3, InstTypes, RetainsSelf
  <2>2. CASE LetLit(v) \/ AssignLit(v)
    <3>1. PICK old \in BOOLEAN : Emit(Lit(v, old)) /\ (old \/ v \notin Claims(flag))
      BY <1>2, <2>2 DEF LetLit, AssignLit, Declare, Assignable, Claims
    <3>2. flag' = [flag EXCEPT ![v] = "lent"]
      BY <2>2 DEF LetLit, AssignLit
    <3>3. Complete(Lit(v, old), flag) /\ Post(Lit(v, old), flag) = flag'
      BY <1>1, <3>1, <3>2, StoreLegal, StoreComplete
    <3> QED
      BY <3>1, <3>3, InstTypes, RetainsSelf
  <2>3. CASE LetMove(v, u) \/ AssignMove(v, u)
    <3>1. PICK old \in BOOLEAN :
            Emit(Mov(v, u, old)) /\ (old \/ v = u \/ v \notin Claims(flag))
      BY <1>2, <2>3 DEF LetMove, AssignMove, Declare, Assignable, Claims
    <3>2. flag' = [flag EXCEPT ![u] = "moved", ![v] = Received(u)]
      BY <2>3 DEF LetMove, AssignMove
    <3>3. Complete(Mov(v, u, old), flag) /\ Post(Mov(v, u, old), flag) = flag'
      BY <1>1, <3>1, <3>2, MoveLegal, MoveComplete DEF Received
    <3> QED
      BY <3>1, <3>3, InstTypes, RetainsSelf
  <2>4. CASE UseVar(u)
    <3>1. Emit(Borrow(u)) /\ flag' = flag
      BY <2>4 DEF UseVar
    <3>2. Complete(Borrow(u), flag) /\ Post(Borrow(u), flag) = flag'
      BY <1>1, <3>1, UseLegal, UseComplete
    <3> QED
      BY <3>1, <3>2, UseTypes, RetainsSelf
  <2>5. CASE Consume(u)
    <3>1. Emit(Give(u)) /\ flag' = [flag EXCEPT ![u] = "moved"]
      BY <2>5 DEF Consume
    <3>2. Complete(Give(u), flag) /\ Post(Give(u), flag) = flag'
      BY <1>1, <3>1, UseLegal, UseComplete
    <3> QED
      BY <3>1, <3>2, UseTypes, RetainsSelf
  <2>6. CASE Discard(u)
    <3>1. flag' = [flag EXCEPT ![u] = "moved"]
      BY <2>6 DEF Discard
    <3>2. CASE flag[u] = "lent"
      <4>1. Emit(Borrow(u))
        BY <2>6, <3>2 DEF Discard
      <4>2. Retains(flag, flag')
        BY <1>1, <3>1, <3>2 DEF Retains, Claims, FlagMap
      <4>3. Complete(Borrow(u), flag) /\ Post(Borrow(u), flag) = flag
        BY <1>1, UseLegal, UseComplete
      <4> QED
        BY <4>1, <4>2, <4>3, UseTypes
    <3>3. CASE flag[u] # "lent"
      <4>1. Emit(DropOne(u))
        BY <2>6, <3>3 DEF Discard
      <4>2. Complete(DropOne(u), flag) /\ Post(DropOne(u), flag) = flag'
        BY <1>1, <3>1, UseLegal, UseComplete
      <4> QED
        BY <4>1, <4>2, UseTypes, RetainsSelf
    <3> QED
      BY <3>2, <3>3
  <2> QED
    BY <2>1, <2>2, <2>3, <2>4, <2>5, <2>6
<1>4. CodeExact'
  BY <1>3, ExactEmit DEF CompilerInv, Knows
<1>5. Keeps
  BY <1>3, EmitKeeps DEF CompilerInv
<1>6. LabelExact'
  BY <1>1, <1>5, LabelsExact DEF Knows
<1>7. Grows /\ (order' # order => \E k \in 1..Len(order') : order'[k] = v)
  <2>1. CASE flag[v] = "out" /\ order' = Append(order, v)
    BY <2>1, GrowsDeclared DEF Knows
  <2>2. CASE order' = order
    BY <2>2, GrowsNot DEF Knows
  <2> QED
    BY <2>1, <2>2 DEF LetNew, LetLit, LetMove, AssignNew, AssignLit, AssignMove,
                      UseVar, Consume, Discard, Declare
<1>8. ASSUME NEW w \in Vars
      PROVE  \/ flag'[w] = flag[w]
             \/ flag'[w] = "moved" /\ flag[w] # "out"
             \/ /\ flag'[w] \in {"own", "lent"} /\ w \notin Params
                /\ flag[w] # "out" \/ \E k \in 1..Len(order') : order'[k] = w
  <2>1. CASE LetNew(v) \/ LetLit(v) \/ LetMove(v, u)
    <3>1. /\ v \notin Params /\ order' = Append(order, v)
          /\ \/ flag' = [flag EXCEPT ![v] = "own"]
             \/ flag' = [flag EXCEPT ![v] = "lent"]
             \/ /\ flag' = [flag EXCEPT ![u] = "moved", ![v] = Received(u)]
                /\ u \in Readable
      BY <1>2, <2>1 DEF LetNew, LetLit, LetMove, Declare
    <3>2. order' # order
      <4>1. order \in Seq(Vars)
        BY DEF TypeInv, TypeOK, ElabTypeOK
      <4>2. Len(order') = Len(order) + 1 /\ Len(order) \in Nat
        BY <3>1, <4>1, AppendLemma, LenProperties
      <4> QED
        BY <4>2
    <3> QED
      BY <1>1, <1>7, <3>1, <3>2 DEF FlagMap, Received, Readable
  <2>2. CASE AssignNew(v) \/ AssignLit(v) \/ AssignMove(v, u)
    <3>1. /\ v \notin Params /\ flag[v] # "out"
          /\ \/ flag' = [flag EXCEPT ![v] = "own"]
             \/ flag' = [flag EXCEPT ![v] = "lent"]
             \/ /\ flag' = [flag EXCEPT ![u] = "moved", ![v] = Received(u)]
                /\ u \in Readable
      BY <2>2 DEF AssignNew, AssignLit, AssignMove, Assignable
    <3> QED
      BY <1>1, <3>1 DEF FlagMap, Received, Readable
  <2>3. CASE UseVar(u) \/ Consume(u) \/ Discard(u)
    BY <1>1, <2>3 DEF UseVar, Consume, Discard, FlagMap, Readable
  <2> QED
    BY <2>1, <2>2, <2>3
<1>9. ScopeFull'
  BY <1>1, <1>7, <1>8, FullKept DEF Knows
<1> QED
  BY <1>4, <1>6, <1>9 DEF Knows

(* The drops of a scope end, as an instruction.                              *)
LEMMA LeaveComplete ==
  ASSUME TypeInv, CompilerInv, ScopeFull, NEW k \in Nat, k <= Len(order), NEW i,
         i.op \in {"leave", "jmp"}, i.d = Drops(k)
  PROVE  Complete(i, flag) /\ Post(i, flag) = Outside(flag, k)
<1>1. Complete(i, flag)
  BY DropsComplete DEF Complete
<1>2. Post(i, flag) = Outside(flag, k)
  BY DropsLegal DEF Post, CompilerInv
<1> QED
  BY <1>1, <1>2

LEMMA BlockKnows ==
  ASSUME TypeInv, CompilerInv, Knows, OpenBlock \/ CloseBlock
  PROVE  Knows'
<1>1. CASE OpenBlock
  <2>1. flag \in FlagMap /\ Len(order) \in Nat /\ "block" \in FrameKind
    BY FrameTypes DEF TypeInv, TypeOK, ElabTypeOK, FrameKind
  <2>2. PICK F \in FrameSet : /\ F = Frame("block", 0, 0, 0)
                              /\ F.mark = Len(order)
                              /\ F.base = flag /\ F.save = flag
    <3>1. /\ Frame("block", 0, 0, 0) \in FrameSet
          /\ Frame("block", 0, 0, 0).mark = Len(order)
          /\ Frame("block", 0, 0, 0).base = flag
          /\ Frame("block", 0, 0, 0).save = flag
      BY <2>1, NewFrameType
    <3> QED
      BY <3>1
  <2>3. /\ ctl' = Append(ctl, F)
        /\ UNCHANGED <<flag, order, term, code, at, ann, into>>
    BY <1>1, <2>2 DEF OpenBlock
  <2>4. CodeExact'
    BY <2>3, ExactStay DEF CompilerInv, Knows
  <2>5. LabelExact'
    BY <2>3, StayKeeps, LabelsExact DEF CompilerInv, Knows
  <2>6. ScopeFull'
    BY <2>2, <2>3, FullPush DEF Knows
  <2> QED
    BY <2>4, <2>5, <2>6 DEF Knows
<1>2. CASE CloseBlock
  <2>1. /\ ctl # <<>> /\ ctl' = Pop /\ CutScope
        /\ flag' = Outside(flag, Top.mark)
        /\ UNCHANGED <<term, at, into>>
    BY <1>2 DEF CloseBlock, TopIs
  <2>2. Top.mark \in Nat /\ Top.mark <= Len(order)
    BY <2>1, PopTypes
  <2>3. CodeExact' /\ Keeps
    <3>1. CASE term = "open"
      <4>1. Drops(Top.mark) \in DropList
        BY <2>1, <2>2, DropsType DEF TypeInv, TypeOK, ElabTypeOK
      <4>2. PICK i \in Inst : /\ i = DropAll(Drops(Top.mark)) /\ i.op = "leave"
                              /\ i.d = Drops(Top.mark)
        BY <4>1, LeaveType
      <4>3. Emit(i)
        BY <1>2, <3>1, <4>2 DEF CloseBlock
      <4>4. Complete(i, flag) /\ Post(i, flag) = flag'
        BY <2>1, <2>2, <4>2, LeaveComplete DEF Knows
      <4>5. CodeExact'
        BY <4>3, <4>4, ExactEmit, RetainsSelf DEF CompilerInv, Knows
      <4> QED
        BY <4>3, <4>5, EmitKeeps DEF CompilerInv
    <3>2. CASE term # "open"
      BY <1>2, <2>1, <3>2, ExactStay, StayKeeps DEF CloseBlock, CompilerInv, Knows
    <3> QED
      BY <3>1, <3>2
  <2>4. \A k \in DOMAIN ctl' : /\ k \in DOMAIN ctl /\ ctl'[k] = ctl[k]
                              /\ k # Len(ctl)
    BY <2>1, PopTypes, FrameTypes
  <2>5. Full(order, flag', Top.mark)
    BY <2>1, <2>2, FullOutside DEF Knows
  <2>6. Len(ctl) \notin DOMAIN ctl'
    BY <2>4
  <2>7. ScopeFull'
    BY <2>1, <2>4, <2>5, <2>6, FullCut DEF Knows, Rebased
  <2>8. LabelExact'
    BY <2>1, <2>3, LabelsExact DEF Knows
  <2> QED
    BY <2>3, <2>7, <2>8 DEF Knows
<1> QED
  BY <1>1, <1>2

LEMMA RetComplete ==
  ASSUME TypeInv, ScopeFull, NEW u, NEW d, NEW i, d.vs = Drops(0).vs,
         d.own = Drops(0).own \ {u}, i.op = "ret", i.v = u, i.d = d
  PROVE  Complete(i, flag)
<1>1. 0 \in Nat /\ 0 <= Len(order)
  BY LenProperties DEF TypeInv, TypeOK, ElabTypeOK
<1>2. CompleteDrops(d, flag, {u})
  BY <1>1, DropsComplete DEF CompleteDrops
<1>3. \A v \in Claims(flag) \ Params : \E k \in DOMAIN d.vs : d.vs[k] = v
  BY DropsAll
<1> QED
  BY <1>2, <1>3 DEF Complete

LEMMA FinishKnows ==
  ASSUME TypeInv, CompilerInv, Knows,
         \/ Finish \/ (\E u \in Vars : UseMoved(u))
         \/ (\E u \in Vars \cup {NoVar} : Return(u))
  PROVE  Knows'
<1>1. /\ UNCHANGED <<order, ctl, at, into>> /\ flag \in FlagMap
      /\ Drops(0) \in DropList
  <2>1. UNCHANGED <<order, ctl, at, into>>
    BY DEF Finish, UseMoved, Return, Stmt
  <2>2. flag \in FlagMap /\ order \in Seq(Vars) /\ 0 \in Nat /\ 0 <= Len(order)
    BY LenProperties DEF TypeInv, TypeOK, ElabTypeOK
  <2> QED
    BY <2>1, <2>2, DropsType
<1>2. \A v \in Vars : \/ flag'[v] = flag[v]
                      \/ flag'[v] = "moved" /\ flag[v] # "out"
  <2>1. ASSUME NEW u \in Vars \cup {NoVar}, Return(u), NEW v \in Vars
        PROVE  flag'[v] = flag[v] \/ (flag'[v] = "moved" /\ flag[v] # "out")
    <3>1. /\ u \in Readable \cup {NoVar}
          /\ flag'[v] = IF v = u THEN "moved" ELSE flag[v]
      BY <2>1 DEF Return
    <3>2. v = u => flag[v] # "out"
      BY <3>1, ElabAssumption DEF Readable
    <3> QED
      BY <3>1, <3>2
  <2> QED
    BY <2>1 DEF Finish, UseMoved
<1>3. ScopeFull'
  BY <1>1, <1>2, GrowsNot, FullKept DEF Knows
<1>4. CodeExact' /\ Keeps
  <2>1. CASE \E i \in Inst : Emit(i) /\ i.op = "ret" /\ Complete(i, flag)
    BY <2>1, ExactEmit, EmitKeeps DEF CompilerInv, Knows
  <2>2. CASE UNCHANGED <<code, ann, flag, term>>
    BY <2>2, ExactStay, StayKeeps DEF CompilerInv, Knows
  <2>3. CASE Finish /\ term # "open"
    <3>1. UNCHANGED <<code, ann, flag>> /\ term' = "ret"
      BY <2>3 DEF Finish
    <3>2. \A m \in DOMAIN at : at[m] \in Nat /\ at[m] <= Len(code)
      <4>1. Len(code) \in Nat /\ \A m \in DOMAIN at : at[m] \in Nat
        BY ElementOfSeq, LenProperties DEF TypeInv, TypeOK, ElabTypeOK
      <4> QED
        BY <2>3, <4>1 DEF CompilerInv, LabelInv
    <3>3. Len(code) \in Nat
      BY LenProperties DEF TypeInv, TypeOK, ElabTypeOK
    <3>4. CodeExact'
      BY <2>3, <3>1, ExactStay DEF CompilerInv, Knows
    <3> QED
      BY <3>1, <3>2, <3>3, <3>4 DEF Keeps, StateAt
  <2>4. CASE Finish /\ term = "open"
    <3>1. PICK i \in Inst : i = Ret(NoVar, Drops(0)) /\ i.op = "ret"
                            /\ i.v = NoVar /\ i.d = Drops(0)
      <4>1. NoVar \in Vars \cup {NoVar}
        OBVIOUS
      <4> QED
        BY <1>1, <4>1, RetType
    <3>2. Drops(0).own = Drops(0).own \ {NoVar}
      BY ElabAssumption DEF Drops, Owned
    <3>3. Complete(i, flag)
      BY <3>1, <3>2, RetComplete DEF Knows
    <3>4. Emit(i)
      BY <2>4, <3>1 DEF Finish
    <3> QED
      BY <2>1, <3>1, <3>3, <3>4
  <2>5. ASSUME NEW u \in Vars \cup {NoVar}, Return(u)
        PROVE  CodeExact' /\ Keeps
    <3>1. PICK d \in DropList : /\ d = [Drops(0) EXCEPT !.own = @ \ {u}]
                                /\ d.vs = Drops(0).vs
                                /\ d.own = Drops(0).own \ {u}
      <4>1. /\ [Drops(0) EXCEPT !.own = @ \ {u}] \in DropList
            /\ [Drops(0) EXCEPT !.own = @ \ {u}].vs = Drops(0).vs
            /\ [Drops(0) EXCEPT !.own = @ \ {u}].own = Drops(0).own \ {u}
        BY <1>1 DEF DropList
      <4> QED
        BY <4>1
    <3>2. PICK i \in Inst : i = Ret(u, d) /\ i.op = "ret" /\ i.v = u /\ i.d = d
      BY <3>1, RetType
    <3>3. Complete(i, flag)
      BY <3>1, <3>2, RetComplete DEF Knows
    <3>4. Emit(i)
      BY <2>5, <3>1, <3>2 DEF Return
    <3> QED
      BY <2>1, <3>2, <3>3, <3>4
  <2>6. CASE \E u \in Vars : UseMoved(u)
    BY <2>2, <2>6 DEF UseMoved, Stmt
  <2> QED
    BY <2>3, <2>4, <2>5, <2>6
<1>5. LabelExact'
  BY <1>1, <1>4, LabelsExact DEF Knows
<1> QED
  BY <1>3, <1>4, <1>5 DEF Knows

(* The beginning of an if, a loop or a match.                                *)
LEMMA OpenedKnows ==
  ASSUME TypeInv, CompilerInv, Knows, UNCHANGED <<flag, order, term>>,
         NEW kind \in {"then", "loop", "arm"}, NEW head \in Nat, NEW next \in Nat,
         NEW a \in Nat, NEW A \in SUBSET FlagMap, NEW B \in SUBSET FlagMap,
         NEW n \in Nat, n = Len(at),
         ctl' = Append(ctl, Frame(kind, head, next, n + 2)),
         NewLabels(a, 0), NewEdges(A, B), a = 0 \/ A = {},
         UNCHANGED <<code, ann>> \/ (\E l \in Nat : Emit(Branch(l)))
  PROVE  Knows'
<1>1. /\ flag \in FlagMap /\ at \in Seq(Nat) /\ into \in Seq(SUBSET FlagMap)
      /\ Len(into) = n /\ DOMAIN at = 1..n /\ Len(order) \in Nat
  BY FrameTypes, LenProperties DEF TypeInv, TypeOK, ElabTypeOK, LabelsKnown
<1>2. /\ DOMAIN at' = 1..(n + 2) /\ at'[n + 1] = a /\ at'[n + 2] = 0
      /\ \A m \in 1..n : at'[m] = at[m]
  <2>1. at' = Append(Append(at, a), 0) /\ 0 \in Nat
    BY DEF NewLabels
  <2> QED
    BY <1>1, <2>1, AppendTwo
<1>3. into'[n + 1] = A /\ \A m \in 1..n : into'[m] = into[m]
  <2>1. into' = Append(Append(into, A), B)
    BY DEF NewEdges
  <2> QED
    BY <1>1, <2>1, AppendTwo
<1>4. PICK F \in FrameSet : /\ ctl' = Append(ctl, F) /\ F.mark = Len(order)
                            /\ F.base = flag /\ F.save = flag
  <2>1. kind \in FrameKind /\ n + 2 \in Nat
    BY DEF FrameKind
  <2>2. /\ Frame(kind, head, next, n + 2) \in FrameSet
        /\ Frame(kind, head, next, n + 2).mark = Len(order)
        /\ Frame(kind, head, next, n + 2).base = flag
        /\ Frame(kind, head, next, n + 2).save = flag
    BY <1>1, <2>1 DEF Frame, FrameSet
  <2> QED
    BY <2>2
<1>5. ScopeFull'
  BY <1>4, FullPush DEF Knows
<1>6. CodeExact' /\ Keeps
  <2>1. CASE UNCHANGED <<code, ann>>
    BY <2>1, ExactStay, StayKeeps DEF CompilerInv, Knows
  <2>2. ASSUME NEW l \in Nat, Emit(Branch(l))
        PROVE  CodeExact' /\ Keeps
    <3>1. PICK i \in Inst : i = Branch(l) /\ i.op = "br"
      <4>1. Branch(l) \in Inst /\ Branch(l).op = "br"
        BY DEF Branch, Inst
      <4> QED
        BY <4>1
    <3>2. Complete(i, flag) /\ Post(i, flag) = flag'
      BY <3>1 DEF Complete, Post
    <3> QED
      BY <2>2, <3>1, <3>2, ExactEmit, EmitKeeps, RetainsSelf DEF CompilerInv, Knows
  <2> QED
    BY <2>1, <2>2
<1>7. \A m \in DOMAIN at' :
        \/ at'[m] = 0
        \/ into'[m] = {}
        \/ m \in DOMAIN at /\ at'[m] = at[m] /\ into'[m] = into[m]
  <2>1. \A m \in DOMAIN at' : m \in 1..n \/ m = n + 1 \/ m = n + 2
    BY <1>2
  <2> QED
    BY <1>1, <1>2, <1>3, <2>1
<1>8. LabelExact'
  BY <1>6, <1>7, ExactLabels DEF Knows
<1> QED
  BY <1>5, <1>6, <1>8 DEF Knows

LEMMA OpenKnows ==
  ASSUME TypeInv, CompilerInv, Knows,
         OpenIf \/ OpenLoop \/ OpenWhile \/ OpenArms
  PROVE  Knows'
<1>1. PICK n \in Nat : n = Len(at)
  BY LenProperties DEF TypeInv, TypeOK, ElabTypeOK
<1>2. /\ {flag} \in SUBSET FlagMap /\ {} \in SUBSET FlagMap
      /\ n + 1 \in Nat /\ n + 2 \in Nat /\ Len(code) + 1 \in Nat
  BY LenProperties DEF TypeInv, TypeOK, ElabTypeOK
<1>3. UNCHANGED <<flag, order, term>>
  BY DEF OpenIf, OpenLoop, OpenWhile, OpenArms
<1>4. CASE OpenIf \/ OpenArms
  <2>1. PICK kind \in {"then", "arm"} : ctl' = Append(ctl, Frame(kind, 0, n + 1, n + 2))
    BY <1>1, <1>4 DEF OpenIf, OpenArms
  <2>2. NewLabels(0, 0) /\ NewEdges({flag}, {}) /\ Emit(Branch(n + 1))
    BY <1>1, <1>4 DEF OpenIf, OpenArms
  <2> QED
    BY <1>1, <1>2, <1>3, <2>1, <2>2, OpenedKnows
<1>5. CASE OpenLoop
  <2>1. /\ ctl' = Append(ctl, Frame("loop", n + 1, 0, n + 2))
        /\ NewLabels(Len(code) + 1, 0) /\ NewEdges({}, {}) /\ UNCHANGED <<code, ann>>
    BY <1>1, <1>5 DEF OpenLoop
  <2> QED
    BY <1>1, <1>2, <1>3, <2>1, OpenedKnows
<1>6. CASE OpenWhile
  <2>1. /\ ctl' = Append(ctl, Frame("loop", n + 1, 0, n + 2))
        /\ NewLabels(Len(code) + 1, 0) /\ NewEdges({}, {flag}) /\ Emit(Branch(n + 2))
    BY <1>1, <1>6 DEF OpenWhile
  <2> QED
    BY <1>1, <1>2, <1>3, <2>1, OpenedKnows
<1> QED
  BY <1>4, <1>5, <1>6

(* The innermost construct is closed, or switches to its second branch F.    *)
LEMMA ClosedKnows ==
  ASSUME TypeInv, TypeInv', CompilerInv, Knows, ctl # <<>>, term' = "open", CutScope,
         NEW l \in DOMAIN at, FallInto(l, Top.mark),
         into' = [into EXCEPT ![l] = @ \cup FallEdge(Top.mark)],
         at[l] # 0 => \A f \in FallEdge(Top.mark) : f = StateAt(at[l]),
         NEW p \in DOMAIN at, at[p] = 0, at' = Place(at, p),
         \A f \in into'[p] : f = flag',
         Full(order, flag', Top.mark),
         \/ ctl' = Pop
         \/ \E F \in FrameSet :
              /\ \E P : Around(P) /\ ctl' = Append(P, F)
              /\ F.mark = Top.mark
              /\ Full(order, F.base, Top.mark) /\ Full(order, F.save, Top.mark)
  PROVE  Knows'
<1>1. /\ Keeps
      /\ DOMAIN at' = DOMAIN at /\ at'[p] = Len(code') + 1
      /\ \A m \in DOMAIN at : m # p => at'[m] = at[m]
      /\ StateAt(Len(code) + 1)' = flag'
      /\ Top.mark \in Nat /\ Top.mark <= Len(order)
  BY FallPlaceKeeps, PopTypes
<1>2. /\ \A m \in DOMAIN at : m # l => into'[m] = into[m]
      /\ into'[l] = into[l] \cup FallEdge(Top.mark)
  BY LenProperties DEF TypeInv, TypeOK, ElabTypeOK, LabelsKnown
<1>3. CodeExact'
  <2>1. CASE term = "open"
    <3>1. PICK i \in Inst : i = Jump(l, Drops(Top.mark)) /\ i.op = "jmp"
                            /\ i.d = Drops(Top.mark)
      <4>1. Drops(Top.mark) \in DropList
        BY <1>1, DropsType DEF TypeInv, TypeOK, ElabTypeOK
      <4>2. l \in Nat
        BY LenProperties DEF TypeInv, TypeOK, ElabTypeOK
      <4> QED
        BY <4>1, <4>2, JumpTypes
    <3>2. Complete(i, flag)
      BY <1>1, <3>1, LeaveComplete DEF Knows
    <3>3. Emit(i)
      BY <2>1, <3>1 DEF FallInto
    <3> QED
      BY <3>1, <3>2, <3>3, ExactEmit DEF CompilerInv, Knows
  <2>2. CASE term # "open"
    BY <2>2, ExactStay DEF FallInto, CompilerInv, Knows
  <2> QED
    BY <2>1, <2>2
<1>4. ASSUME NEW m \in DOMAIN at'
      PROVE  \/ at'[m] = 0
             \/ /\ m \in DOMAIN at /\ at'[m] = at[m]
                /\ \A f \in into'[m] : f \in into[m] \/ Retains(f, StateAt(at[m]))
             \/ \A f \in into'[m] : Retains(f, StateAt(at[m])')
  <2>1. CASE m = p
    <3>1. StateAt(at[p])' = flag'
      BY <1>1 DEF StateAt
    <3>2. \A f \in into'[p] : Retains(f, StateAt(at[p])')
      BY <3>1, RetainsSelf
    <3> QED
      BY <2>1, <3>2
  <2>2. CASE m # p /\ m = l
    <3>1. at[l] # 0 => \A f \in FallEdge(Top.mark) : Retains(f, StateAt(at[l]))
      BY RetainsSelf
    <3> QED
      BY <1>1, <1>2, <2>2, <3>1
  <2>3. CASE m # p /\ m # l
    BY <1>1, <1>2, <2>3
  <2> QED
    BY <2>1, <2>2, <2>3
<1>5. LabelExact'
  BY <1>1, <1>4, ExactLabels DEF Knows
<1>6. /\ Len(ctl) \in Nat /\ DOMAIN ctl = 1..Len(ctl) /\ Len(ctl) \in DOMAIN ctl
      /\ Top = ctl[Len(ctl)]
      /\ Pop \in Seq(FrameSet) /\ Len(Pop) = Len(ctl) - 1
      /\ DOMAIN Pop = 1..(Len(ctl) - 1)
      /\ \A k \in DOMAIN Pop : Pop[k] = ctl[k]
  BY PopTypes, FrameTypes DEF Top
<1>7. CASE ctl' = Pop
  <2>1. \A k \in DOMAIN ctl' : /\ k \in DOMAIN ctl /\ ctl'[k] = ctl[k] /\ k # Len(ctl)
    BY <1>6, <1>7
  <2>2. Len(ctl) \notin DOMAIN ctl'
    BY <2>1
  <2>3. ScopeFull'
    BY <2>1, <2>2, FullCut DEF Knows, Rebased
  <2> QED
    BY <1>3, <1>5, <2>3 DEF Knows
<1>8. ASSUME NEW F \in FrameSet, NEW P, Around(P), ctl' = Append(P, F),
             F.mark = Top.mark,
             Full(order, F.base, Top.mark), Full(order, F.save, Top.mark)
      PROVE  Knows'
  <2>2. DOMAIN ctl' = DOMAIN ctl /\ ctl'[Len(ctl)] = F
    BY <1>8, AroundAppend
  <2>3. \A k \in DOMAIN ctl' : k # Len(ctl) => Rebased(ctl[k], ctl'[k])
    BY <1>8, <2>2, AroundAppend
  <2>4. \A k \in DOMAIN ctl' : k \in DOMAIN ctl /\ ctl'[k].mark = ctl[k].mark
    BY <1>6, <1>8, <2>2, <2>3 DEF Rebased
  <2>5. /\ Full(order, ctl'[Len(ctl)].base, Top.mark)
        /\ Full(order, ctl'[Len(ctl)].save, Top.mark)
    BY <1>8, <2>2
  <2>6. ScopeFull'
    BY <2>3, <2>4, <2>5, FullCut DEF Knows
  <2> QED
    BY <1>3, <1>5, <2>6 DEF Knows
<1> QED
  BY <1>7, <1>8

(* What is full at the innermost construct.                                  *)
LEMMA TopFull ==
  ASSUME TypeInv, ScopeFull, ctl # <<>>
  PROVE  /\ Full(order, Top.base, Top.mark) /\ Full(order, Top.save, Top.mark)
         /\ Full(order, Outside(flag, Top.mark), Top.mark)
<1>1. Len(ctl) \in DOMAIN ctl /\ Top = ctl[Len(ctl)]
  BY PopTypes DEF Top
<1>2. Top.mark \in Nat /\ Top.mark <= Len(order)
  BY PopTypes
<1>3. Full(order, Outside(flag, Top.mark), Top.mark)
  BY <1>2, FullOutside
<1>4. Full(order, Top.base, Top.mark) /\ Full(order, Top.save, Top.mark)
  BY <1>1 DEF ScopeFull
<1> QED
  BY <1>3, <1>4

LEMMA AgreesExact ==
  ASSUME Exact, NEW kind, NEW f, NEW g, Agrees(kind, f, g)
  PROVE  f = g
  BY DEF Exact, Agrees

LEMMA BranchKnows ==
  ASSUME Exact, TypeInv, TypeInv', CompilerInv, Knows, Else \/ NextArm
  PROVE  Knows'
<1>0. ctl # <<>> /\ Top.kind \in {"then", "arm"}
  BY DEF Else, Restored, NextArm, TopIs
<1>1. PICK T \in FrameSet : T = Top
  BY <1>0, TopFacts
<1>2. PICK l \in DOMAIN at : l = T.exit
  BY <1>0, <1>1, TopFacts DEF FrameKnown
<1>3. PICK p \in DOMAIN at : p = T.next
  BY <1>0, <1>1, TopFacts DEF FrameKnown
<1>4. at[l] = 0 /\ at[p] = 0 /\ p # l /\ into[p] = {T.base}
  BY <1>0, <1>1, <1>2, <1>3, TopFacts DEF FrameOK, Branching
<1>5. /\ term' = "open" /\ CutScope /\ FallInto(l, Top.mark)
      /\ into' = [into EXCEPT ![l] = @ \cup FallEdge(Top.mark)]
      /\ at' = Place(at, p)
  BY <1>1, <1>2, <1>3 DEF Else, Restored, NextArm
<1>6. into'[p] = into[p] /\ into'[p] = {T.base}
  BY <1>0, <1>2, <1>3, <1>4, <1>5, TopFacts
<1>7. /\ Full(order, T.base, Top.mark) /\ Full(order, T.save, Top.mark)
      /\ Full(order, Outside(flag, Top.mark), Top.mark)
      /\ Outside(flag, Top.mark) \in FlagMap
  BY <1>0, <1>1, TopFull, TopFacts DEF Knows
<1>8. CASE Else
  <2>1. flag' = T.base
    BY <1>1, <1>8 DEF Else, Restored
  <2>2. PICK F : F = [T EXCEPT !.kind = "else", !.live = TRUE,
                               !.save = Outside(flag, Top.mark),
                               !.ret = (term = "ret")]
    OBVIOUS
  <2>3. /\ F \in FrameSet /\ F.mark = Top.mark
        /\ F.base = T.base /\ F.save = Outside(flag, Top.mark)
    BY <1>1, <1>7, <2>2 DEF FrameSet, FrameKind
  <2>4. ctl' = Append(Abandoned(Pop), F) /\ Around(Abandoned(Pop))
    BY <1>0, <1>1, <1>8, <2>2, AroundPop DEF Else
  <2>5. \A f \in into'[p] : f = flag'
    BY <1>6, <2>1
  <2> QED
    BY <1>0, <1>4, <1>5, <1>7, <2>1, <2>3, <2>4, <2>5, ClosedKnows
<1>9. CASE NextArm
  <2>1. flag' = Outside(flag, Top.mark) /\ AllAgree("arms", into[p], flag')
    BY <1>1, <1>3, <1>9 DEF NextArm
  <2>2. PICK F : F = [T EXCEPT !.kind = "last"]
    OBVIOUS
  <2>3. /\ F \in FrameSet /\ F.mark = Top.mark /\ F.base = T.base /\ F.save = T.save
    BY <1>1, <2>2 DEF FrameSet, FrameKind
  <2>4. ctl' = Append(Pop, F) /\ Around(Pop)
    BY <1>0, <1>1, <1>9, <2>2, AroundPop DEF NextArm
  <2>5. \A f \in into'[p] : f = flag'
    BY <1>6, <2>1, AgreesExact DEF AllAgree
  <2> QED
    BY <1>0, <1>4, <1>5, <1>7, <2>1, <2>3, <2>4, <2>5, ClosedKnows
<1> QED
  BY <1>8, <1>9

LEMMA EndKnows ==
  ASSUME Exact, TypeInv, TypeInv', CompilerInv, Knows, EndIf \/ EndLoop \/ EndArms
  PROVE  Knows'
<1>0. ctl # <<>> /\ Top.kind \in {"else", "loop", "last"}
  BY DEF EndIf, EndLoop, EndArms, TopIs
<1>1. PICK T \in FrameSet : T = Top
  BY <1>0, TopFacts
<1>2. PICK p \in DOMAIN at : p = T.exit
  BY <1>0, <1>1, TopFacts DEF FrameKnown
<1>3. at[p] = 0
  BY <1>0, <1>1, <1>2, TopFacts DEF FrameOK
<1>4. term' = "open" /\ CutScope /\ at' = Place(at, p) /\ ctl' = Pop
  BY <1>1, <1>2 DEF EndIf, EndLoop, EndArms
<1>5. PICK g \in FlagMap : g = Outside(flag, Top.mark)
  BY <1>0, TopFacts
<1>6. /\ T.base \in FlagMap /\ T.save \in FlagMap /\ Full(order, g, Top.mark)
      /\ Full(order, T.base, Top.mark) /\ Full(order, T.save, Top.mark)
  BY <1>0, <1>1, <1>5, TopFull, TopFacts DEF Knows
<1>7. CASE EndIf \/ EndArms
  <2>1. /\ flag' \in {Merged, g} /\ FallInto(p, Top.mark)
        /\ into' = [into EXCEPT ![p] = @ \cup FallEdge(Top.mark)]
        /\ \E kind \in {"if", "arms"} : AllAgree(kind, into'[p], flag')
    BY <1>1, <1>2, <1>5, <1>7 DEF EndIf, EndArms
  <2>2. \A f \in into'[p] : f = flag'
    BY <2>1, AgreesExact DEF AllAgree
  <2>3. Merged \in {T.base, g, T.save, Merge(T.save, g)}
    BY <1>1, <1>5 DEF Merged
  <2>4. Full(order, Merge(T.save, g), Top.mark)
    BY <1>6, FullMerge
  <2>5. Full(order, flag', Top.mark)
    BY <1>6, <2>1, <2>3, <2>4
  <2> QED
    BY <1>0, <1>3, <1>4, <2>1, <2>2, <2>5, ClosedKnows
<1>8. CASE EndLoop
  <2>1. PICK l \in DOMAIN at : l = T.head
    BY <1>0, <1>1, <1>8, TopFacts DEF FrameKnown, EndLoop, TopIs
  <2>2. /\ T.kind = "loop" /\ flag' = g /\ FallInto(l, Top.mark)
        /\ into' = [into EXCEPT ![l] = @ \cup FallEdge(Top.mark)]
        /\ AllAgree("loop", FallEdge(Top.mark), T.base)
        /\ AllAgree("loop", into[p], flag')
    BY <1>1, <1>2, <1>5, <1>8, <2>1 DEF EndLoop, TopIs
  <2>3. at[l] # 0 /\ StateAt(at[l]) = T.base
    BY <1>0, <1>1, <2>1, <2>2, TopFacts DEF FrameOK
  <2>4. \A f \in FallEdge(Top.mark) : f = StateAt(at[l])
    BY <2>2, <2>3, AgreesExact DEF AllAgree
  <2>5. into'[p] = into[p]
    BY <1>0, <1>3, <2>1, <2>2, <2>3, TopFacts
  <2>6. \A f \in into'[p] : f = flag'
    BY <2>2, <2>5, AgreesExact DEF AllAgree
  <2>7. Full(order, flag', Top.mark)
    BY <1>6, <2>2
  <2> QED
    BY <1>0, <1>3, <1>4, <2>2, <2>4, <2>6, <2>7, ClosedKnows
<1> QED
  BY <1>7, <1>8

LEMMA LeaveKnows ==
  ASSUME Exact, TypeInv, CompilerInv, Knows, NEW k \in 1..MaxDepth,
         Break(k) \/ Continue(k)
  PROVE  Knows'
<1>1. k \in DOMAIN ctl /\ UNCHANGED <<flag, order, ctl, at>>
  BY DEF Break, Continue, Stmt
<1>2. PICK T \in FrameSet : T = ctl[k] /\ T.kind = "loop"
  BY FrameTypes DEF Break, Continue
<1>3. FrameOK(T) /\ FrameKnown(T) /\ T.mark \in Nat /\ T.mark <= Len(order)
  BY <1>1, <1>2, FrameTypes DEF CompilerInv, FrameInv, TypeInv, LabelsKnown, ScopesNest
<1>4. PICK s : s = Outside(flag, T.mark)
  OBVIOUS
<1>5. PICK l \in DOMAIN at :
        /\ Emit(Jump(l, Drops(T.mark)))
        /\ into' = [into EXCEPT ![l] = @ \cup {s}]
        /\ at[l] # 0 => s = StateAt(at[l])
  <2>1. CASE Break(k)
    BY <1>2, <1>3, <1>4, <2>1 DEF Break, FrameKnown, FrameOK
  <2>2. CASE Continue(k)
    <3>1. s = T.base
      BY <1>2, <1>4, <2>2, AgreesExact DEF Continue
    <3> QED
      BY <1>2, <1>3, <1>4, <2>2, <3>1 DEF Continue, FrameKnown, FrameOK
  <2> QED
    BY <2>1, <2>2
<1>6. PICK i \in Inst : i = Jump(l, Drops(T.mark)) /\ i.op = "jmp" /\ i.d = Drops(T.mark)
  <2>1. Drops(T.mark) \in DropList
    BY <1>3, DropsType DEF TypeInv, TypeOK, ElabTypeOK
  <2>2. l \in Nat
    BY LenProperties DEF TypeInv, TypeOK, ElabTypeOK
  <2> QED
    BY <2>1, <2>2, JumpTypes
<1>7. Complete(i, flag)
  BY <1>3, <1>6, LeaveComplete DEF Knows
<1>8. CodeExact' /\ Keeps
  BY <1>5, <1>6, <1>7, ExactEmit, EmitKeeps DEF CompilerInv, Knows
<1>9. DOMAIN at = DOMAIN into
  BY LenProperties DEF TypeInv, TypeOK, ElabTypeOK, LabelsKnown
<1>10. ASSUME NEW m \in DOMAIN at'
       PROVE  \/ at'[m] = 0
              \/ /\ m \in DOMAIN at /\ at'[m] = at[m]
                 /\ \A f \in into'[m] : f \in into[m] \/ Retains(f, StateAt(at[m]))
  <2>1. m = l \/ into'[m] = into[m]
    BY <1>1, <1>5, <1>9
  <2>2. into'[l] = into[l] \cup {s}
    BY <1>5, <1>9
  <2>3. at[l] # 0 => Retains(s, StateAt(at[l]))
    BY <1>5, RetainsSelf
  <2> QED
    BY <1>1, <2>1, <2>2, <2>3
<1>11. LabelExact'
  BY <1>8, <1>10, ExactLabels DEF Knows
<1>12. ScopeFull'
  BY <1>1, GrowsNot, FullKept DEF Knows
<1> QED
  BY <1>8, <1>11, <1>12 DEF Knows

LEMMA KnowsStep ==
  ASSUME Exact, TypeInv, TypeInv', CompilerInv, Knows, ElabNext
  PROVE  Knows'
<1>1. ASSUME NEW v \in Vars, LetNew(v) \/ LetLit(v) \/ AssignNew(v) \/ AssignLit(v)
      PROVE  Knows'
  BY <1>1, StatementKnows
<1>2. ASSUME NEW v \in Vars, NEW u \in Vars, LetMove(v, u) \/ AssignMove(v, u)
      PROVE  Knows'
  BY <1>2, StatementKnows
<1>3. ASSUME NEW v \in Vars, NEW u \in Vars, LetAgain(v, u)
      PROVE  Knows'
  BY <1>3 DEF LetAgain, Exact
<1>4. ASSUME NEW u \in Vars, UseVar(u) \/ Consume(u) \/ Discard(u)
      PROVE  Knows'
  BY <1>4, StatementKnows
<1>5. ASSUME NEW u \in Vars, UseMoved(u) PROVE Knows'
  BY <1>5, FinishKnows
<1>6. ASSUME NEW u \in Vars \cup {NoVar}, Return(u) PROVE Knows'
  BY <1>6, FinishKnows
<1>7. CASE OpenBlock \/ CloseBlock
  BY <1>7, BlockKnows
<1>8. CASE OpenIf \/ OpenLoop \/ OpenWhile \/ OpenArms
  BY <1>8, OpenKnows
<1>9. CASE Else \/ NextArm
  BY <1>9, BranchKnows
<1>10. CASE EndIf \/ EndLoop \/ EndArms
  BY <1>10, EndKnows
<1>11. ASSUME NEW k \in 1..MaxDepth, Break(k) \/ Continue(k) PROVE Knows'
  BY <1>11, LeaveKnows
<1>12. CASE Finish
  BY <1>12, FinishKnows
<1> QED
  BY <1>1, <1>2, <1>3, <1>4, <1>5, <1>6, <1>7, <1>8, <1>9, <1>10, <1>11, <1>12
     DEF ElabNext

LEMMA ExactIsDisciplined ==
  ASSUME Exact
  PROVE  Disciplined
  BY DEF Exact, Disciplined

LEMMA LeakInit == Init => LeakInv
<1> SUFFICES ASSUME Init PROVE LeakInv
  OBVIOUS
<1>1. /\ code = <<>> /\ at = <<>> /\ ctl = <<>> /\ order = <<>>
      /\ flag = StartFlag /\ phase = "compile" /\ status = "running"
  BY DEF Init, ElabInit, StartFlag, ExecInit
<1>2. /\ DOMAIN code = {} /\ DOMAIN at = {} /\ DOMAIN ctl = {} /\ DOMAIN order = {}
      /\ Len(order) = 0
  BY <1>1, EmptySeq, LenProperties
<1>3. CodeExact /\ LabelExact
  BY <1>2 DEF CodeExact, LabelExact
<1>4. ScopeFull
  BY <1>1, <1>2 DEF ScopeFull, Full, StartFlag
<1>5. ASSUME NEW c \in Cells
      PROVE  /\ owner[c] # Lost
             /\ owner[c] \in Vars => owner[c] \in Claims(StartFlag) /\ env[owner[c]] = c
  <2>1. owner[c] = IF \E v \in Params : env[v] = c
                   THEN CHOOSE v \in Params : env[v] = c ELSE Released
    BY DEF Init, ExecInit
  <2>2. Lost \notin Vars /\ Released \notin Vars /\ Lost # Released
    BY ExecAssumption
  <2>3. CASE \E v \in Params : env[v] = c
    <3>1. owner[c] \in Params /\ env[owner[c]] = c
      BY <2>1, <2>3
    <3> QED
      BY <2>2, <3>1, ElabAssumption DEF Claims, StartFlag
  <2>4. CASE ~(\E v \in Params : env[v] = c)
    BY <2>1, <2>2, <2>4
  <2> QED
    BY <2>3, <2>4
<1>6. OwnersKnown
  BY <1>1, <1>5 DEF OwnersKnown, AllOwned
<1>7. NoLeak
  BY <1>1, <1>5 DEF NoLeak
<1> QED
  BY <1>3, <1>4, <1>6, <1>7 DEF LeakInv

LEMMA LeakNext ==
  ASSUME Exact, IInv, LeakInv, [Next]_vars
  PROVE  LeakInv'
<1>1. TypeInv /\ CompilerInv /\ ExecInv /\ IInv' /\ TypeInv'
  BY NextInv, ExactIsDisciplined DEF IInv
<1>2. Knows /\ OwnersKnown /\ CodeExact /\ LabelExact
  BY DEF LeakInv, Knows
<1>3. CASE ElabNext /\ UNCHANGED execVars
  <2>1. Knows'
    BY <1>1, <1>2, <1>3, KnowsStep
  <2>2. OwnersKnown' /\ NoLeak'
    BY <1>1, <1>2, <1>3, OwnersWait
  <2> QED
    BY <2>1, <2>2 DEF LeakInv, Knows
<1>4. CASE UNCHANGED elabVars
  <2>1. UNCHANGED <<phase, flag, order, ctl, term, code, at, ann, into>>
    BY <1>4 DEF elabVars
  <2>2. Knows'
    BY <1>1, <1>2, <2>1, ExactStay, StayKeeps, LabelsExact, GrowsNot, FullKept
       DEF CompilerInv, Knows
  <2>3. CASE ExecStep
    BY <1>2, <1>4, <2>2, <2>3, OwnersStep DEF LeakInv, Knows
  <2>4. CASE UNCHANGED execVars
    <3>1. UNCHANGED <<pc, env, owner, status>>
      BY <2>4 DEF execVars
    <3>2. NoLeak'
      BY <3>1 DEF LeakInv, NoLeak
    <3>3. OwnersKnown'
      BY <1>2, <2>1, <3>1 DEF OwnersKnown, AllOwned
    <3> QED
      BY <2>2, <3>2, <3>3 DEF LeakInv, Knows
  <2> QED
    BY <2>3, <2>4 DEF Next, vars
<1> QED
  BY <1>3, <1>4 DEF Next, vars, elabVars, execVars

(* For programs whose meeting states are equal the compiler's states also    *)
(* claim all there is: every live value has an owner, and the state recorded *)
(* at the instruction that is executed knows it.                             *)
THEOREM LeakInvariance ==
  ASSUME Exact
  PROVE  Spec => []LeakInv
<1>1. Init => LeakInv
  BY LeakInit
<1>2. IInv /\ LeakInv /\ [Next]_vars => LeakInv'
  BY LeakNext
<1>3. Spec => []IInv
  BY Invariance, ExactIsDisciplined
<1> QED
  BY <1>1, <1>2, <1>3, PTL DEF Spec

(* Nothing is overwritten or left in a scope while it owns a value, and when *)
(* the function has returned no local owns one.                              *)
THEOREM NothingLeaks ==
  ASSUME Exact
  PROVE  Spec => []NoLeak
<1>1. LeakInv => NoLeak
  BY DEF LeakInv
<1> QED
  BY <1>1, LeakInvariance, PTL
=============================================================================
