---------------------------- MODULE ExpandProofs ----------------------------
(***************************************************************************)
(* Macro expansion is all or nothing, replaces every expansion that the    *)
(* walk gets to, and reads the text of statements and expressions with     *)
(* every struct known: for any programs, of any depth, and any yields.     *)
(***************************************************************************)
EXTENDS MacroExpand, SequenceTheorems, FiniteSetTheorems, WellFoundedInduction, TLAPS

(* Places *)

LEMMA LeastNat ==
  ASSUME NEW T, T \subseteq Nat, T # {}
  PROVE  \E n \in T : \A m \in T : n <= m
<1>1. PICK n \in T : \A m \in T : ~(<<m, n>> \in OpToRel(<, Nat))
  BY NatLessThanWellFounded, WFMin, Zenon
<1>2. ASSUME NEW m \in T
      PROVE  n <= m
  <2>1. ~(m < n)
    BY <1>1, <1>2 DEF OpToRel
  <2> QED
    BY <2>1, <1>2
<1> QED
  BY <1>2

\* The places around a place.
LEMMA PlacesAround ==
  ASSUME NEW p \in Seq(Nat), NEW n \in 1 .. Len(p)
  PROVE  /\ Up(p, n) \in Seq(Nat) /\ Len(Up(p, n)) = n /\ Up(p, n) # <<>>
         /\ Up(p, n)[1] = p[1]
         /\ \A m \in 1 .. n : Up(Up(p, n), m) = Up(p, m)
         /\ Front(Up(p, n)) = Up(p, n - 1)
         /\ IsPrefix(Up(p, n), p)
<1>1. Len(p) \in Nat /\ \A i \in 1 .. Len(p) : p[i] \in Nat
  BY LenProperties, ElementOfSeq
<1>2. /\ Up(p, n) \in Seq(Nat) /\ Len(Up(p, n)) = n
      /\ \A i \in 1 .. n : Up(p, n)[i] = p[i]
  <2>1. \A i \in 1 .. n : p[i] \in Nat
    BY <1>1
  <2> QED
    BY <2>1, <1>1, SubSeqProperties DEF Up
<1>3. ASSUME NEW m \in 1 .. n
      PROVE  Up(Up(p, n), m) = Up(p, m)
  BY <1>1, SubSeqOfSubSeq DEF Up
<1>4. Front(Up(p, n)) = Up(p, n - 1)
  <2>1. CASE n = 1
    <3>1. SubSeq(Up(p, n), 1, 0) = <<>> /\ SubSeq(p, 1, 0) = <<>>
      BY SubSeqEmpty
    <3> QED
      BY <2>1, <3>1, <1>2 DEF Front, Up
  <2>2. CASE n # 1
    <3>1. n - 1 \in 1 .. n
      BY <2>2, <1>1
    <3> QED
      BY <3>1, <1>3, <1>2 DEF Front, Up
  <2> QED
    BY <2>1, <2>2
<1>5. IsPrefix(Up(p, n), p)
  <2>1. SubSeq(Up(p, n), 1, n) = Up(p, n)
    BY <1>1, <1>3 DEF Up
  <2> QED
    BY <2>1, <1>1, <1>2 DEF IsPrefix, Up
<1>6. Up(p, n) # <<>>
  BY <1>2, EmptySeq
<1> QED
  BY <1>1, <1>2, <1>3, <1>4, <1>5, <1>6

LEMMA PrefixIsAround ==
  ASSUME NEW p \in Seq(Nat), NEW q \in Seq(Nat), q # <<>>, IsPrefix(q, p)
  PROVE  Len(q) \in 1 .. Len(p) /\ q = Up(p, Len(q))
<1>1. Len(q) \in Nat \ {0} /\ Len(p) \in Nat
  BY LenProperties, EmptySeq
<1>2. Len(q) <= Len(p) /\ SubSeq(q, 1, Len(q)) = SubSeq(p, 1, Len(q))
  BY DEF IsPrefix
<1> QED
  BY <1>1, <1>2, SubSeqFull DEF Up

\* The forms of a program: all that are around one are forms too.
LEMMA FormsAround ==
  ASSUME program \in Sources, NEW p \in Forms
  PROVE  /\ p \in Seq(Nat) /\ p # <<>> /\ Len(p) \in Nat \ {0} /\ Up(p, Len(p)) = p
         /\ \A n \in 1 .. Len(p) : Up(p, n) \in Forms
<1>1. ASSUME NEW q \in Forms
      PROVE  q \in Seq(Nat) /\ q # <<>> /\ (Len(q) > 1 => Front(q) \in Forms)
  BY <1>1, ExpandAssumption DEF ExpandAssumption, Forms, Front
<1>2. p \in Seq(Nat) /\ p # <<>> /\ Len(p) \in Nat \ {0} /\ Up(p, Len(p)) = p
  BY <1>1, LenProperties, EmptySeq, SubSeqFull DEF Up
<1> DEFINE T == {k \in Nat : k < Len(p) /\ Up(p, Len(p) - k) \notin Forms}
<1>3. ASSUME T # {} PROVE FALSE
  <2>1. PICK k \in T : \A j \in T : k <= j
    BY <1>3, LeastNat
  <2>2. k \in Nat /\ k < Len(p) /\ Up(p, Len(p) - k) \notin Forms
    BY <2>1
  <2>3. k # 0
    BY <1>2, <2>2
  <2> DEFINE n == Len(p) - (k - 1)
  <2>4. n \in 1 .. Len(p) /\ n > 1 /\ n - 1 = Len(p) - k /\ k - 1 \in Nat
    BY <1>2, <2>2, <2>3
  <2>5. Up(p, n) \in Forms
    <3>1. k - 1 \notin T
      BY <2>1, <2>2
    <3> QED
      BY <3>1, <2>2, <2>4
  <2>6. Len(Up(p, n)) = n /\ Front(Up(p, n)) = Up(p, n - 1)
    BY <1>2, <2>4, PlacesAround
  <2>7. Up(p, n - 1) \in Forms
    BY <1>1, <2>4, <2>5, <2>6
  <2> QED
    BY <2>2, <2>4, <2>7
<1>4. ASSUME NEW n \in 1 .. Len(p)
      PROVE  Up(p, n) \in Forms
  <2>1. Len(p) - n \in Nat /\ Len(p) - n < Len(p) /\ Len(p) - (Len(p) - n) = n
    BY <1>2
  <2>2. Len(p) - n \notin T
    BY <1>3
  <2> QED
    BY <2>1, <2>2
<1> QED
  BY <1>2, <1>4

\* The place that a site is put at is the form itself or, for a statement, what is around it.
LEMMA OwnPlaces ==
  ASSUME program \in Sources, NEW s \in Own
  PROVE  /\ s.kind \in {"item", "stmt", "expr"} /\ s.yield = NoYield
         /\ s.form \in Found /\ s.place \in Forms
         /\ IsPrefix(s.place, s.form)
         /\ s = Site(s.kind, s.place, s.form)
<1>1. ASSUME NEW p \in Found
      PROVE  p \in Forms /\ IsPrefix(p, p) /\ (IsStatement(p) => Front(p) \in Forms /\ IsPrefix(Front(p), p))
  <2>1. p \in Forms
    BY DEF Found
  <2>2. /\ p \in Seq(Nat) /\ Len(p) \in Nat \ {0} /\ Up(p, Len(p)) = p
        /\ \A n \in 1 .. Len(p) : Up(p, n) \in Forms
    BY <2>1, FormsAround
  <2>3. IsPrefix(p, p)
    BY <2>2, PlacesAround
  <2>4. ASSUME IsStatement(p)
        PROVE  Front(p) \in Forms /\ IsPrefix(Front(p), p)
    <3>1. Len(p) - 1 \in 1 .. Len(p) /\ Front(p) = Up(p, Len(p) - 1)
      BY <2>2, <2>4 DEF IsStatement, Front, Up
    <3> QED
      BY <3>1, <2>2, PlacesAround
  <2> QED
    BY <2>1, <2>3, <2>4
<1>2. PICK p \in Found : \/ s = Site("item", p, p)
                         \/ s = Site("expr", p, p)
                         \/ IsStatement(p) /\ s = Site("stmt", Front(p), p)
  BY DEF Own
<1> QED
  BY <1>1, <1>2 DEF Site

\* Every expansion that the walk gets to is in the form of a site, or is one.
LEMMA HasSite ==
  ASSUME program \in Sources, NEW p \in Found
  PROVE  \E s \in Own : IsPrefix(s.place, p) /\ s.place \in Forms
<1>1. /\ p \in Forms /\ Kind(p) \in Calls /\ ItemKind(p) \in {"fn", "expansion"} /\ Entered(p, {"opaque"})
  BY DEF Found
<1>2. /\ p \in Seq(Nat) /\ Len(p) \in Nat \ {0} /\ Up(p, Len(p)) = p
      /\ \A n \in 1 .. Len(p) : Up(p, n) \in Forms
  BY <1>1, FormsAround
<1> DEFINE T == {n \in 1 .. Len(p) : Kind(Up(p, n)) \in Calls}
<1>3. PICK n \in T : \A m \in T : n <= m
  <2>1. Len(p) \in T /\ T \subseteq Nat
    BY <1>1, <1>2
  <2> QED
    BY <2>1, LeastNat
<1> DEFINE f == Up(p, n)
<1>4. n \in 1 .. Len(p) /\ Kind(f) \in Calls
  BY <1>3
<1>5. /\ f \in Seq(Nat) /\ Len(f) = n /\ f[1] = p[1] /\ IsPrefix(f, p)
      /\ \A m \in 1 .. n : Up(f, m) = Up(p, m)
      /\ Front(f) = Up(p, n - 1)
  BY <1>2, <1>4, PlacesAround
<1>6. ~Merged(f)
  <2>1. ASSUME NEW m \in 1 .. n - 1
        PROVE  Kind(Up(f, m)) \notin Calls
    <3>1. m \in 1 .. n /\ m \in 1 .. Len(p) /\ m < n
      BY <1>2, <1>4
    <3>2. m \notin T
      BY <1>3, <3>1
    <3> QED
      BY <1>5, <3>1, <3>2
  <2> QED
    BY <2>1, <1>5 DEF Merged
<1>7. Entered(f, {"opaque"})
  <2>1. ASSUME NEW m \in 1 .. n - 1
        PROVE  /\ m \in 1 .. Len(p) - 1
               /\ Up(f, m) = Up(p, m) /\ Up(f, m + 1) = Up(p, m + 1)
    BY <1>2, <1>4, <1>5
  <2> QED
    BY <1>1, <1>5, <2>1 DEF Entered
<1>8. f \in Found
  BY <1>1, <1>2, <1>4, <1>5, <1>7 DEF Found, ItemKind
<1>9. \E s \in Own : s.place = f \/ (s.place = Front(f) /\ IsStatement(f))
  <2>1. CASE IsItem(f)
    <3>1. Site("item", f, f) \in Own
      BY <1>8, <2>1 DEF Own
    <3> QED
      BY <3>1 DEF Site
  <2>2. CASE IsStatement(f)
    <3>1. Site("stmt", Front(f), f) \in Own
      BY <1>8, <2>2 DEF Own
    <3> QED
      BY <2>2, <3>1 DEF Site
  <2>3. CASE ~IsItem(f) /\ ~IsStatement(f)
    <3>1. Site("expr", f, f) \in Own
      BY <1>6, <1>8, <2>3 DEF Own
    <3> QED
      BY <3>1 DEF Site
  <2> QED
    BY <2>1, <2>2, <2>3
<1>10. IsStatement(f) => IsPrefix(Front(f), p)
  <2>1. ASSUME IsStatement(f)
        PROVE  n - 1 \in 1 .. Len(p)
    BY <2>1, <1>2, <1>4, <1>5 DEF IsStatement
  <2> QED
    BY <2>1, <1>2, <1>5, PlacesAround
<1>11. \A s \in Own : s.place \in Forms
  BY OwnPlaces
<1> HIDE DEF f
<1> QED
  BY <1>5, <1>9, <1>10, <1>11

----------------------------------------------------------------------------
(* The invariant *)

NoName == ""
Placeable == [kind : {"item", "stmt", "expr"}, place : Forms, form : Forms, yield : Yields \cup {NoYield}]

ExpandTypes ==
  /\ program \in Sources
  /\ stage \in {"collect", "compile", "evaluate", "items", "code", "done", "failed"}
  /\ turn \in Nat \ {0}
  /\ sites \in Seq(Placeable)

\* Nothing is placed before every site is evaluated.
EvaluatedFirst ==
  /\ stage \in {"collect", "compile", "evaluate"} => placed = <<>>
  /\ stage = "evaluate" => \A i \in DOMAIN sites : i < turn => i \in faults \/ sites[i].yield # NoYield
  /\ stage \in {"items", "code"} => \A i \in DOMAIN sites : sites[i].yield # NoYield
  /\ PlacedWhole

\* Every expansion has a site, and what has been gone through without fault is in its place.
InPlace(i) == sites[i].place \in DOMAIN placed
PlacedInTurn ==
  /\ stage # "collect" => \A s \in Own : \E i \in DOMAIN sites : sites[i].place = s.place
  /\ \A p \in DOMAIN placed : placed[p].site \in DOMAIN sites /\ sites[placed[p].site].place = p
  /\ stage = "items" /\ faults = {} => \A i \in DOMAIN sites : sites[i].kind = "item" /\ i < turn => InPlace(i)
  /\ stage = "code" /\ faults = {} => \A i \in DOMAIN sites : sites[i].kind = "item" \/ i < turn => InPlace(i)
  /\ stage = "done" => \A i \in DOMAIN sites : InPlace(i)

\* The structs of the program and of the items placed are known from when code is placed.
StructsNoted ==
  /\ stage # "collect" => StructNames \subseteq known
  /\ stage = "items" => \A p \in DOMAIN placed : placed[p].site < turn
  /\ \A p \in DOMAIN placed :
       IF sites[placed[p].site].kind = "item"
       THEN YieldAt(p).decl \in known \cup {NoName}
       ELSE stage \notin {"collect", "compile", "evaluate", "items"} /\ placed[p].known = known

ExpandInv == ExpandTypes /\ EvaluatedFirst /\ PlacedInTurn /\ StructsNoted

\* The program does not change, and neither does what is read off it.
LEMMA SameProgram ==
  ASSUME program' = program
  PROVE  /\ Forms' = Forms /\ Own' = Own /\ StructNames' = StructNames /\ Placeable' = Placeable
         /\ Found' = Found
<1>1. Forms' = Forms /\ StructNames' = StructNames /\ Placeable' = Placeable
  BY DEF Forms, StructNames, Items, Placeable
<1>2. Found' = Found
  BY DEF Found, Forms, Kind, ItemKind, Entered, Items, Up
<1>3. Own' = Own
  BY <1>2 DEF Own, IsItem, IsStatement, Merged, Kind, ItemKind, Items, Up, Site
<1> QED
  BY <1>1, <1>2, <1>3

LEMMA ImageIsFinite ==
  ASSUME NEW P, IsFiniteSet(P), NEW f, DOMAIN f = P, f = [x \in P |-> f[x]]
  PROVE  IsFiniteSet({f[x] : x \in P})
<1> DEFINE T == {f[x] : x \in P}
<1>1. f \in Surjection(P, T)
  BY DEF Surjection
<1> QED
  BY <1>1, FS_Surjection

LEMMA OwnIsFinite == ASSUME program \in Sources PROVE IsFiniteSet(Own)
<1> DEFINE items == {q \in Found : IsItem(q)}
           stmts == {q \in Found : IsStatement(q)}
           exprs == {q \in Found : ~IsItem(q) /\ ~IsStatement(q) /\ ~Merged(q)}
           itemAt == [p \in items |-> Site("item", p, p)]
           stmtAt == [p \in stmts |-> Site("stmt", Front(p), p)]
           exprAt == [p \in exprs |-> Site("expr", p, p)]
           I == {itemAt[p] : p \in items}
           S == {stmtAt[p] : p \in stmts}
           E == {exprAt[p] : p \in exprs}
<1>1. IsFiniteSet(Forms)
  BY ExpandAssumption DEF ExpandAssumption, Forms
<1>2. IsFiniteSet(items) /\ IsFiniteSet(stmts) /\ IsFiniteSet(exprs)
  <2>1. items \subseteq Forms /\ stmts \subseteq Forms /\ exprs \subseteq Forms
    BY DEF Found
  <2> QED
    BY <1>1, <2>1, FS_Subset
<1>3. IsFiniteSet(I) /\ IsFiniteSet(S) /\ IsFiniteSet(E)
  <2> HIDE DEF items, stmts, exprs
  <2>1. /\ DOMAIN itemAt = items /\ itemAt = [p \in items |-> itemAt[p]]
        /\ DOMAIN stmtAt = stmts /\ stmtAt = [p \in stmts |-> stmtAt[p]]
        /\ DOMAIN exprAt = exprs /\ exprAt = [p \in exprs |-> exprAt[p]]
    OBVIOUS
  <2> HIDE DEF itemAt, stmtAt, exprAt
  <2> QED
    BY <1>2, <2>1, ImageIsFinite
<1>4. Own = I \cup S \cup E
  BY DEF Own
<1> HIDE DEF I, S, E
<1> QED
  BY <1>3, <1>4, FS_Union

LEMMA SitesAreOwn ==
  ASSUME program \in Sources, NEW s \in InOrder(Own)
  PROVE  s \in Seq(Placeable) /\ (\A x \in Own : \E i \in DOMAIN s : s[i] = x) /\ (Own = {} => DOMAIN s = {})
<1>1. Cardinality(Own) \in Nat /\ (Own = {} => Cardinality(Own) = 0)
  BY OwnIsFinite, FS_CardinalityType, FS_EmptySet
<1>2. s \in [1 .. Cardinality(Own) -> Own] /\ \A x \in Own : \E i \in DOMAIN s : s[i] = x
  BY DEF InOrder
<1>3. Own \subseteq Placeable
  <2>1. ASSUME NEW x \in Own
        PROVE  x \in Placeable
    BY OwnPlaces DEF Placeable, Site, Found
  <2> QED
    BY <2>1
<1>4. s \in [1 .. Cardinality(Own) -> Placeable]
  BY <1>2, <1>3
<1>5. s \in Seq(Placeable)
  BY <1>1, <1>4, SeqDef
<1> QED
  BY <1>1, <1>2, <1>5

LEMMA CollectStep == ASSUME ExpandInv, Collect PROVE ExpandInv'
<1>1. /\ program' = program /\ placed' = placed /\ faults' = faults /\ known' = StructNames
      /\ sites' \in InOrder(Own) /\ turn' = 1
      /\ \/ stage' = "failed"
         \/ stage' = "done" /\ Own = {}
         \/ stage' = "compile"
  BY DEF Collect, GoTo
<1>2. placed = <<>> /\ program \in Sources
  BY DEF Collect, ExpandInv, ExpandTypes, EvaluatedFirst
<1>3. DOMAIN placed' = {}
  BY <1>1, <1>2
<1>4. /\ sites' \in Seq(Placeable)
      /\ \A x \in Own : \E i \in DOMAIN sites' : sites'[i] = x
      /\ Own = {} => DOMAIN sites' = {}
  BY <1>1, <1>2, SitesAreOwn, Zenon
<1>5. Own' = Own /\ StructNames' = StructNames /\ Placeable' = Placeable
  BY <1>1, SameProgram
<1>6. ExpandTypes'
  BY <1>1, <1>2, <1>4, <1>5 DEF ExpandTypes
<1>7. EvaluatedFirst'
  BY <1>1, <1>2, <1>4 DEF EvaluatedFirst, PlacedWhole
<1>8. PlacedInTurn'
  BY <1>1, <1>3, <1>4, <1>5 DEF PlacedInTurn, InPlace
<1>9. StructsNoted'
  BY <1>1, <1>3, <1>5 DEF StructsNoted
<1> QED
  BY <1>6, <1>7, <1>8, <1>9 DEF ExpandInv

LEMMA SiteFacts ==
  ASSUME ExpandTypes
  PROVE  /\ Len(sites) \in Nat /\ DOMAIN sites = 1 .. Len(sites)
         /\ \A i \in DOMAIN sites : sites[i] \in Placeable
BY LenProperties, ElementOfSeq DEF ExpandTypes

\* A step that leaves program, sites and what is placed: from stage to stage.
Onward ==
  /\ program' = program /\ sites' = sites /\ known' = known /\ placed' = placed /\ faults' = faults
  /\ turn' = 1
  /\ \/ stage' = "failed" /\ stage # "collect"
     \/ stage = "compile" /\ stage' = "evaluate"
     \/ stage = "evaluate" /\ stage' = "items" /\ faults = {} /\ turn > Len(sites)
     \/ stage = "items" /\ stage' = "code" /\ turn > Len(sites)
     \/ stage = "code" /\ stage' = "done" /\ faults = {} /\ turn > Len(sites)

LEMMA OnwardSteps ==
  ASSUME CompileWrappers \/ Evaluated \/ ItemsPlaced \/ Expanded
  PROVE  Onward
BY DEF CompileWrappers, Evaluated, ItemsPlaced, Expanded, GoTo, Onward

LEMMA OnwardStep == ASSUME ExpandInv, Onward PROVE ExpandInv'
<1>1. ExpandTypes /\ EvaluatedFirst /\ PlacedInTurn /\ StructsNoted
  BY DEF ExpandInv
<1>2. Own' = Own /\ StructNames' = StructNames /\ Placeable' = Placeable
  BY SameProgram DEF Onward
<1>3. /\ Len(sites) \in Nat /\ DOMAIN sites = 1 .. Len(sites)
      /\ \A i \in DOMAIN sites : sites[i] \in Placeable
  BY <1>1, SiteFacts
<1>4. \A i \in DOMAIN sites : turn > Len(sites) => i < turn
  BY <1>1, <1>3 DEF ExpandTypes
<1>5. ExpandTypes'
  BY <1>1, <1>2 DEF ExpandTypes, Onward
<1>6. EvaluatedFirst'
  BY <1>1, <1>3, <1>4 DEF EvaluatedFirst, PlacedWhole, Onward, ExpandTypes
<1>7. PlacedInTurn'
  <2>1. \A i \in DOMAIN sites : InPlace(i)' <=> InPlace(i)
    BY DEF InPlace, Onward
  <2>2. /\ stage' # "collect" => \A s \in Own' : \E i \in DOMAIN sites' : sites'[i].place = s.place
        /\ \A p \in DOMAIN placed' : placed'[p].site \in DOMAIN sites' /\ sites'[placed'[p].site].place = p
    BY <1>1, <1>2 DEF PlacedInTurn, Onward
  <2>3. stage' # "items" \/ \A i \in DOMAIN sites' : ~(i < turn')
    BY <1>3 DEF Onward
  <2>4. stage' = "code" => stage = "items" /\ turn > Len(sites)
    BY DEF Onward
  <2>5. stage' = "done" => stage = "code" /\ turn > Len(sites) /\ faults = {}
    BY DEF Onward
  <2>6. stage' = "code" /\ faults' = {} =>
          \A i \in DOMAIN sites' : sites'[i].kind = "item" \/ i < turn' => InPlace(i)'
    BY <1>1, <1>3, <1>4, <2>1, <2>4 DEF PlacedInTurn, Onward
  <2>7. stage' = "done" => \A i \in DOMAIN sites' : InPlace(i)'
    BY <1>1, <1>3, <1>4, <2>1, <2>5 DEF PlacedInTurn, Onward
  <2> QED
    BY <2>2, <2>3, <2>6, <2>7 DEF PlacedInTurn
<1>8. StructsNoted'
  <2>1. stage' # "items" \/ DOMAIN placed' = {} 
    BY <1>1 DEF EvaluatedFirst, Onward
  <2>2. \A p \in DOMAIN placed : YieldAt(p)' = YieldAt(p)
    BY DEF YieldAt, Onward
  <2> QED
    BY <1>1, <1>2, <2>1, <2>2 DEF StructsNoted, Onward
<1> QED
  BY <1>5, <1>6, <1>7, <1>8 DEF ExpandInv

LEMMA EvaluateStep == ASSUME ExpandInv, Evaluate PROVE ExpandInv'
<1>1. ExpandTypes /\ EvaluatedFirst /\ PlacedInTurn /\ StructsNoted
  BY DEF ExpandInv
<1>2. /\ program' = program /\ stage' = stage /\ known' = known /\ placed' = placed
      /\ stage = "evaluate" /\ turn <= Len(sites) /\ turn' = turn + 1
      /\ \/ faults' = faults \cup {turn} /\ sites' = sites
         \/ faults' = faults /\ \E y \in Yields : sites' = [sites EXCEPT ![turn].yield = y]
  BY DEF Evaluate
<1>3. Own' = Own /\ StructNames' = StructNames /\ Placeable' = Placeable
  BY <1>2, SameProgram
<1>4. /\ Len(sites) \in Nat /\ DOMAIN sites = 1 .. Len(sites) /\ turn \in DOMAIN sites /\ turn \in Nat \ {0}
      /\ \A i \in DOMAIN sites : sites[i] \in Placeable
  BY <1>1, <1>2, SiteFacts DEF ExpandTypes
<1>5. /\ sites' \in Seq(Placeable) /\ DOMAIN sites' = DOMAIN sites
      /\ \A i \in DOMAIN sites : i # turn => sites'[i] = sites[i]
      /\ \A i \in DOMAIN sites : sites'[i].place = sites[i].place
      /\ turn \in faults' \/ sites'[turn].yield # NoYield
  <2>1. CASE sites' = sites /\ faults' = faults \cup {turn}
    BY <2>1, <1>1 DEF ExpandTypes
  <2>2. ASSUME NEW y \in Yields, sites' = [sites EXCEPT ![turn].yield = y]
        PROVE  <1>5!1 /\ <1>5!2 /\ <1>5!3 /\ sites'[turn].yield # NoYield
    <3> DEFINE e == [sites[turn] EXCEPT !.yield = y]
    <3>1. e \in Placeable /\ e.yield = y /\ e.place = sites[turn].place
      BY <1>4 DEF Placeable
    <3>2. sites' = [sites EXCEPT ![turn] = e]
      BY <2>2
    <3> HIDE DEF e
    <3>3. /\ sites' \in Seq(Placeable) /\ Len(sites') = Len(sites)
          /\ \A i \in 1 .. Len(sites) : sites'[i] = IF i = turn THEN e ELSE sites[i]
      BY <1>1, <1>4, <3>1, <3>2, ExceptSeq DEF ExpandTypes
    <3>4. DOMAIN sites' = 1 .. Len(sites)
      BY <3>3, LenProperties
    <3>5. y # NoYield
      BY <2>2, ExpandAssumption DEF ExpandAssumption
    <3> QED
      BY <1>4, <3>1, <3>3, <3>4, <3>5
  <2> QED
    BY <1>2, <2>1, <2>2
<1>6. placed = <<>> /\ DOMAIN placed' = {}
  <2>1. placed = <<>>
    BY <1>1, <1>2 DEF EvaluatedFirst
  <2> QED
    BY <1>2, <2>1
<1>7. ExpandTypes'
  BY <1>1, <1>2, <1>3, <1>4, <1>5 DEF ExpandTypes
<1>8. EvaluatedFirst'
  <2>1. ASSUME NEW i \in DOMAIN sites, i < turn + 1
        PROVE  i \in faults' \/ sites'[i].yield # NoYield
    <3>1. i < turn \/ i = turn
      BY <1>4, <2>1
    <3> QED
      BY <1>1, <1>2, <1>5, <3>1 DEF EvaluatedFirst
  <2> QED
    BY <1>2, <1>5, <1>6, <2>1 DEF EvaluatedFirst, PlacedWhole
<1>9. PlacedInTurn'
  BY <1>1, <1>2, <1>3, <1>5, <1>6 DEF PlacedInTurn
<1>10. StructsNoted'
  BY <1>1, <1>2, <1>3, <1>6 DEF StructsNoted
<1> QED
  BY <1>7, <1>8, <1>9, <1>10 DEF ExpandInv

\* What one turn of placing does: nothing, a fault, or the site's text in its place.
PutAt(p) ==
  /\ DOMAIN placed' = DOMAIN placed \cup {p} /\ placed'[p] = [site |-> turn, known |-> known]
  /\ \A q \in DOMAIN placed : q # p => placed'[q] = placed[q]

LEMMA Placing ==
  ASSUME NEW kinds, Place(kinds)
  PROVE  \/ sites[turn].kind \notin kinds /\ placed' = placed /\ faults' = faults
         \/ sites[turn].kind \in kinds /\ placed' = placed /\ faults' = faults \cup {turn}
         \/ sites[turn].kind \in kinds /\ faults' = faults /\ PutAt(sites[turn].place)
<1> DEFINE s == sites[turn]
           put == [p \in DOMAIN placed \cup {s.place} |->
                     IF p = s.place THEN [site |-> turn, known |-> known] ELSE placed[p]]
<1>1. \/ s.kind \notin kinds /\ placed' = placed /\ faults' = faults
      \/ s.kind \in kinds /\ placed' = placed /\ faults' = faults \cup {turn}
      \/ s.kind \in kinds /\ placed' = put /\ faults' = faults
  BY DEF Place
<1>2. ASSUME placed' = put, faults' = faults
      PROVE  PutAt(s.place)
  BY <1>2 DEF PutAt
<1> QED
  BY <1>1, <1>2

\* What the turns of both stages do, the kinds of sites they place apart.
PlaceTurn ==
  /\ program' = program /\ sites' = sites /\ stage' = stage
  /\ stage \in {"items", "code"} /\ turn \in DOMAIN sites /\ turn' = turn + 1
  /\ \/ /\ ~(stage = "items" <=> sites[turn].kind = "item")
        /\ placed' = placed /\ faults' = faults /\ known' = known
     \/ placed' = placed /\ turn \in faults' /\ known' = known
     \/ /\ (stage = "items" <=> sites[turn].kind = "item")
        /\ faults' = faults /\ PutAt(sites[turn].place)
        /\ known \subseteq known'
        /\ stage = "items" => sites[turn].yield.decl \in known' \cup {NoName}
        /\ stage = "code" => known' = known

LEMMA PlaceTurns == ASSUME ExpandInv, PlaceItem \/ PlaceCode PROVE PlaceTurn
<1>1. /\ turn \in Nat \ {0} /\ Len(sites) \in Nat /\ DOMAIN sites = 1 .. Len(sites)
      /\ \A i \in DOMAIN sites : sites[i].kind \in {"item", "stmt", "expr"}
  BY SiteFacts DEF ExpandInv, ExpandTypes, Placeable
<1>2. CASE PlaceCode
  <2>1. /\ program' = program /\ sites' = sites /\ stage' = stage /\ known' = known
        /\ stage = "code" /\ turn \in DOMAIN sites /\ turn' = turn + 1 /\ Place({"expr", "stmt"})
    BY <1>1, <1>2 DEF PlaceCode
  <2>2. sites[turn].kind \in {"expr", "stmt"} <=> sites[turn].kind # "item"
    BY <1>1, <2>1
  <2> QED
    BY <2>1, <2>2, Placing DEF PlaceTurn
<1>3. CASE PlaceItem
  <2>1. /\ program' = program /\ sites' = sites /\ stage' = stage
        /\ known' = IF placed' # placed /\ sites[turn].yield.decl # NoName
                    THEN known \cup {sites[turn].yield.decl} ELSE known
        /\ stage = "items" /\ turn <= Len(sites) /\ turn' = turn + 1 /\ Place({"item"})
    BY <1>3, Zenon DEF PlaceItem, NoName
  <2>2. turn \in DOMAIN sites
    BY <1>1, <2>1
  <2>3. ASSUME PutAt(sites[turn].place)
        PROVE  placed' # placed
    <3>1. placed'[sites[turn].place].site = turn /\ sites[turn].place \in DOMAIN placed'
      BY <2>3 DEF PutAt
    <3>2. \A p \in DOMAIN placed : placed[p].site \in DOMAIN sites /\ placed[p].site < turn
      BY <2>1 DEF ExpandInv, PlacedInTurn, StructsNoted
    <3>3. \A p \in DOMAIN placed : placed[p].site # turn
      BY <1>1, <3>2
    <3> QED
      BY <3>1, <3>3
  <2> DEFINE s == sites[turn]
  <2>4. \/ s.kind # "item" /\ placed' = placed /\ faults' = faults
        \/ s.kind = "item" /\ placed' = placed /\ faults' = faults \cup {turn}
        \/ s.kind = "item" /\ faults' = faults /\ PutAt(s.place)
    BY <2>1, Placing
  <2>5. /\ known \subseteq known' /\ (placed' = placed => known' = known)
        /\ placed' # placed => s.yield.decl \in known' \cup {NoName}
    BY <2>1
  <2> QED
    BY <2>1, <2>2, <2>3, <2>4, <2>5 DEF PlaceTurn
<1> QED
  BY <1>2, <1>3

LEMMA PlaceStep == ASSUME ExpandInv, PlaceTurn PROVE ExpandInv'
<1>1. ExpandTypes /\ EvaluatedFirst /\ PlacedInTurn /\ StructsNoted
  BY DEF ExpandInv
<1>2. /\ program' = program /\ sites' = sites /\ stage' = stage
      /\ stage \in {"items", "code"} /\ turn \in DOMAIN sites /\ turn' = turn + 1
  BY DEF PlaceTurn
<1>3. Own' = Own /\ StructNames' = StructNames /\ Placeable' = Placeable
  BY <1>2, SameProgram
<1>4. /\ turn \in Nat \ {0} /\ Len(sites) \in Nat /\ DOMAIN sites = 1 .. Len(sites)
      /\ \A i \in DOMAIN sites : sites[i].kind \in {"item", "stmt", "expr"}
  BY <1>1, SiteFacts DEF ExpandTypes, Placeable
<1>5. \A i \in DOMAIN sites : i < turn + 1 <=> i < turn \/ i = turn
  BY <1>4
<1>6. ExpandTypes'
  BY <1>1, <1>2, <1>3 DEF ExpandTypes
<1>7. EvaluatedFirst'
  BY <1>1, <1>2 DEF EvaluatedFirst, PlacedWhole
<1>8. CASE placed' = placed /\ known' = known /\
           (turn \in faults' \/ (faults' = faults /\ ~(stage = "items" <=> sites[turn].kind = "item")))
  <2>1. \A i \in DOMAIN sites : InPlace(i)' <=> InPlace(i)
    BY <1>2, <1>8 DEF InPlace
  <2>2. PlacedInTurn'
    BY <1>1, <1>2, <1>3, <1>5, <1>8, <2>1 DEF PlacedInTurn
  <2>3. \A p \in DOMAIN placed : YieldAt(p)' = YieldAt(p)
    BY <1>2, <1>8 DEF YieldAt
  <2>4. \A p \in DOMAIN placed : placed[p].site \in DOMAIN sites /\ (placed[p].site < turn => placed[p].site < turn + 1)
    BY <1>1, <1>4 DEF PlacedInTurn
  <2>5. StructsNoted'
    BY <1>1, <1>2, <1>3, <1>8, <2>3, <2>4 DEF StructsNoted
  <2> QED
    BY <1>6, <1>7, <2>2, <2>5 DEF ExpandInv
<1>9. CASE /\ (stage = "items" <=> sites[turn].kind = "item")
           /\ faults' = faults /\ PutAt(sites[turn].place)
           /\ known \subseteq known'
           /\ stage = "items" => sites[turn].yield.decl \in known' \cup {NoName}
           /\ stage = "code" => known' = known
  <2> DEFINE here == sites[turn].place
  <2>1. /\ DOMAIN placed' = DOMAIN placed \cup {here}
        /\ placed'[here].site = turn /\ placed'[here].known = known
        /\ \A q \in DOMAIN placed : q # here => placed'[q] = placed[q]
    <3>1. PutAt(sites[turn].place)
      BY <1>9
    <3> QED
      BY <3>1 DEF PutAt
  <2> HIDE DEF here
  <2>2. \A i \in DOMAIN sites : InPlace(i) => InPlace(i)'
    BY <1>2, <2>1 DEF InPlace
  <2>3. \A i \in DOMAIN sites : i = turn => InPlace(i)'
    BY <1>2, <2>1 DEF InPlace, here
  <2>4. \A p \in DOMAIN placed' : placed'[p].site \in DOMAIN sites' /\ sites'[placed'[p].site].place = p
    BY <1>1, <1>2, <2>1 DEF PlacedInTurn, here
  <2>5. PlacedInTurn'
    BY <1>1, <1>2, <1>3, <1>5, <1>9, <2>2, <2>3, <2>4 DEF PlacedInTurn
  <2>6. \A p \in DOMAIN placed : p # here => YieldAt(p)' = YieldAt(p)
    BY <1>2, <2>1 DEF YieldAt
  <2>7. \A p : p = here => YieldAt(p)' = sites[turn].yield
    BY <1>2, <2>1 DEF YieldAt
  <2>8. \A p \in DOMAIN placed' :
          placed'[p].site \in DOMAIN sites /\ (stage = "items" => placed'[p].site < turn + 1)
    <3>1. \A p \in DOMAIN placed : placed[p].site \in DOMAIN sites /\ (stage = "items" => placed[p].site < turn)
      BY <1>1 DEF PlacedInTurn, StructsNoted
    <3> QED
      BY <1>2, <1>4, <2>1, <3>1
  <2>9. StructNames \subseteq known'
    BY <1>1, <1>2, <1>9 DEF StructsNoted
  <2>10. ASSUME NEW p \in DOMAIN placed'
         PROVE  IF sites[placed'[p].site].kind = "item"
                THEN YieldAt(p)'.decl \in known' \cup {NoName}
                ELSE stage \notin {"collect", "compile", "evaluate", "items"} /\ placed'[p].known = known'
    <3>1. CASE p = here
      BY <1>2, <1>9, <2>1, <2>7, <3>1
    <3>2. CASE p # here
      <4>1. p \in DOMAIN placed /\ placed'[p] = placed[p] /\ YieldAt(p)' = YieldAt(p)
        BY <2>1, <2>6, <3>2
      <4>2. IF sites[placed[p].site].kind = "item"
            THEN YieldAt(p).decl \in known \cup {NoName}
            ELSE stage \notin {"collect", "compile", "evaluate", "items"} /\ placed[p].known = known
        BY <1>1, <4>1 DEF StructsNoted
      <4> QED
        BY <1>2, <1>9, <4>1, <4>2
    <3> QED
      BY <3>1, <3>2
  <2>11. StructsNoted'
    BY <1>2, <1>3, <2>8, <2>9, <2>10 DEF StructsNoted
  <2> QED
    BY <1>6, <1>7, <2>5, <2>11 DEF ExpandInv
<1> QED
  BY <1>8, <1>9 DEF PlaceTurn

----------------------------------------------------------------------------
(* What holds of the result *)

\* What is placed around a form, if anything is, is so in a text that is in the program.
LEMMA Outermost ==
  ASSUME program \in Sources, DOMAIN placed \subseteq Forms, NEW p \in Forms,
         NEW q \in DOMAIN placed, IsPrefix(q, p)
  PROVE  \E r \in InProgram : IsPrefix(r, p)
<1>1. \A r \in Forms : r \in Seq(Nat) /\ r # <<>> /\ Len(r) \in Nat \ {0}
  BY FormsAround
<1>2. \A r \in DOMAIN placed : IsPrefix(r, p) => Len(r) \in 1 .. Len(p) /\ r = Up(p, Len(r))
  BY <1>1, PrefixIsAround
<1> DEFINE T == {n \in 1 .. Len(p) : Up(p, n) \in DOMAIN placed}
<1>3. PICK n \in T : \A m \in T : n <= m
  <2>1. Len(q) \in T
    BY <1>2
  <2>2. T \subseteq Nat
    BY <1>1
  <2> QED
    BY <2>1, <2>2, LeastNat
<1> DEFINE r == Up(p, n)
<1>4. n \in 1 .. Len(p) /\ r \in DOMAIN placed
  BY <1>3
<1>5. /\ r \in Seq(Nat) /\ Len(r) = n /\ IsPrefix(r, p)
      /\ \A m \in 1 .. n : Up(r, m) = Up(p, m)
  BY <1>1, <1>4, PlacesAround
<1>6. ASSUME NEW o \in DOMAIN placed, IsPrefix(o, r)
      PROVE  o = r
  <2>1. Len(o) \in 1 .. n /\ o = Up(r, Len(o))
    BY <1>1, <1>5, <1>6, PrefixIsAround
  <2>2. o = Up(p, Len(o))
    BY <1>5, <2>1
  <2>3. Len(o) \in T
    BY <1>1, <1>4, <2>1, <2>2
  <2>4. n <= Len(o)
    BY <1>3, <2>3
  <2>5. Len(o) = n
    BY <1>1, <1>4, <2>1, <2>4
  <2> QED
    BY <2>2, <2>5
<1>7. r \in InProgram
  BY <1>4, <1>6 DEF InProgram, IsStrictPrefix
<1> QED
  BY <1>5, <1>7

LEMMA PlacesAreForms ==
  ASSUME ExpandInv
  PROVE  DOMAIN placed \subseteq Forms
BY SiteFacts DEF ExpandInv, PlacedInTurn, Placeable

LEMMA ReplacedAll == ASSUME ExpandInv PROVE AllReplaced
<1> SUFFICES ASSUME stage = "done"
             PROVE  /\ Left({"fn", "expansion"}, {"opaque"}) = {}
                    /\ \A p \in InProgram : sites[placed[p].site].place = p
  BY DEF AllReplaced
<1>1. program \in Sources /\ PlacedInTurn
  BY DEF ExpandInv, ExpandTypes
<1>2. DOMAIN placed \subseteq Forms
  BY PlacesAreForms
<1>3. ASSUME NEW p \in Left({"fn", "expansion"}, {"opaque"})
      PROVE  FALSE
  <2>1. /\ p \in Forms /\ p \in Found
        /\ \A q \in InProgram : ~IsPrefix(q, p)
    BY DEF Left, Found
  <2>2. PICK s \in Own : IsPrefix(s.place, p) /\ s.place \in Forms
    BY <1>1, <2>1, HasSite
  <2>3. s.place \in DOMAIN placed
    BY <1>1 DEF PlacedInTurn, InPlace
  <2> QED
    BY <1>1, <1>2, <2>1, <2>2, <2>3, Outermost
<1>4. \A p \in InProgram : sites[placed[p].site].place = p
  BY <1>1 DEF InProgram, PlacedInTurn
<1> QED
  BY <1>3, <1>4

LEMMA KnownAll == ASSUME ExpandInv PROVE StructsKnown
<1> SUFFICES ASSUME stage = "done", NEW p \in InProgram, sites[placed[p].site].kind # "item"
             PROVE  YieldAt(p).lits \cap DeclaredStructs \subseteq placed[p].known \cup {YieldAt(p).decl}
  BY DEF StructsKnown
<1>1. /\ StructNames \subseteq known
      /\ \A q \in InProgram : sites[placed[q].site].kind = "item" => YieldAt(q).decl \in known \cup {NoName}
      /\ placed[p].known = known
  BY DEF ExpandInv, StructsNoted, InProgram
<1>2. DeclaredStructs \subseteq known \cup {NoName}
  BY <1>1 DEF DeclaredStructs
<1>3. NoName \notin YieldAt(p).lits
  <2>1. YieldAt(p) \in Yields \cup {NoYield}
    <3>1. placed[p].site \in DOMAIN sites
      BY DEF ExpandInv, PlacedInTurn, InProgram
    <3> QED
      BY <3>1, SiteFacts DEF ExpandInv, Placeable, YieldAt
  <2>2. NoName \notin NoYield.lits
    BY Zenon DEF NoYield
  <2>3. \A y \in Yields : NoName \notin y.lits
    BY ExpandAssumption, Zenon DEF ExpandAssumption, NoName
  <2> QED
    BY <2>1, <2>2, <2>3
<1> QED
  BY <1>1, <1>2, <1>3

LEMMA ExpandBegins == ExpandInit => ExpandInv
<1> SUFFICES ASSUME ExpandInit PROVE ExpandInv
  OBVIOUS
<1>1. /\ program \in Sources /\ sites = <<>> /\ stage = "collect" /\ turn = 1 /\ placed = <<>>
      /\ sites \in Seq(Placeable) /\ DOMAIN placed = {}
  BY EmptySeq DEF ExpandInit
<1> QED
  BY <1>1 DEF ExpandInv, ExpandTypes, EvaluatedFirst, PlacedInTurn, StructsNoted, PlacedWhole

LEMMA ExpandStep == ExpandInv /\ [ExpandNext]_expandVars => ExpandInv'
<1> SUFFICES ASSUME ExpandInv, [ExpandNext]_expandVars PROVE ExpandInv'
  OBVIOUS
<1>1. CASE Collect
  BY <1>1, CollectStep
<1>2. CASE CompileWrappers \/ Evaluated \/ ItemsPlaced \/ Expanded
  BY <1>2, OnwardSteps, OnwardStep
<1>3. CASE Evaluate
  BY <1>3, EvaluateStep
<1>4. CASE PlaceItem \/ PlaceCode
  BY <1>4, PlaceTurns, PlaceStep
<1>5. CASE UNCHANGED expandVars
  <2>1. /\ program' = program /\ sites' = sites /\ stage' = stage /\ turn' = turn /\ known' = known
        /\ placed' = placed /\ faults' = faults
    BY <1>5 DEF expandVars
  <2>2. Own' = Own /\ StructNames' = StructNames /\ Placeable' = Placeable
    BY <2>1, SameProgram
  <2> QED
    BY <2>1, <2>2 DEF ExpandInv, ExpandTypes, EvaluatedFirst, PlacedInTurn, InPlace, StructsNoted, PlacedWhole, YieldAt
<1> QED
  BY <1>1, <1>2, <1>3, <1>4, <1>5 DEF ExpandNext

\* The invariant holds of every run of macro expansion.
THEOREM ExpandInvariance == ExpandSpec => []ExpandInv
<1>1. ExpandInit => ExpandInv
  BY ExpandBegins
<1>2. ExpandInv /\ [ExpandNext]_expandVars => ExpandInv'
  BY ExpandStep
<1> QED
  BY <1>1, <1>2, PTL DEF ExpandSpec

\* Evaluation is all or nothing: no text is placed if one site failed to evaluate.
THEOREM PlacingIsWhole == ExpandSpec => []PlacedWhole
<1>1. ExpandInv => PlacedWhole
  BY DEF ExpandInv, EvaluatedFirst
<1> QED
  BY <1>1, ExpandInvariance, PTL

\* A successful expansion has replaced every macro call and compile! form that the walk gets to.
THEOREM NothingIsLeft == ExpandSpec => []AllReplaced
<1>1. ExpandInv => AllReplaced
  BY ReplacedAll
<1> QED
  BY <1>1, ExpandInvariance, PTL

\* Statements and expressions are read with the structs of all items known, generated ones included.
THEOREM CodeKnowsStructs == ExpandSpec => []StructsKnown
<1>1. ExpandInv => StructsKnown
  BY KnownAll
<1> QED
  BY <1>1, ExpandInvariance, PTL

=============================================================================
