----------------------------- MODULE QuoteProofs -----------------------------
(***************************************************************************)
(* Hygiene: whatever the template and whatever is spliced in, a name that  *)
(* the renamer sees keeps its meaning, and no name of the template         *)
(* captures one of the place of the call.  Then the walks through the      *)
(* syntax tree: that pairs of them get equally far, or one as far as the   *)
(* other at least, from the parts of a node down every path of a tree.     *)
(***************************************************************************)
EXTENDS Quote, TreeWalks, SequenceTheorems, FiniteSetTheorems, WellFoundedInduction, TLAPS

Printed == Names \X Nat
Means == UNION {[S -> Nat] : S \in SUBSET Names}
Renamed == UNION {[S -> Printed] : S \in SUBSET Names}
Out == UNION {[S -> Nat] : S \in SUBSET Printed}
Scope == [skipped : BOOLEAN, means : Means, ren : Renamed, out : Out]

\* A numbered name stands for the binder of its number.
Numbered(s) == \A n \in DOMAIN s.out : n[2] # 0 => s.out[n] = n[2]

\* The renamer knows each name of the scope as its binder's, or that is one of those to be seen
\* from outside; a plain name is bound by one of these only.
Faithful(s, seen) ==
  /\ DOMAIN s.means = DOMAIN s.ren
  /\ \A x \in DOMAIN s.ren :
       s.means[x] \in seen \/ (s.ren[x] = <<x, s.means[x]>> /\ s.ren[x] \in DOMAIN s.out)
  /\ \A n \in DOMAIN s.out : n[2] = 0 => s.out[n] \in seen

Honest(s, seen) == s \in Scope /\ Numbered(s) /\ (~s.skipped => Faithful(s, seen))

\* What is inside a skipped construct is skipped.
Nested(sc) == \A i, j \in DOMAIN sc : i <= j /\ sc[i].skipped => sc[j].skipped

ScopesOK(sc, seen) ==
  /\ sc \in Seq(Scope) /\ Len(sc) >= 1
  /\ \A i \in DOMAIN sc : Honest(sc[i], seen)
  /\ Nested(sc)

QuoteInv == gensym \in Nat /\ ScopesOK(scopes, kept) /\ UsesKept /\ NoCapture

----------------------------------------------------------------------------
(* The innermost scope that has a name *)

LEMMA Greatest ==
  ASSUME NEW k \in Nat, NEW H \in SUBSET (1 .. k), H # {}
  PROVE  Max(H) \in H /\ \A j \in H : j <= Max(H)
<1> DEFINE T == {k - i : i \in H}
<1>1. T \subseteq Nat /\ T # {}
  OBVIOUS
<1>2. PICK n \in T : \A m \in T : ~(<<m, n>> \in OpToRel(<, Nat))
  BY <1>1, NatLessThanWellFounded, WFMin, Zenon
<1>3. ASSUME NEW m \in T
      PROVE  n <= m
  <2>1. n \in Nat /\ m \in Nat
    BY <1>1
  <2>2. ~(<<m, n>> \in OpToRel(<, Nat))
    BY <1>2
  <2> QED
    BY <2>1, <2>2 DEF OpToRel
<1>4. PICK i \in H : n = k - i
  OBVIOUS
<1>5. \A j \in H : i >= j
  <2>1. ASSUME NEW j \in H
        PROVE  i >= j
    <3>1. k - j \in T
      OBVIOUS
    <3>2. k - i <= k - j
      BY <1>3, <1>4, <3>1
    <3> QED
      BY <3>2
  <2> QED
    BY <2>1
<1>6. Max(H) \in H /\ \A j \in H : Max(H) >= j
  BY <1>5 DEF Max
<1>7. \A a, b \in 1 .. k : a >= b => b <= a
  OBVIOUS
<1> QED
  BY <1>6, <1>7

\* maps[i] is the innermost one that has n.
Innermost(maps, n, i) == n \in DOMAIN maps[i] /\ \A j \in DOMAIN maps : n \in DOMAIN maps[j] => j <= i

LEMMA LookUpFinds ==
  ASSUME NEW maps, NEW k \in Nat, DOMAIN maps = 1 .. k, NEW n, NEW o
  PROVE  \/ (\A i \in DOMAIN maps : n \notin DOMAIN maps[i]) /\ LookUp(maps, n, o) = o
         \/ \E i \in DOMAIN maps : Innermost(maps, n, i) /\ LookUp(maps, n, o) = maps[i][n]
<1> DEFINE H == {i \in DOMAIN maps : n \in DOMAIN maps[i]}
<1>1. CASE H = {}
  BY <1>1 DEF LookUp
<1>2. CASE H # {}
  <2>1. Max(H) \in H /\ \A j \in H : j <= Max(H)
    BY <1>2, Greatest
  <2>2. LookUp(maps, n, o) = maps[Max(H)][n]
    BY <1>2 DEF LookUp
  <2>3. Innermost(maps, n, Max(H))
    BY <2>1 DEF Innermost
  <2> QED
    BY <2>1, <2>2, <2>3
<1> QED
  BY <1>1, <1>2

----------------------------------------------------------------------------
(* Numbers *)

LEMMA CanNumber ==
  ASSUME NEW S, IsFiniteSet(S), NEW g \in Nat
  PROVE  \E f \in [S -> g + 1 .. g + Cardinality(S)] : \A x, y \in S : x # y => f[x] # f[y]
<1> DEFINE k == Cardinality(S)
<1>1. k \in Nat /\ ExistsBijection(1 .. k, S)
  BY FS_CardinalityType
<1>2. PICK b \in Bijection(1 .. k, S) : TRUE
  BY <1>1 DEF ExistsBijection
<1>3. b \in [1 .. k -> S] /\ \A x \in S : \E i \in 1 .. k : b[i] = x
  BY <1>2 DEF Bijection, Surjection
<1> DEFINE found == [x \in S |-> CHOOSE i \in 1 .. k : b[i] = x]
<1>4. \A x \in S : found[x] \in 1 .. k /\ b[found[x]] = x
  BY <1>3
<1> DEFINE f == [x \in S |-> g + found[x]]
<1> HIDE DEF k, found
<1>5. \A i \in 1 .. k : g + i \in g + 1 .. g + k
  BY <1>1
<1>6. f \in [S -> g + 1 .. g + k]
  BY <1>4, <1>5
<1>7. \A i, j \in 1 .. k : g + i = g + j => i = j
  BY <1>1
<1>8. ASSUME NEW x \in S, NEW y \in S, x # y
      PROVE  f[x] # f[y]
  <2>1. found[x] # found[y]
    BY <1>4, <1>8
  <2> QED
    BY <1>4, <1>7, <2>1
<1> QED
  BY <1>6, <1>8 DEF k

LEMMA NumberIs ==
  ASSUME gensym \in Nat, NEW S \in SUBSET Names
  PROVE  /\ Cardinality(S) \in Nat
         /\ Number(S) \in [S -> Nat]
         /\ \A x \in S : Number(S)[x] # 0
<1>1. IsFiniteSet(S)
  BY QuoteAssumption, FS_Subset DEF QuoteAssumption
<1>2. Cardinality(S) \in Nat
  BY <1>1, FS_CardinalityType
<1>3. Number(S) \in [S -> gensym + 1 .. gensym + Cardinality(S)]
  BY <1>1, CanNumber DEF Number
<1>4. \A i \in gensym + 1 .. gensym + Cardinality(S) : i \in Nat /\ i # 0
  BY <1>2
<1> QED
  BY <1>2, <1>3, <1>4

----------------------------------------------------------------------------
(* What a declaration adds *)

Adds(d, renamed, seen) ==
  /\ d.means \in Means /\ d.ren \in Renamed /\ d.out \in Out
  /\ \A n \in DOMAIN d.out : n[2] # 0 => d.out[n] = n[2]
  /\ renamed =>
       /\ DOMAIN d.means = DOMAIN d.ren
       /\ \A x \in DOMAIN d.ren : d.ren[x] = <<x, d.means[x]>> /\ d.ren[x] \in DOMAIN d.out
       /\ \A n \in DOMAIN d.out : n[2] = 0 => d.out[n] \in seen

LEMMA DeclaredAdds ==
  ASSUME gensym \in Nat, NEW S \in SUBSET Names, NEW renamed \in BOOLEAN, NEW seen
  PROVE  Adds(Declared(S, renamed), renamed, seen)
<1> DEFINE id == Number(S)
           new == [x \in S |-> IF renamed THEN <<x, id[x]>> ELSE Plain(x)]
           N == {new[x] : x \in S}
           out == [n \in N |-> id[n[1]]]
           d == Declared(S, renamed)
<1>1. id \in [S -> Nat] /\ \A x \in S : id[x] # 0
  BY NumberIs
<1>2. d = [means |-> id, ren |-> IF renamed THEN new ELSE <<>>, out |-> out]
  BY DEF Declared
<1> HIDE DEF id, d
<1>3. \A x \in S : new[x] \in Printed /\ new[x][1] = x /\ new[x][2] = IF renamed THEN id[x] ELSE 0
  BY <1>1 DEF Printed, Plain
<1>4. d.means = id /\ d.ren = (IF renamed THEN new ELSE <<>>) /\ d.out = out
  BY <1>2
<1>5. id \in Means
  BY <1>1 DEF Means
<1>6. new \in Renamed
  <2>1. new \in [S -> Printed]
    BY <1>3
  <2> QED
    BY <2>1 DEF Renamed
<1>7. <<>> \in Renamed
  <2>1. <<>> \in [{} -> Printed]
    OBVIOUS
  <2> QED
    BY <2>1 DEF Renamed
<1>8. N \subseteq Printed /\ \A n \in N : n[1] \in S /\ n[2] = IF renamed THEN id[n[1]] ELSE 0
  <2> HIDE DEF new
  <2> QED
    BY <1>3
<1>9. out \in [N -> Nat] /\ DOMAIN out = N /\ \A n \in N : out[n] = id[n[1]]
  BY <1>1, <1>8
<1>10. out \in Out
  BY <1>8, <1>9 DEF Out
<1>11. \A n \in DOMAIN out : n[2] # 0 => out[n] = n[2]
  BY <1>8, <1>9
<1>12. ASSUME renamed
       PROVE  /\ DOMAIN id = DOMAIN new
              /\ \A x \in DOMAIN new : new[x] = <<x, id[x]>> /\ new[x] \in DOMAIN out
              /\ \A n \in DOMAIN out : n[2] # 0
  BY <1>1, <1>8, <1>9, <1>12
<1> HIDE DEF out, new
<1>13. d.ren \in Renamed
  BY <1>4, <1>6, <1>7, Zenon
<1>14. renamed => d.ren = new
  BY <1>4, Zenon
<1>15. ASSUME renamed
       PROVE  /\ DOMAIN d.means = DOMAIN d.ren
              /\ \A x \in DOMAIN d.ren : d.ren[x] = <<x, d.means[x]>> /\ d.ren[x] \in DOMAIN d.out
              /\ \A n \in DOMAIN d.out : n[2] = 0 => d.out[n] \in seen
  BY <1>4, <1>12, <1>14, <1>15
<1>16. \A n \in DOMAIN d.out : n[2] # 0 => d.out[n] = n[2]
  BY <1>4, <1>11
<1>17. d.means \in Means /\ d.out \in Out
  BY <1>4, <1>5, <1>10
<1>18. Adds(d, renamed, seen)
  BY <1>13, <1>15, <1>16, <1>17, Zenon DEF Adds
<1> QED
  BY <1>18 DEF d

LEMMA ExtendedIs ==
  ASSUME NEW f, NEW g
  PROVE  /\ DOMAIN Extended(f, g) = DOMAIN f \cup DOMAIN g
         /\ \A n \in DOMAIN g : Extended(f, g)[n] = g[n]
         /\ \A n \in DOMAIN f : n \notin DOMAIN g => Extended(f, g)[n] = f[n]
BY DEF Extended

LEMMA ExtendedIn ==
  ASSUME NEW A, NEW B, NEW f \in UNION {[S -> B] : S \in SUBSET A}, NEW g \in UNION {[S -> B] : S \in SUBSET A}
  PROVE  Extended(f, g) \in UNION {[S -> B] : S \in SUBSET A}
<1>1. PICK F \in SUBSET A : f \in [F -> B]
  OBVIOUS
<1>2. PICK G \in SUBSET A : g \in [G -> B]
  OBVIOUS
<1>3. Extended(f, g) \in [F \cup G -> B]
  BY <1>1, <1>2 DEF Extended
<1>4. F \cup G \in SUBSET A
  OBVIOUS
<1> QED
  BY <1>3, <1>4

\* A scope with more declared in it.
With(s, d) ==
  [skipped |-> s.skipped, means |-> Extended(s.means, d.means),
   ren |-> Extended(s.ren, d.ren), out |-> Extended(s.out, d.out)]

LEMMA WithIsScope ==
  ASSUME NEW s \in Scope, NEW d, d.means \in Means, d.ren \in Renamed, d.out \in Out
  PROVE  With(s, d) \in Scope
<1>1. s.means \in Means /\ s.ren \in Renamed /\ s.out \in Out /\ s.skipped \in BOOLEAN
  BY DEF Scope
<1>2. Extended(s.means, d.means) \in Means
  BY <1>1, ExtendedIn DEF Means
<1>3. Extended(s.ren, d.ren) \in Renamed
  BY <1>1, ExtendedIn DEF Renamed
<1>4. Extended(s.out, d.out) \in Out
  BY <1>1, ExtendedIn DEF Out
<1> QED
  BY <1>1, <1>2, <1>3, <1>4 DEF With, Scope

\* g added to f gives e.
Sum(e, f, g) ==
  /\ DOMAIN e = DOMAIN f \cup DOMAIN g
  /\ \A n \in DOMAIN g : e[n] = g[n]
  /\ \A n \in DOMAIN f : n \notin DOMAIN g => e[n] = f[n]

LEMMA WithIs ==
  ASSUME NEW s, NEW d, NEW w, w = With(s, d)
  PROVE  /\ w.skipped = s.skipped
         /\ Sum(w.means, s.means, d.means) /\ Sum(w.ren, s.ren, d.ren) /\ Sum(w.out, s.out, d.out)
<1>1. /\ w.skipped = s.skipped /\ w.means = Extended(s.means, d.means)
      /\ w.ren = Extended(s.ren, d.ren) /\ w.out = Extended(s.out, d.out)
  BY DEF With
<1>2. \A f, g : Sum(Extended(f, g), f, g)
  BY ExtendedIs, Zenon DEF Sum
<1> QED
  BY <1>1, <1>2, Zenon

LEMMA WithHonest ==
  ASSUME NEW s, NEW d, NEW seen, NEW more, seen \subseteq more, Honest(s, seen),
         Adds(d, ~s.skipped, more)
  PROVE  Honest(With(s, d), more)
<1> DEFINE w == With(s, d)
<1>1. s \in Scope /\ Numbered(s) /\ (~s.skipped => Faithful(s, seen))
  BY DEF Honest
<1>2. w \in Scope
  BY <1>1, WithIsScope DEF Adds
<1>3. /\ w.skipped = s.skipped
      /\ Sum(w.means, s.means, d.means) /\ Sum(w.ren, s.ren, d.ren) /\ Sum(w.out, s.out, d.out)
  BY WithIs
<1> HIDE DEF w
<1>4. ASSUME NEW n \in DOMAIN w.out
      PROVE  \/ n \in DOMAIN d.out /\ w.out[n] = d.out[n]
             \/ n \in DOMAIN s.out /\ w.out[n] = s.out[n]
  BY <1>3, <1>4 DEF Sum
<1>5. Numbered(w)
  BY <1>1, <1>4 DEF Numbered, Adds
<1>6. ASSUME ~s.skipped
      PROVE  Faithful(w, more)
  <2>1. Faithful(s, seen)
    BY <1>1, <1>6
  <2>2. DOMAIN w.means = DOMAIN w.ren
    BY <1>3, <1>6, <2>1 DEF Sum, Faithful, Adds
  <2>3. ASSUME NEW x \in DOMAIN w.ren
        PROVE  w.means[x] \in more \/ (w.ren[x] = <<x, w.means[x]>> /\ w.ren[x] \in DOMAIN w.out)
    <3>1. DOMAIN d.out \subseteq DOMAIN w.out /\ DOMAIN s.out \subseteq DOMAIN w.out
      BY <1>3 DEF Sum
    <3>2. CASE x \in DOMAIN d.ren
      <4>1. w.means[x] = d.means[x] /\ w.ren[x] = d.ren[x]
        BY <1>3, <1>6, <3>2 DEF Sum, Adds
      <4> QED
        BY <1>6, <3>1, <3>2, <4>1 DEF Adds
    <3>3. CASE x \notin DOMAIN d.ren
      <4>1. x \in DOMAIN s.ren /\ x \in DOMAIN s.means /\ x \notin DOMAIN d.means
        BY <1>3, <1>6, <2>1, <3>3 DEF Sum, Adds, Faithful
      <4>2. w.means[x] = s.means[x] /\ w.ren[x] = s.ren[x]
        BY <1>3, <3>3, <4>1 DEF Sum
      <4> QED
        BY <2>1, <3>1, <4>1, <4>2 DEF Faithful
    <3> QED
      BY <3>2, <3>3
  <2>4. ASSUME NEW n \in DOMAIN w.out, n[2] = 0
        PROVE  w.out[n] \in more
    BY <1>4, <1>6, <2>1, <2>4 DEF Faithful, Adds
  <2> QED
    BY <2>2, <2>3, <2>4 DEF Faithful
<1> QED
  BY <1>2, <1>3, <1>5, <1>6 DEF Honest, w

----------------------------------------------------------------------------
(* Steps on the scopes *)

LEMMA AppendedOK ==
  ASSUME NEW sc, NEW seen, ScopesOK(sc, seen), NEW s, Honest(s, seen),
         sc[Len(sc)].skipped => s.skipped
  PROVE  ScopesOK(Append(sc, s), seen)
<1> DEFINE n == Len(sc)
           t == Append(sc, s)
<1>1. sc \in Seq(Scope) /\ n \in Nat /\ n >= 1 /\ DOMAIN sc = 1 .. n /\ s \in Scope
  BY LenProperties DEF ScopesOK, Honest
<1>2. /\ t \in Seq(Scope) /\ Len(t) = n + 1 /\ DOMAIN t = 1 .. n + 1
      /\ t[n + 1] = s /\ \A i \in 1 .. n : t[i] = sc[i]
  BY <1>1, AppendProperties
<1> HIDE DEF t, n
<1>3. \A i \in DOMAIN t : i \in 1 .. n \/ i = n + 1
  BY <1>1, <1>2
<1>4. \A i \in DOMAIN t : Honest(t[i], seen)
  BY <1>1, <1>2, <1>3, Zenon DEF ScopesOK
<1>5. ASSUME NEW i \in DOMAIN t, NEW j \in DOMAIN t, i <= j, t[i].skipped
      PROVE  t[j].skipped
  <2>1. \A k, l \in 1 .. n : k <= l /\ sc[k].skipped => sc[l].skipped
    BY <1>1 DEF ScopesOK, Nested
  <2>2. CASE j \in 1 .. n
    <3>1. i \in 1 .. n
      BY <1>1, <1>2, <1>5, <2>2
    <3> QED
      BY <1>2, <1>5, <2>1, <2>2, <3>1
  <2>3. CASE j = n + 1 /\ i \in 1 .. n
    <3>1. n \in 1 .. n /\ i <= n
      BY <1>1, <2>3
    <3>2. sc[n].skipped
      BY <1>2, <1>5, <2>1, <2>3, <3>1
    <3> QED
      BY <1>2, <2>3, <3>2 DEF n
  <2>4. CASE j = n + 1 /\ i = n + 1
    BY <1>5, <2>4
  <2> QED
    BY <1>3, <2>2, <2>3, <2>4
<1>6. n + 1 >= 1
  BY <1>1
<1> QED
  BY <1>2, <1>4, <1>5, <1>6 DEF ScopesOK, Nested, t

LEMMA ShortenedOK ==
  ASSUME NEW sc, NEW seen, ScopesOK(sc, seen), Len(sc) > 1
  PROVE  ScopesOK(SubSeq(sc, 1, Len(sc) - 1), seen)
<1> DEFINE n == Len(sc)
           t == SubSeq(sc, 1, n - 1)
<1>1. sc \in Seq(Scope) /\ n \in Nat /\ n > 1 /\ DOMAIN sc = 1 .. n
  BY LenProperties DEF ScopesOK
<1>2. t \in Seq(Scope) /\ Len(t) = n - 1 /\ DOMAIN t = 1 .. n - 1 /\ \A i \in 1 .. n - 1 : t[i] = sc[i]
  BY <1>1, SubSeqProperties
<1> HIDE DEF t, n
<1>3. n - 1 >= 1 /\ \A i \in 1 .. n - 1 : i \in 1 .. n
  BY <1>1
<1> QED
  BY <1>1, <1>2, <1>3 DEF ScopesOK, Nested, t, n

LEMMA ChangedOK ==
  ASSUME NEW sc, NEW seen, NEW more, seen \subseteq more, ScopesOK(sc, seen), NEW s, Honest(s, more),
         s.skipped = sc[Len(sc)].skipped
  PROVE  ScopesOK([sc EXCEPT ![Len(sc)] = s], more)
<1> DEFINE n == Len(sc)
           t == [sc EXCEPT ![n] = s]
<1>1. sc \in Seq(Scope) /\ n \in Nat /\ n >= 1 /\ DOMAIN sc = 1 .. n /\ s \in Scope
  BY LenProperties DEF ScopesOK, Honest
<1>2. t \in Seq(Scope) /\ Len(t) = n /\ DOMAIN t = 1 .. n
  <2>1. n \in 1 .. Len(sc)
    BY <1>1
  <2>2. t \in Seq(Scope) /\ Len(t) = n
    BY <1>1, <2>1, ExceptSeq
  <2> HIDE DEF t, n
  <2> QED
    BY <2>2, LenProperties
<1>3. t[n] = s /\ \A i \in 1 .. n : i # n => t[i] = sc[i]
  <2>1. n \in DOMAIN sc
    BY <1>1
  <2> HIDE DEF n
  <2> QED
    BY <1>1, <2>1
<1> HIDE DEF t
<1>4. \A i \in 1 .. n : t[i].skipped = sc[i].skipped
  BY <1>3 DEF n
<1>5. ASSUME NEW i \in 1 .. n, i # n
      PROVE  Honest(t[i], more)
  <2>1. Honest(sc[i], seen)
    BY <1>1 DEF ScopesOK
  <2> QED
    BY <1>3, <1>5, <2>1 DEF Honest, Faithful
<1>6. \A i \in 1 .. n : Honest(t[i], more)
  BY <1>3, <1>5
<1>7. Nested(t)
  BY <1>1, <1>2, <1>4 DEF ScopesOK, Nested
<1> QED
  BY <1>1, <1>2, <1>6, <1>7 DEF ScopesOK, t

----------------------------------------------------------------------------
(* The invariant *)

LEMMA InitialScope ==
  ASSUME QuoteInit
  PROVE  QuoteInv
<1> DEFINE ids(params) == CHOOSE f \in [params -> 1 .. Cardinality(params)] :
                            \A x, y \in params : x # y => f[x] # f[y]
<1>1. PICK params \in SUBSET Names :
        /\ scopes = <<[skipped |-> FALSE, means |-> ids(params), ren |-> [x \in params |-> Plain(x)],
                       out |-> [n \in {Plain(x) : x \in params} |-> ids(params)[n[1]]]]>>
        /\ gensym = Cardinality(params) /\ kept = 1 .. gensym
  BY DEF QuoteInit
<1> DEFINE k == Cardinality(params)
           id == ids(params)
           ren == [x \in params |-> Plain(x)]
           N == {Plain(x) : x \in params}
           out == [n \in N |-> id[n[1]]]
           s == [skipped |-> FALSE, means |-> id, ren |-> ren, out |-> out]
<1>2. IsFiniteSet(params) /\ k \in Nat
  BY QuoteAssumption, FS_Subset, FS_CardinalityType DEF QuoteAssumption
<1>3. id \in [params -> 1 .. k]
  <2>1. \E f \in [params -> 0 + 1 .. 0 + k] : \A x, y \in params : x # y => f[x] # f[y]
    BY <1>2, CanNumber
  <2>2. 0 + 1 = 1 /\ 0 + k = k
    BY <1>2
  <2> QED
    BY <2>1, <2>2
<1> HIDE DEF k, id
<1>4. id \in [params -> Nat] /\ id \in Means
  <2>1. 1 .. k \subseteq Nat
    OBVIOUS
  <2>2. id \in [params -> Nat]
    BY <1>3, <2>1
  <2> QED
    BY <2>2 DEF Means
<1>5. ren \in Renamed
  <2>1. ren \in [params -> Printed]
    BY DEF Plain, Printed
  <2> QED
    BY <2>1 DEF Renamed
<1>6. N \in SUBSET Printed /\ \A n \in N : n[1] \in params /\ n[2] = 0
  BY DEF Plain, Printed
<1>7. out \in [N -> Nat] /\ \A n \in N : out[n] \in 1 .. k
  BY <1>3, <1>4, <1>6
<1>8. out \in Out
  BY <1>6, <1>7 DEF Out
<1> HIDE DEF out, N
<1>9. DOMAIN out = N
  BY <1>7
<1>10. kept = 1 .. k /\ gensym = k
  BY <1>1 DEF k
<1>11. s \in Scope /\ Numbered(s)
  BY <1>4, <1>5, <1>6, <1>8, <1>9 DEF Scope, Numbered
<1>12. Faithful(s, kept)
  BY <1>3, <1>6, <1>7, <1>9, <1>10 DEF Faithful
<1>13. Honest(s, kept)
  BY <1>11, <1>12 DEF Honest
<1>14. scopes = <<s>>
  BY <1>1 DEF id, out, N
<1> HIDE DEF s
<1>15. scopes \in Seq(Scope) /\ Len(scopes) = 1 /\ DOMAIN scopes = {1} /\ scopes[1] = s
  BY <1>11, <1>14
<1>16. ScopesOK(scopes, kept)
  BY <1>13, <1>15 DEF ScopesOK, Nested
<1>17. UsesKept /\ NoCapture
  BY DEF QuoteInit, Nothing, UsesKept, NoCapture
<1> QED
  BY <1>2, <1>10, <1>16, <1>17 DEF QuoteInv

LEMMA NothingPassed ==
  ASSUME last' = Nothing
  PROVE  UsesKept' /\ NoCapture'
BY DEF Nothing, UsesKept, NoCapture

LEMMA TopIs ==
  ASSUME QuoteInv
  PROVE  /\ Len(scopes) \in DOMAIN scopes /\ Len(scopes) \in Nat /\ DOMAIN scopes = 1 .. Len(scopes)
         /\ Honest(Top, kept) /\ Top.skipped \in BOOLEAN
<1>1. scopes \in Seq(Scope) /\ Len(scopes) >= 1
  BY DEF QuoteInv, ScopesOK
<1>2. Len(scopes) \in DOMAIN scopes /\ Len(scopes) \in Nat /\ DOMAIN scopes = 1 .. Len(scopes)
  BY <1>1, LenProperties
<1>3. Honest(Top, kept)
  BY <1>2 DEF QuoteInv, ScopesOK, Top
<1> QED
  BY <1>2, <1>3 DEF Honest, Scope

LEMMA OpenStep ==
  ASSUME QuoteInv, NEW skipped \in BOOLEAN, NEW S \in SUBSET Names, NEW renamed \in BOOLEAN,
         Open(skipped, S, renamed), Skipped => skipped, ~skipped => renamed
  PROVE  QuoteInv'
<1> DEFINE d == Declared(S, renamed)
           s == [skipped |-> skipped, means |-> d.means, ren |-> d.ren, out |-> d.out]
<1>1. Adds(d, renamed, kept)
  BY DeclaredAdds DEF QuoteInv
<1>2. scopes' = Append(scopes, s) /\ gensym' = gensym + Cardinality(S) /\ last' = Nothing /\ kept' = kept
  BY DEF Open
<1> HIDE DEF d
<1>3. Honest(s, kept)
  BY <1>1 DEF Honest, Scope, Numbered, Faithful, Adds
<1> HIDE DEF s
<1>4. scopes[Len(scopes)].skipped => s.skipped
  BY DEF s, Skipped, Top
<1>5. ScopesOK(Append(scopes, s), kept)
  BY <1>3, <1>4, AppendedOK DEF QuoteInv
<1>6. gensym' \in Nat
  BY <1>2, NumberIs DEF QuoteInv
<1> QED
  BY <1>2, <1>5, <1>6, NothingPassed DEF QuoteInv

LEMMA CloseStep == ASSUME QuoteInv, Close PROVE QuoteInv'
<1>1. scopes' = SubSeq(scopes, 1, Len(scopes) - 1) /\ Len(scopes) > 1
  BY DEF Close
<1>2. ScopesOK(scopes', kept)
  BY <1>1, ShortenedOK DEF QuoteInv
<1> QED
  BY <1>2, NothingPassed DEF QuoteInv, Close

LEMMA DeclareStep ==
  ASSUME QuoteInv, NEW d, Adds(d, ~Top.skipped, kept'), Declare(d), kept \subseteq kept'
  PROVE  ScopesOK(scopes', kept')
<1>1. scopes' = [scopes EXCEPT ![Len(scopes)] = With(Top, d)]
  BY DEF Declare, With, Skipped
<1>2. Honest(With(Top, d), kept')
  BY TopIs, WithHonest
<1>3. With(Top, d).skipped = scopes[Len(scopes)].skipped
  BY DEF With, Top
<1> QED
  BY <1>1, <1>2, <1>3, ChangedOK DEF QuoteInv

LEMMA LetStep == ASSUME QuoteInv, NEW S \in SUBSET Names, Let(S) PROVE QuoteInv'
<1>1. Top.skipped \in BOOLEAN
  BY TopIs
<1>2. (~Skipped) \in BOOLEAN
  BY Zenon
<1>3. Adds(Declared(S, ~Skipped), ~Skipped, kept)
  BY <1>2, DeclaredAdds DEF QuoteInv
<1>4. Adds(Declared(S, ~Skipped), ~Top.skipped, kept)
  BY <1>3, Zenon DEF Skipped
<1>5. Declare(Declared(S, ~Skipped)) /\ kept' = kept /\ gensym' = gensym + Cardinality(S) /\ last' = Nothing
  BY DEF Let
<1>6. ScopesOK(scopes', kept')
  BY <1>4, <1>5, DeclareStep
<1>7. gensym' \in Nat
  BY <1>5, NumberIs DEF QuoteInv
<1> QED
  BY <1>5, <1>6, <1>7, NothingPassed DEF QuoteInv

LEMMA LetSplicedStep == ASSUME QuoteInv, NEW x \in Names, LetSpliced(x) PROVE QuoteInv'
<1> DEFINE g == gensym + 1
           N == {Plain(x)}
           more == [n \in N |-> g]
           d == [means |-> <<>>, ren |-> <<>>, out |-> more]
<1>1. Declare(d) /\ kept' = kept \cup {g} /\ gensym' = g /\ last' = Nothing /\ ~Skipped
  BY DEF LetSpliced
<1>2. g \in Nat
  BY DEF QuoteInv
<1> HIDE DEF g
<1>3. N \in SUBSET Printed /\ \A n \in N : n[2] = 0
  BY DEF Plain, Printed
<1>4. more \in [N -> Nat] /\ \A n \in N : more[n] = g
  BY <1>2
<1>5. more \in Out
  BY <1>3, <1>4 DEF Out
<1>6. <<>> \in Means /\ <<>> \in Renamed /\ DOMAIN <<>> = {}
  <2>1. <<>> \in [{} -> Printed] /\ <<>> \in [{} -> Nat]
    OBVIOUS
  <2> QED
    BY <2>1 DEF Renamed, Means
<1>7. \A n \in DOMAIN more : n[2] = 0 /\ more[n] \in kept'
  BY <1>1, <1>3, <1>4
<1> HIDE DEF more, N
<1>8. d.means = <<>> /\ d.ren = <<>> /\ d.out = more
  OBVIOUS
<1>9. Adds(d, ~Top.skipped, kept')
  BY <1>5, <1>6, <1>7, <1>8 DEF Adds
<1> HIDE DEF d
<1>10. ScopesOK(scopes', kept')
  BY <1>1, <1>9, DeclareStep
<1> QED
  BY <1>1, <1>2, <1>10, NothingPassed DEF QuoteInv

\* The maps of the open scopes have these for their domain.
LEMMA MapsAre ==
  ASSUME NEW f
  PROVE  DOMAIN Maps(f) = DOMAIN scopes /\ \A i \in DOMAIN scopes : Maps(f)[i] = scopes[i][f]
BY DEF Maps

\* Where the template is not skipped, no scope is.
LEMMA AllFaithful ==
  ASSUME QuoteInv, ~Skipped
  PROVE  \A i \in DOMAIN scopes : Numbered(scopes[i]) /\ Faithful(scopes[i], kept)
<1>1. \A i \in DOMAIN scopes : i <= Len(scopes)
  BY TopIs
<1>2. ~scopes[Len(scopes)].skipped
  BY DEF Skipped, Top
<1>3. \A i \in DOMAIN scopes : ~scopes[i].skipped
  BY <1>1, <1>2, TopIs DEF QuoteInv, ScopesOK, Nested
<1> QED
  BY <1>3 DEF QuoteInv, ScopesOK, Honest

LEMMA UseStep == ASSUME QuoteInv, NEW x \in Names, Use(x) PROVE QuoteInv'
<1>1. UNCHANGED <<scopes, gensym, kept>>
  BY DEF Use
<1>2. NoCapture'
  <2>1. last'.how # "splice"
    BY DEF Use, Passed
  <2> QED
    BY <2>1 DEF NoCapture
<1>3. CASE Skipped
  <2>1. last'.how = "skipped"
    BY <1>3 DEF Use, Passed
  <2> QED
    BY <1>1, <1>2, <2>1 DEF QuoteInv, UsesKept
<1>4. CASE ~Skipped
  <2> DEFINE means == Maps("means")
             ren == Maps("ren")
             out == Maps("out")
             want == LookUp(means, x, 0)
             printed == LookUp(ren, x, Plain(x))
             got == LookUp(out, printed, 0)
  <2>1. last' = [how |-> "use", want |-> want, got |-> got]
    BY <1>4 DEF Use, Passed
  <2>2. /\ DOMAIN means = DOMAIN scopes /\ \A i \in DOMAIN scopes : means[i] = scopes[i].means
        /\ DOMAIN ren = DOMAIN scopes /\ \A i \in DOMAIN scopes : ren[i] = scopes[i].ren
        /\ DOMAIN out = DOMAIN scopes /\ \A i \in DOMAIN scopes : out[i] = scopes[i].out
    BY DEF Maps
  <2> HIDE DEF means, ren, out
  <2>3. Len(scopes) \in Nat /\ DOMAIN scopes = 1 .. Len(scopes)
    BY TopIs
  <2>4. \A i \in DOMAIN scopes : DOMAIN means[i] = DOMAIN ren[i]
    BY <1>4, <2>2, AllFaithful DEF Faithful
  <2>5. ASSUME want # 0, want \notin kept
        PROVE  got = want
    <3>1. PICK i \in DOMAIN scopes : Innermost(means, x, i) /\ want = means[i][x]
      BY <2>2, <2>3, <2>5, LookUpFinds
    <3>2. PICK j \in DOMAIN scopes : Innermost(ren, x, j) /\ printed = ren[j][x]
      <4>1. x \in DOMAIN ren[i]
        BY <2>4, <3>1 DEF Innermost
      <4>2. \/ \A k \in DOMAIN ren : x \notin DOMAIN ren[k]
            \/ \E k \in DOMAIN ren : Innermost(ren, x, k) /\ printed = ren[k][x]
        <5> HIDE DEF want
        <5>1. DOMAIN ren = 1 .. Len(scopes)
          BY <2>2, <2>3
        <5> QED
          BY <2>3, <5>1, LookUpFinds, Zenon
      <4> QED
        BY <2>2, <4>1, <4>2, Zenon
    <3>3. i = j
      <4>1. i <= j /\ j <= i
        BY <2>2, <2>4, <3>1, <3>2 DEF Innermost
      <4>2. i \in Nat /\ j \in Nat
        BY <2>3
      <4> QED
        BY <4>1, <4>2
    <3>4. printed = <<x, want>> /\ printed \in DOMAIN out[i]
      <4>1. Faithful(scopes[i], kept) /\ x \in DOMAIN scopes[i].ren
        BY <1>4, <2>2, <3>2, <3>3, AllFaithful DEF Innermost
      <4>2. scopes[i].means[x] = want /\ scopes[i].ren[x] = printed /\ scopes[i].out = out[i]
        BY <2>2, <3>1, <3>2, <3>3
      <4> QED
        BY <2>5, <4>1, <4>2 DEF Faithful
    <3> HIDE DEF want, printed
    <3>5. PICK k \in DOMAIN scopes : Innermost(out, printed, k) /\ got = out[k][printed]
      BY <2>2, <2>3, <3>4, LookUpFinds
    <3>6. Numbered(scopes[k]) /\ out[k] = scopes[k].out /\ printed \in DOMAIN out[k]
      BY <1>4, <2>2, <3>5, AllFaithful DEF Innermost
    <3>7. printed[2] = want
      BY <3>4
    <3> QED
      BY <2>5, <3>5, <3>6, <3>7 DEF Numbered
  <2> HIDE DEF want, got
  <2>6. UsesKept'
    BY <1>1, <2>1, <2>5 DEF UsesKept
  <2> QED
    BY <1>1, <1>2, <2>6 DEF QuoteInv
<1> QED
  BY <1>3, <1>4

LEMMA UseCalleeStep == ASSUME QuoteInv, NEW x \in Names, UseCallee(x) PROVE QuoteInv'
<1>1. last'.how = "callee" /\ UNCHANGED <<scopes, gensym, kept>>
  BY DEF UseCallee, Passed
<1> QED
  BY <1>1 DEF QuoteInv, UsesKept, NoCapture

LEMMA SpliceStep ==
  ASSUME QuoteInv, NEW kind, NEW position, NEW x \in Names, SpliceIn(kind, position, x)
  PROVE  QuoteInv'
<1> DEFINE out == Maps("out")
           got == LookUp(out, Plain(x), 0)
<1>1. last' = [how |-> "splice", want |-> 0, got |-> got] /\ ~Skipped /\ UNCHANGED <<scopes, gensym, kept>>
  BY DEF SpliceIn, Passed
<1>2. DOMAIN out = DOMAIN scopes /\ \A i \in DOMAIN scopes : out[i] = scopes[i].out
  BY DEF Maps
<1>3. Len(scopes) \in Nat /\ DOMAIN scopes = 1 .. Len(scopes)
  BY TopIs
<1> HIDE DEF out
<1>4. got \in {0} \cup kept
  <2>1. ASSUME NEW k \in DOMAIN scopes, Innermost(out, Plain(x), k), got = out[k][Plain(x)]
        PROVE  got \in kept
    <3>1. Faithful(scopes[k], kept) /\ out[k] = scopes[k].out /\ Plain(x) \in DOMAIN out[k]
      BY <1>1, <1>2, <2>1, AllFaithful DEF Innermost
    <3>2. Plain(x)[2] = 0
      BY DEF Plain
    <3> QED
      BY <2>1, <3>1, <3>2 DEF Faithful
  <2> QED
    BY <1>2, <1>3, <2>1, LookUpFinds
<1> HIDE DEF got
<1>5. UsesKept' /\ NoCapture'
  BY <1>1, <1>4 DEF UsesKept, NoCapture
<1> QED
  BY <1>1, <1>5 DEF QuoteInv

LEMMA EndStep == ASSUME QuoteInv, SpliceFails \/ EndTemplate PROVE QuoteInv'
BY NothingPassed DEF QuoteInv, SpliceFails, EndTemplate

LEMMA QuoteStep == ASSUME QuoteInv, [QuoteNext]_quoteVars PROVE QuoteInv'
<1>1. CASE OpenBlock
  <2>1. Open(Skipped, {}, ~Skipped) /\ Skipped \in BOOLEAN /\ (~Skipped) \in BOOLEAN /\ {} \in SUBSET Names
    BY <1>1, TopIs, Zenon DEF OpenBlock, Skipped
  <2> QED
    BY <2>1, OpenStep, Zenon
<1>2. CASE Close
  BY <1>2, CloseStep
<1>3. CASE SpliceFails \/ EndTemplate
  BY <1>3, EndStep
<1>4. ASSUME NEW S \in SUBSET Names, OpenSkipped(S)
      PROVE  QuoteInv'
  <2>1. Open(TRUE, S, FALSE) /\ TRUE \in BOOLEAN /\ FALSE \in BOOLEAN
    BY <1>4 DEF OpenSkipped
  <2> QED
    BY <2>1, OpenStep, Zenon
<1>5. ASSUME NEW S \in SUBSET Names, OpenArm(S)
      PROVE  QuoteInv'
  <2>1. Open(Skipped, S, ~Skipped) /\ Skipped \in BOOLEAN /\ (~Skipped) \in BOOLEAN
    BY <1>5, TopIs, Zenon DEF OpenArm, Skipped
  <2> QED
    BY <2>1, OpenStep, Zenon
<1>6. ASSUME NEW S \in SUBSET Names, Let(S)
      PROVE  QuoteInv'
  BY <1>6, LetStep
<1>7. ASSUME NEW x \in Names, Use(x) \/ UseCallee(x) \/ LetSpliced(x)
      PROVE  QuoteInv'
  BY <1>7, UseStep, UseCalleeStep, LetSplicedStep
<1>8. ASSUME NEW x \in Names, NEW kind \in Kinds, NEW position \in Kinds, SpliceIn(kind, position, x)
      PROVE  QuoteInv'
  BY <1>8, SpliceStep
<1>9. CASE UNCHANGED quoteVars
  BY <1>9 DEF quoteVars, QuoteInv, UsesKept, NoCapture
<1> QED
  BY <1>1, <1>2, <1>3, <1>4, <1>5, <1>6, <1>7, <1>8, <1>9, Zenon DEF QuoteNext

\* What the renamer, the splicer and the printed tree hold of each open scope fits together, in
\* templates of any depth with any number of declarations.
THEOREM QuoteInvariance == QuoteSpec => []QuoteInv
<1>1. QuoteInit => QuoteInv
  BY InitialScope
<1>2. QuoteInv /\ [QuoteNext]_quoteVars => QuoteInv'
  BY QuoteStep
<1> QED
  BY <1>1, <1>2, PTL DEF QuoteSpec

\* Every use of a name that the template declares means the same in the printed tree.
THEOREM NamesAreKept == QuoteSpec => []UsesKept
<1>1. QuoteInv => UsesKept
  BY DEF QuoteInv
<1> QED
  BY <1>1, QuoteInvariance, PTL

\* What is spliced in means what it meant at the place of the call.
THEOREM NothingIsCaptured == QuoteSpec => []NoCapture
<1>1. QuoteInv => NoCapture
  BY DEF QuoteInv
<1> QED
  BY <1>1, QuoteInvariance, PTL

----------------------------------------------------------------------------
(* The syntax tree                                                         *)

Items == {"Function", "Import", "Struct", "Enum", "Const", "Impl", "Trait", "ImplTrait", "TypeAlias", "CompileItem"}
Stmts == {"Block", "Let", "LetPattern", "Assign", "ExprStmt", "Return", "IfStmt", "IfLet", "While", "WhileLet", "LoopStmt",
          "Break", "Continue", "MatchStmt", "For"}
Exprs == {"Ident", "Literal", "ArrayLit", "TupleLit", "Unary", "RefTo", "Deref", "Binary", "Call", "MethodCall", "Closure",
          "StructLit", "Access", "Index", "EnumVariant", "BlockExpr", "LoopExpr", "IfExpr", "MatchExpr", "Compile",
          "MacroCall", "Quote"}
Patterns == {"Wildcard", "Binding", "Variant", "LiteralPat", "Range", "Or", "StructPat", "TuplePat", "ArrayPat"}

\* The kinds of nodes.
LEMMA KindsAre ==
  /\ DOMAIN ItemParts = Items /\ DOMAIN StmtParts = Stmts /\ DOMAIN ExprParts = Exprs
  /\ DOMAIN PatternParts = Patterns /\ DOMAIN TypeParts = {"Type"}
BY DEF ItemParts, StmtParts, ExprParts, PatternParts, TypeParts, Items, Stmts, Exprs, Patterns

\* No kind is in two tables.
LEMMA KindsApart ==
  /\ Items \cap Stmts = {} /\ Items \cap Exprs = {} /\ Items \cap Patterns = {} /\ Stmts \cap Exprs = {}
  /\ Stmts \cap Patterns = {} /\ Exprs \cap Patterns = {}
  /\ \A k \in {"Type", "Use", "Bind"} : k \notin Items \cup Stmts \cup Exprs \cup Patterns
BY DEF Items, Stmts, Exprs, Patterns

\* The parts of a node are those of its table.
LEMMA PartsAre ==
  /\ \A k \in Items : Parts[k] = ItemParts[k]
  /\ \A k \in Stmts : Parts[k] = StmtParts[k]
  /\ \A k \in Exprs : Parts[k] = ExprParts[k]
  /\ \A k \in Patterns : Parts[k] = PatternParts[k]
  /\ Parts["Type"] = TypeParts["Type"]
  /\ Parts["Use"] = {} /\ Parts["Bind"] = {}
<1>1. \A k \in Items : k \in NodeKinds /\ Parts[k] = ItemParts[k]
  BY KindsAre, KindsApart DEF Parts, NodeKinds
<1>2. \A k \in Stmts : k \in NodeKinds /\ Parts[k] = StmtParts[k]
  BY KindsAre, KindsApart DEF Parts, NodeKinds
<1>3. \A k \in Exprs : k \in NodeKinds /\ Parts[k] = ExprParts[k]
  BY KindsAre, KindsApart DEF Parts, NodeKinds
<1>4. \A k \in Patterns : k \in NodeKinds /\ Parts[k] = PatternParts[k]
  BY KindsAre, KindsApart DEF Parts, NodeKinds
<1>5. Parts["Type"] = TypeParts["Type"]
  BY KindsAre, KindsApart DEF Parts, NodeKinds
<1>6. Parts["Use"] = {} /\ Parts["Bind"] = {}
  BY KindsAre, KindsApart DEF Parts, NodeKinds
<1> QED
  BY <1>1, <1>2, <1>3, <1>4, <1>5, <1>6

\* What stands in the parts of expressions.
LEMMA ExprShapes ==
  ASSUME NEW k \in Exprs, NEW p \in Parts[k]
  PROVE  /\ p = <<p[1], p[2]>> /\ p[2] \in {"Use", "Bind", "Type", "Expr", "Block", "Pattern"}
         /\ p[1] = "typeArgs" => p[2] = "Type"
         /\ k = "Call" /\ p[1] = "callee" => p[2] = "Use"
<1>1. p \in ExprParts[k]
  BY PartsAre
<1> QED
  BY <1>1 DEF ExprParts, MatchParts, Exprs

\* Of statements.
LEMMA StmtShapes ==
  ASSUME NEW k \in Stmts, NEW p \in Parts[k]
  PROVE  /\ p = <<p[1], p[2]>> /\ p[2] \in {"Bind", "Type", "Expr", "Block", "Stmt", "Pattern"}
         /\ k = "Let" /\ p[1] = "name" => p[2] = "Bind"
<1>1. p \in StmtParts[k]
  BY PartsAre
<1> QED
  BY <1>1 DEF StmtParts, MatchParts, Stmts

\* Of patterns.
LEMMA PatternShapes ==
  ASSUME NEW k \in Patterns, NEW p \in Parts[k]
  PROVE  /\ p = <<p[1], p[2]>> /\ p[2] \in {"Use", "Bind", "Expr", "Pattern"}
         /\ k = "Range" <=> p[2] = "Expr"
<1>1. p \in PatternParts[k]
  BY PartsAre
<1> QED
  BY <1>1 DEF PatternParts, Patterns

\* Of items.
LEMMA ItemShapes ==
  ASSUME NEW k \in Items, NEW p \in Parts[k]
  PROVE  /\ p = <<p[1], p[2]>> /\ p[2] \in {"Use", "Bind", "Type", "Expr", "Block", "Method"}
         /\ p[2] = "Block" <=> k = "Function" /\ p[1] = "body"
         /\ p[2] = "Method" <=> k \in {"Impl", "ImplTrait"} /\ p[1] = "methods"
         /\ p[2] = "Expr" => k \in {"Const", "CompileItem"}
         /\ p[1] = "bounds" => p[2] = "Type"
<1>1. p \in ItemParts[k]
  BY PartsAre
<1> QED
  BY <1>1 DEF ItemParts, Items

\* Of types.
LEMMA TypeShapes ==
  ASSUME NEW p \in Parts["Type"]
  PROVE  p = <<p[1], p[2]>> /\ p[2] \in {"Use", "Type"}
BY PartsAre DEF TypeParts

\* What is below a part.
LEMMA KindsBelow ==
  /\ KindsOf("Method") = {"Function"} /\ KindsOf("Block") = {"Block"} /\ KindsOf("Stmt") = Stmts
  /\ KindsOf("Expr") = Exprs /\ KindsOf("Pattern") = Patterns
  /\ KindsOf("Use") = {"Use"} /\ KindsOf("Bind") = {"Bind"} /\ KindsOf("Type") = {"Type"}
BY KindsAre DEF KindsOf

----------------------------------------------------------------------------
(* Two walks at one part *)

\* The parts of the nodes of some kinds have each part of each of these kinds.
LEMMA InPartsOf ==
  ASSUME NEW K, NEW k \in K, NEW p \in Parts[k]
  PROVE  <<k, p[1]>> \in PartsOf(K)
BY DEF PartsOf

\* And no other.
LEMMA KindOfPart ==
  ASSUME NEW K, NEW k, NEW q, <<k, q>> \in PartsOf(K)
  PROVE  k \in K /\ \E p \in Parts[k] : p[1] = q
BY DEF PartsOf

\* A part at which a node of one of some sorts stands is kept when they are asked for.
LEMMA InOfSort ==
  ASSUME NEW S, NEW sorts, NEW k, NEW p, p = <<p[1], p[2]>>, p \in Parts[k], <<k, p[1]>> \in S, p[2] \in sorts
  PROVE  <<k, p[1]>> \in OfSort(S, sorts)
BY DEF OfSort

\* Where expansions are looked for, prefixes have been stripped.
LEMMA ExpandStrip ==
  ASSUME NEW k, NEW q, <<k, q>> \in Expand
  PROVE  <<k, q>> \in Strip
<1>1. CASE <<k, q>> \in ExpandItem
  <2>1. k \in {"Function", "Impl", "CompileItem"} /\ k \in Items
    BY <1>1 DEF ExpandItem, Items
  <2>2. /\ Parts["Function"] = ItemParts["Function"] /\ Parts["Impl"] = ItemParts["Impl"]
        /\ Parts["CompileItem"] = ItemParts["CompileItem"]
    BY PartsAre DEF Items
  <2>3. \/ k = "Function" /\ q = "body" /\ <<"body", "Block">> \in Parts[k]
        \/ k = "Impl" /\ q = "methods" /\ <<"methods", "Method">> \in Parts[k]
        \/ k = "CompileItem" /\ q = "expr" /\ <<"expr", "Expr">> \in Parts[k]
    BY <1>1, <2>2 DEF ExpandItem, ItemParts
  <2>4. \E p \in Parts[k] : p[1] = q
    BY <2>3
  <2>5. k \in {"Function", "Struct", "Enum", "Const", "Impl", "CompileItem"}
    BY <2>1
  <2>6. <<k, q>> \in PartsOf({"Function", "Struct", "Enum", "Const", "Impl", "CompileItem"})
    BY <2>4, <2>5, InPartsOf
  <2>7. <<q, "Bind">> \notin Parts[k]
    BY <2>2, <2>3 DEF ItemParts
  <2>8. <<k, q>> \notin OfSort(PartsOf(DOMAIN ItemParts), {"Bind"})
    <3>1. ASSUME <<k, q>> \in OfSort(PartsOf(DOMAIN ItemParts), {"Bind"}) PROVE FALSE
      <4>1. \E s \in {"Bind"} : <<q, s>> \in Parts[k]
        BY <3>1 DEF OfSort
      <4> QED
        BY <4>1, <2>7
    <3> QED
      BY <3>1
  <2>9. <<k, q>> # <<"Impl", "typeArgs">> /\ <<k, q>> \notin {<<i, "bounds">> : i \in {"Function", "Struct", "Enum", "Impl"}}
    BY <2>3
  <2> QED
    BY <2>6, <2>8, <2>9 DEF Strip, StripItem
<1>2. CASE <<k, q>> \in ExpandStmt
  <2>1. /\ <<k, q>> \in PartsOf(DOMAIN StmtParts \ {"For", "Break"})
        /\ \E s \in {"Expr", "Stmt", "Block"} : <<q, s>> \in Parts[k]
    BY <1>2 DEF OfSort, ExpandStmt
  <2>2. PICK s \in {"Expr", "Stmt", "Block"} : <<q, s>> \in Parts[k]
    BY <2>1
  <2>3. k \in Stmts /\ k \in DOMAIN StmtParts
    BY <2>1, KindOfPart, KindsAre
  <2>4. <<k, q>> \in PartsOf(DOMAIN StmtParts)
    <3>1. PICK p \in Parts[k] : p[1] = q
      BY <2>1, KindOfPart
    <3> QED
      BY <3>1, <2>3, InPartsOf
  <2>5. <<k, q>> # <<"Let", "name">>
    <3>1. k = "Let" /\ q = "name" => s = "Bind"
      BY <2>2, <2>3, StmtShapes
    <3> QED
      BY <3>1, <2>2
  <2> QED
    BY <2>4, <2>5 DEF Strip, StripStmt
<1>3. CASE <<k, q>> \in ExpandExpr
  <2>1. /\ <<k, q>> \in PartsOf(DOMAIN ExprParts \ {"Closure", "Quote"})
        /\ \E s \in {"Expr", "Block"} : <<q, s>> \in Parts[k]
    BY <1>3 DEF OfSort, ExpandExpr
  <2>2. PICK s \in {"Expr", "Block"} : <<q, s>> \in Parts[k]
    BY <2>1
  <2>3. k \in DOMAIN ExprParts \ {"Closure", "Quote"}
    BY <2>1, KindOfPart
  <2>4. k \in Exprs /\ k \in DOMAIN ExprParts \ {"Closure"}
    BY <2>3, KindsAre
  <2>5. <<k, q>> \in PartsOf(DOMAIN ExprParts \ {"Closure"})
    <3>1. PICK p \in Parts[k] : p[1] = q
      BY <2>1, KindOfPart
    <3> QED
      BY <3>1, <2>4, InPartsOf
  <2>6. q # "typeArgs"
    <3>1. q = "typeArgs" => s = "Type"
      BY <2>2, <2>4, ExprShapes
    <3> QED
      BY <3>1, <2>2
  <2>7. <<k, q>> \notin {<<i, "typeArgs">> : i \in {"Call", "StructLit", "EnumVariant"}}
    BY <2>6
  <2> QED
    BY <2>5, <2>7 DEF Strip, StripExpr
<1> QED
  BY <1>1, <1>2, <1>3 DEF Expand

\* Each case of the renaming pass is about kinds of one table.
LEMMA RenameCases ==
  ASSUME NEW k, NEW q
  PROVE  /\ <<k, q>> \in RenameItem => k \in {"Function", "Impl"}
         /\ <<k, q>> \in RenameStmt => k \in Stmts \ {"For", "Break"}
         /\ <<k, q>> \in RenameExpr => k \in Exprs \ {"TupleLit", "LoopExpr", "Closure", "Quote"}
         /\ <<k, q>> \in RenamePattern => k \in {"Binding", "Variant", "StructPat", "TuplePat", "ArrayPat", "Or"}
<1>1. <<k, q>> \in RenameItem => k \in {"Function", "Impl"}
  BY DEF RenameItem
<1>2. ASSUME <<k, q>> \in RenameStmt PROVE k \in Stmts \ {"For", "Break"}
  <2>1. <<k, q>> \in PartsOf(DOMAIN StmtParts \ {"For", "Break"})
    BY <1>2 DEF OfSort, RenameStmt
  <2> QED
    BY <2>1, KindOfPart, KindsAre
<1>3. ASSUME <<k, q>> \in RenameExpr PROVE k \in Exprs \ {"TupleLit", "LoopExpr", "Closure", "Quote"}
  <2>1. CASE <<k, q>> = <<"Ident", "name">>
    BY <2>1 DEF Exprs
  <2>2. CASE <<k, q>> # <<"Ident", "name">>
    <3>1. <<k, q>> \in PartsOf(DOMAIN ExprParts \ {"TupleLit", "LoopExpr", "Closure", "Quote"})
      BY <1>3, <2>2 DEF OfSort, RenameExpr
    <3> QED
      BY <3>1, KindOfPart, KindsAre
  <2> QED
    BY <2>1, <2>2
<1>4. ASSUME <<k, q>> \in RenamePattern PROVE k \in {"Binding", "Variant", "StructPat", "TuplePat", "ArrayPat", "Or"}
  <2>1. <<k, q>> \in PartsOf({"Binding", "Variant", "StructPat", "TuplePat", "ArrayPat", "Or"})
    BY <1>4 DEF OfSort, RenamePattern
  <2> QED
    BY <2>1, KindOfPart
<1> QED
  BY <1>1, <1>2, <1>3, <1>4

\* So is each of the replacing pass.
LEMMA ReplaceCases ==
  ASSUME NEW k, NEW q
  PROVE  /\ <<k, q>> \in ReplaceItem => k \in {"Function", "Struct", "Enum", "Const", "Impl"}
         /\ <<k, q>> \in ReplaceStmt => k \in Stmts \ {"For", "Break"}
         /\ <<k, q>> \in ReplaceExpr => k \in Exprs \ {"TupleLit", "LoopExpr", "Closure", "Quote"}
         /\ <<k, q>> \in ReplacePattern => k \in {"Binding", "Variant", "StructPat", "TuplePat", "ArrayPat", "Or"}
         /\ <<k, q>> \in ReplaceType => k = "Type"
<1>1. ASSUME <<k, q>> \in ReplaceItem PROVE k \in {"Function", "Struct", "Enum", "Const", "Impl"}
  <2>1. <<k, q>> \in PartsOf({"Function", "Struct", "Enum", "Const", "Impl"})
    BY <1>1 DEF ReplaceItem
  <2> QED
    BY <2>1, KindOfPart
<1>2. <<k, q>> \in ReplaceStmt => k \in Stmts \ {"For", "Break"}
  BY KindOfPart, KindsAre DEF ReplaceStmt
<1>3. ASSUME <<k, q>> \in ReplaceExpr PROVE k \in Exprs \ {"TupleLit", "LoopExpr", "Closure", "Quote"}
  <2>1. <<k, q>> \in PartsOf(DOMAIN ExprParts \ {"TupleLit", "LoopExpr", "Closure", "Quote"})
    BY <1>3 DEF ReplaceExpr
  <2> QED
    BY <2>1, KindOfPart, KindsAre
<1>4. ASSUME <<k, q>> \in ReplacePattern PROVE k \in {"Binding", "Variant", "StructPat", "TuplePat", "ArrayPat", "Or"}
  <2>1. <<k, q>> \in PartsOf({"Binding", "Variant", "StructPat", "TuplePat", "ArrayPat", "Or"})
    BY <1>4 DEF ReplacePattern
  <2> QED
    BY <2>1, KindOfPart
<1>5. <<k, q>> \in ReplaceType => k = "Type"
  BY DEF ReplaceType
<1> QED
  BY <1>1, <1>2, <1>3, <1>4, <1>5

\* Where placeholders are replaced names have been renamed, in the statements, expressions and
\* patterns of functions and impls.
LEMMA RenameReplace ==
  ASSUME NEW k \in Stmts \cup Exprs \cup Patterns \cup {"Function", "Impl"}, NEW p \in Parts[k],
         p[2] \in {"Expr", "Block", "Stmt", "Pattern", "Method"}
  PROVE  <<k, p[1]>> \in Rename <=> <<k, p[1]>> \in Replace
<1>1. CASE k \in {"Function", "Impl"}
  <2>1. k \in Items
    BY <1>1 DEF Items
  <2>2. (k = "Function" /\ p[1] = "body") \/ (k = "Impl" /\ p[1] = "methods")
    BY <1>1, <2>1, ItemShapes
  <2>3. <<k, p[1]>> \in Rename
    BY <2>2 DEF Rename, RenameItem
  <2>4. k \in {"Function", "Struct", "Enum", "Const", "Impl"}
    BY <1>1
  <2>5. <<k, p[1]>> \in PartsOf({"Function", "Struct", "Enum", "Const", "Impl"})
    BY <2>4, InPartsOf
  <2>6. p[1] # "bounds" /\ p[1] # "typeArgs"
    BY <2>2
  <2> QED
    BY <2>3, <2>5, <2>6 DEF Replace, ReplaceItem
<1>2. CASE k \in Stmts
  <2>1. k \notin Items /\ k \notin Exprs /\ k \notin Patterns /\ k # "Type"
    BY <1>2, KindsApart
  <2>2. k \notin {"Function", "Struct", "Enum", "Const", "Impl"} /\ k \notin Exprs \ {"TupleLit", "LoopExpr", "Closure", "Quote"}
        /\ k \notin {"Binding", "Variant", "StructPat", "TuplePat", "ArrayPat", "Or"}
    BY <2>1 DEF Items, Patterns
  <2>3. <<k, p[1]>> \in Rename => <<k, p[1]>> \in RenameStmt
    BY <2>2, RenameCases DEF Rename
  <2>4. <<k, p[1]>> \in Replace => <<k, p[1]>> \in ReplaceStmt
    BY <2>1, <2>2, ReplaceCases DEF Replace
  <2>5. CASE k \in {"For", "Break"}
    BY <2>3, <2>4, <2>5, RenameCases, ReplaceCases
  <2>6. CASE k \notin {"For", "Break"}
    <3>1. k \in DOMAIN StmtParts \ {"For", "Break"}
      BY <1>2, <2>6, KindsAre
    <3>2. <<k, p[1]>> \in PartsOf(DOMAIN StmtParts \ {"For", "Break"})
      BY <3>1, InPartsOf
    <3>3. p = <<p[1], p[2]>> /\ p[2] \in {"Bind", "Pattern", "Expr", "Block", "Stmt"}
      BY <1>2, StmtShapes
    <3>4. <<k, p[1]>> \in RenameStmt
      BY <3>2, <3>3, InOfSort DEF RenameStmt
    <3> QED
      BY <3>2, <3>4 DEF Rename, Replace, ReplaceStmt
  <2> QED
    BY <2>5, <2>6
<1>3. CASE k \in Exprs
  <2>1. k \notin Items /\ k \notin Stmts /\ k \notin Patterns /\ k # "Type"
    BY <1>3, KindsApart
  <2>2. k \notin {"Function", "Struct", "Enum", "Const", "Impl"} /\ k \notin Stmts \ {"For", "Break"}
        /\ k \notin {"Binding", "Variant", "StructPat", "TuplePat", "ArrayPat", "Or"}
    BY <2>1 DEF Items, Patterns
  <2>3. <<k, p[1]>> \in Rename => <<k, p[1]>> \in RenameExpr
    BY <2>2, RenameCases DEF Rename
  <2>4. <<k, p[1]>> \in Replace => <<k, p[1]>> \in ReplaceExpr
    BY <2>1, <2>2, ReplaceCases DEF Replace
  <2>5. CASE k \in {"TupleLit", "LoopExpr", "Closure", "Quote"}
    BY <2>3, <2>4, <2>5, RenameCases, ReplaceCases
  <2>6. CASE k \notin {"TupleLit", "LoopExpr", "Closure", "Quote"}
    <3>1. k \in DOMAIN ExprParts \ {"TupleLit", "LoopExpr", "Closure", "Quote"}
      BY <1>3, <2>6, KindsAre
    <3>2. <<k, p[1]>> \in PartsOf(DOMAIN ExprParts \ {"TupleLit", "LoopExpr", "Closure", "Quote"})
      BY <3>1, InPartsOf
    <3>3. p = <<p[1], p[2]>> /\ p[2] \in {"Expr", "Pattern", "Block"}
      BY <1>3, ExprShapes
    <3>4. <<k, p[1]>> \in RenameExpr
      BY <3>2, <3>3, InOfSort DEF RenameExpr
    <3>5. p[1] # "typeArgs" /\ ~(k = "Call" /\ p[1] = "callee")
      BY <1>3, <3>3, ExprShapes
    <3>6. <<k, p[1]>> \in ReplaceExpr
      BY <3>2, <3>5 DEF ReplaceExpr
    <3> QED
      BY <3>4, <3>6 DEF Rename, Replace
  <2> QED
    BY <2>5, <2>6
<1>4. CASE k \in Patterns
  <2>1. k \notin Items /\ k \notin Stmts /\ k \notin Exprs /\ k # "Type"
    BY <1>4, KindsApart
  <2>2. k \notin {"Function", "Struct", "Enum", "Const", "Impl"}
    BY <2>1 DEF Items
  <2>3. <<k, p[1]>> \in Rename => <<k, p[1]>> \in RenamePattern
    BY <2>1, <2>2, RenameCases DEF Rename
  <2>4. <<k, p[1]>> \in Replace => <<k, p[1]>> \in ReplacePattern
    BY <2>1, <2>2, ReplaceCases DEF Replace
  <2>5. CASE k \notin {"Binding", "Variant", "StructPat", "TuplePat", "ArrayPat", "Or"}
    BY <2>3, <2>4, <2>5, RenameCases, ReplaceCases
  <2>6. CASE k \in {"Binding", "Variant", "StructPat", "TuplePat", "ArrayPat", "Or"}
    <3>1. <<k, p[1]>> \in PartsOf({"Binding", "Variant", "StructPat", "TuplePat", "ArrayPat", "Or"})
      BY <2>6, InPartsOf
    <3>2. k # "Range"
      BY <2>6
    <3>3. p = <<p[1], p[2]>> /\ p[2] \in {"Bind", "Pattern"}
      BY <1>4, <3>2, PatternShapes
    <3>4. <<k, p[1]>> \in RenamePattern
      BY <3>1, <3>3, InOfSort DEF RenamePattern
    <3> QED
      BY <3>1, <3>4 DEF Rename, Replace, ReplacePattern
  <2> QED
    BY <2>5, <2>6
<1> QED
  BY <1>1, <1>2, <1>3, <1>4

\* Inside functions, where aliases are expanded type parameters have been substituted.
LEMMA AliasClone ==
  ASSUME NEW k, k \notin Items \ {"Function", "Impl", "ImplTrait"}, NEW p \in Parts[k], <<k, p[1]>> \in Aliases,
         k \in {"Impl", "ImplTrait"} => p[1] = "methods"
  PROVE  <<k, p[1]>> \in Clone
<1>1. CASE k \in {"Impl", "ImplTrait"}
  BY <1>1 DEF Clone, CloneFunction
<1>2. CASE k \notin {"Impl", "ImplTrait"} /\ <<k, p[1]>> \in AliasItem
  <2>1. <<k, p[1]>> # <<"Const", "type">>
    BY DEF Items
  <2>2. <<k, p[1]>> \in PartsOf({"Function", "Struct", "Enum", "TypeAlias", "Impl", "ImplTrait"})
    BY <1>2, <2>1 DEF OfSort, AliasItem
  <2>3. k \in {"Function", "Struct", "Enum", "TypeAlias", "Impl", "ImplTrait"}
    BY <2>2, KindOfPart
  <2>4. k = "Function"
    BY <1>2, <2>3 DEF Items
  <2>5. <<k, p[1]>> \in PartsOf({"Function"})
    BY <2>4, InPartsOf
  <2>6. <<k, p[1]>> # <<"Function", "bounds">>
    <3>1. <<k, p[1]>> \notin {<<i, "bounds">> : i \in DOMAIN ItemParts}
      BY <1>2, <2>1 DEF AliasItem
    <3>2. "Function" \in DOMAIN ItemParts
      BY KindsAre DEF Items
    <3> QED
      BY <3>1, <3>2
  <2> QED
    BY <2>5, <2>6 DEF Clone, CloneFunction
<1>3. CASE <<k, p[1]>> \in AliasStmt
  BY <1>3 DEF OfSort, AliasStmt, Clone, CloneStmt
<1>4. CASE <<k, p[1]>> \in AliasExpr
  BY <1>4 DEF OfSort, AliasExpr, Clone, CloneExpr
<1>5. CASE <<k, p[1]>> \in AliasType
  BY <1>5 DEF AliasType, Clone, CloneType
<1> QED
  BY <1>1, <1>2, <1>3, <1>4, <1>5 DEF Aliases

\* And the other way round, but for patterns.
LEMMA CloneAlias ==
  ASSUME NEW k \in Stmts \cup Exprs \cup {"Function", "Type", "Impl", "ImplTrait"}, NEW p \in Parts[k],
         p[2] \in {"Type", "Expr", "Block", "Stmt", "Method"}, <<k, p[1]>> \in Clone
  PROVE  <<k, p[1]>> \in Aliases
<1>1. CASE k \in {"Function", "Impl", "ImplTrait"}
  <2>1. k \in Items
    BY <1>1 DEF Items
  <2>2. k \notin Stmts /\ k \notin Exprs /\ k \notin Patterns /\ k # "Type"
    BY <2>1, KindsApart
  <2>3. ~(<<k, p[1]>> \in CloneStmt \cup CloneExpr \cup ClonePattern \cup CloneType)
    BY <2>2, KindOfPart, KindsAre DEF CloneStmt, CloneExpr, ClonePattern, CloneType
  <2>4. <<k, p[1]>> \in CloneFunction
    BY <2>3 DEF Clone
  <2>5. p[1] # "bounds"
    <3>1. CASE k = "Function"
      BY <2>4, <3>1 DEF CloneFunction
    <3>2. CASE k # "Function"
      <4>1. <<k, p[1]>> \notin PartsOf({"Function"})
        BY <3>2, KindOfPart
      <4> QED
        BY <2>4, <4>1 DEF CloneFunction
    <3> QED
      BY <3>1, <3>2
  <2>6. p = <<p[1], p[2]>> /\ p[2] \in {"Type", "Block", "Method"}
    BY <1>1, <2>1, ItemShapes
  <2>7. k \in {"Function", "Struct", "Enum", "TypeAlias", "Impl", "ImplTrait"}
    BY <1>1
  <2>8. <<k, p[1]>> \in PartsOf({"Function", "Struct", "Enum", "TypeAlias", "Impl", "ImplTrait"})
    BY <2>7, InPartsOf
  <2>9. <<k, p[1]>> \in OfSort(PartsOf({"Function", "Struct", "Enum", "TypeAlias", "Impl", "ImplTrait"}), {"Type", "Block", "Method"})
    BY <2>6, <2>8, InOfSort
  <2>10. <<k, p[1]>> \notin {<<i, "bounds">> : i \in DOMAIN ItemParts}
    BY <2>5
  <2> QED
    BY <2>9, <2>10 DEF Aliases, AliasItem
<1>2. CASE k \in Stmts
  <2>1. <<k, p[1]>> \in PartsOf(DOMAIN StmtParts)
    BY <1>2, KindsAre, InPartsOf
  <2>2. p = <<p[1], p[2]>> /\ p[2] \in {"Type", "Expr", "Block", "Stmt"}
    BY <1>2, StmtShapes
  <2> QED
    BY <2>1, <2>2, InOfSort DEF Aliases, AliasStmt
<1>3. CASE k \in Exprs
  <2>1. k \notin Stmts /\ k \notin Items /\ k \notin Patterns /\ k # "Type"
    BY <1>3, KindsApart
  <2>2. k \notin {"Function", "Impl", "ImplTrait"}
    BY <2>1 DEF Items
  <2>3. ~(<<k, p[1]>> \in CloneStmt \cup ClonePattern \cup CloneType)
    BY <2>1, KindOfPart, KindsAre DEF CloneStmt, ClonePattern, CloneType
  <2>4. <<k, p[1]>> \notin CloneFunction
    BY <2>2, KindOfPart DEF CloneFunction
  <2>5. <<k, p[1]>> \in PartsOf(DOMAIN ExprParts \ {"Closure"})
    BY <2>3, <2>4 DEF Clone, CloneExpr
  <2>6. p = <<p[1], p[2]>> /\ p[2] \in {"Type", "Expr", "Block"}
    BY <1>3, ExprShapes
  <2> QED
    BY <2>5, <2>6, InOfSort DEF Aliases, AliasExpr
<1>4. CASE k = "Type"
  <2>1. k \in {"Type"}
    BY <1>4
  <2>2. <<k, p[1]>> \in PartsOf({"Type"})
    BY <2>1, InPartsOf
  <2> QED
    BY <2>2 DEF Aliases, AliasType
<1> QED
  BY <1>1, <1>2, <1>3, <1>4

----------------------------------------------------------------------------
(* All the way down *)

\* Only the top of a path is an item, but for methods, and no walk is left behind there.  The pairs
\* of walks are together at every kind of node that leads on to what the properties are about.
WalkInv ==
  /\ at \in Items \cup Stmts \cup Exprs \cup Patterns \cup {"Type", "Use", "Bind"}
  /\ root \in Items /\ come \in SUBSET DOMAIN Follows
  /\ at \in Items \ {"Function"} => at = root /\ inside = {} /\ come = DOMAIN Follows
  /\ at \in Patterns => "pattern" \in inside
  /\ "expand" \in come => "strip" \in come
  /\ root \in {"Function", "Impl"} /\ at \in Stmts \cup Exprs \cup Patterns \cup {"Function"}
       => ("replace" \in come <=> "rename" \in come)
  /\ "function" \in inside /\ "alias" \in come => "clone" \in come
  /\ "function" \in inside /\ "pattern" \notin inside /\ at \in Stmts \cup Exprs \cup {"Function", "Type"} /\ "clone" \in come
       => "alias" \in come

\* The walks by name.
LEMMA WalksAre ==
  /\ DOMAIN Follows = {"strip", "expand", "alias", "clone", "rename", "replace"}
  /\ Follows["strip"] = Strip /\ Follows["expand"] = Expand /\ Follows["alias"] = Aliases /\ Follows["clone"] = Clone
  /\ Follows["rename"] = Rename /\ Follows["replace"] = Replace
BY DEF Follows

\* At the top.
LEMMA WalkInvInit == WalkInit => WalkInv
<1> SUFFICES ASSUME WalkInit PROVE WalkInv
  OBVIOUS
<1>1. root \in Items /\ at = root /\ come = DOMAIN Follows
  BY KindsAre DEF WalkInit
<1>2. at \in Items \ {"Function"} => inside = {}
  BY <1>1 DEF WalkInit
<1>3. at \notin Patterns
  BY <1>1, KindsApart
<1> QED
  BY <1>1, <1>2, <1>3, WalksAre DEF WalkInv

\* Where a path comes from and where it gets.
LEMMA Below ==
  ASSUME NEW k \in Items \cup Stmts \cup Exprs \cup Patterns \cup {"Type", "Use", "Bind"}, NEW p \in Parts[k],
         NEW below \in KindsOf(p[2])
  PROVE  /\ below \in {"Function"} \cup Stmts \cup Exprs \cup Patterns \cup {"Type", "Use", "Bind"}
         /\ below = "Function" => p[2] = "Method" /\ k \in {"Impl", "ImplTrait"} /\ p[1] = "methods"
         /\ below \in Stmts => p[2] \in {"Block", "Stmt"}
         /\ below \in Exprs => p[2] = "Expr"
         /\ below \in Patterns => p[2] = "Pattern"
         /\ below = "Type" => p[2] = "Type"
<1>1. p[2] \in {"Use", "Bind", "Type", "Expr", "Block", "Stmt", "Pattern", "Method"}
  BY ExprShapes, StmtShapes, PatternShapes, ItemShapes, TypeShapes, PartsAre
<1>2. p[2] = "Method" => k \in {"Impl", "ImplTrait"} /\ p[1] = "methods"
  BY ExprShapes, StmtShapes, PatternShapes, ItemShapes, TypeShapes, PartsAre
<1>3. /\ "Function" \in Items /\ "Block" \in Stmts
  BY DEF Items, Stmts
<1>4. below \in {"Function"} \cup Stmts \cup Exprs \cup Patterns \cup {"Type", "Use", "Bind"}
  BY <1>1, <1>3, KindsBelow
<1>5. below = "Function" => p[2] = "Method"
  BY <1>1, <1>3, KindsBelow, KindsApart
<1>6. below \in Stmts => p[2] \in {"Block", "Stmt"}
  BY <1>1, <1>3, KindsBelow, KindsApart
<1>7. below \in Exprs => p[2] = "Expr"
  BY <1>1, <1>3, KindsBelow, KindsApart
<1>8. below \in Patterns => p[2] = "Pattern"
  BY <1>1, <1>3, KindsBelow, KindsApart
<1>9. below = "Type" => p[2] = "Type"
  BY <1>1, <1>3, KindsBelow, KindsApart
<1> QED
  BY <1>2, <1>4, <1>5, <1>6, <1>7, <1>8, <1>9

\* One part further down: which kinds lead to which (Below) says what the path has come through.
LEMMA DescendInv == WalkInv /\ Descend => WalkInv'
<1> SUFFICES ASSUME WalkInv, Descend PROVE WalkInv'
  OBVIOUS
<1>0. PICK p \in Parts[at] :
        /\ at' \in KindsOf(p[2])
        /\ inside' = inside \cup (IF at' = "Function" THEN {"function"} ELSE {})
                            \cup (IF at' \in DOMAIN PatternParts THEN {"pattern"} ELSE {})
        /\ come' = {w \in come : <<at, p[1]>> \in Follows[w]}
        /\ root' = root
  BY DEF Descend
<1>1. at \in Items \cup Stmts \cup Exprs \cup Patterns \cup {"Type", "Use", "Bind"}
  BY DEF WalkInv
<1>2. /\ at' \in {"Function"} \cup Stmts \cup Exprs \cup Patterns \cup {"Type", "Use", "Bind"}
      /\ at' = "Function" => p[2] = "Method" /\ at \in {"Impl", "ImplTrait"} /\ p[1] = "methods"
      /\ at' \in Stmts => p[2] \in {"Block", "Stmt"}
      /\ at' \in Exprs => p[2] = "Expr"
      /\ at' \in Patterns => p[2] = "Pattern"
      /\ at' = "Type" => p[2] = "Type"
  BY <1>0, <1>1, Below
<1>3. at' \notin Items \ {"Function"}
  BY <1>2, KindsApart DEF Items
<1>4. come' \in SUBSET DOMAIN Follows
  BY <1>0 DEF WalkInv
<1>5. "pattern" \in inside' <=> "pattern" \in inside \/ at' \in Patterns
  BY <1>0, KindsAre
<1>6. "function" \in inside' <=> "function" \in inside \/ at' = "Function"
  BY <1>0
<1>7. \A w \in DOMAIN Follows : w \in come' <=> w \in come /\ <<at, p[1]>> \in Follows[w]
  BY <1>0 DEF WalkInv
<1>8. /\ ("expand" \in come' <=> "expand" \in come /\ <<at, p[1]>> \in Expand)
      /\ ("strip" \in come' <=> "strip" \in come /\ <<at, p[1]>> \in Strip)
      /\ ("alias" \in come' <=> "alias" \in come /\ <<at, p[1]>> \in Aliases)
      /\ ("clone" \in come' <=> "clone" \in come /\ <<at, p[1]>> \in Clone)
      /\ ("rename" \in come' <=> "rename" \in come /\ <<at, p[1]>> \in Rename)
      /\ ("replace" \in come' <=> "replace" \in come /\ <<at, p[1]>> \in Replace)
  BY <1>7, WalksAre
<1>10. "expand" \in come' => "strip" \in come'
  BY <1>8, ExpandStrip DEF WalkInv
<1>11. ASSUME root' \in {"Function", "Impl"}, at' \in Stmts \cup Exprs \cup Patterns \cup {"Function"}
       PROVE  "replace" \in come' <=> "rename" \in come'
  <2>1. p[2] \in {"Expr", "Block", "Stmt", "Pattern", "Method"}
    BY <1>2, <1>11
  <2>2. at \notin {"Type", "Use", "Bind"}
    BY <2>1, TypeShapes, PartsAre
  <2>3. at \in Items => at \in {"Function", "Impl"}
    BY <1>0, <1>11 DEF WalkInv
  <2>4. at \in Stmts \cup Exprs \cup Patterns \cup {"Function", "Impl"}
    BY <1>1, <2>2, <2>3
  <2>5. <<at, p[1]>> \in Rename <=> <<at, p[1]>> \in Replace
    BY <2>1, <2>4, RenameReplace
  <2>6. "replace" \in come <=> "rename" \in come
    <3>1. CASE at = "Impl"
      <4>1. come = DOMAIN Follows
        BY <3>1 DEF WalkInv, Items
      <4> QED
        BY <4>1, WalksAre
    <3>2. CASE at # "Impl"
      BY <1>0, <1>11, <2>4, <3>2 DEF WalkInv
    <3> QED
      BY <3>1, <3>2
  <2> QED
    BY <1>8, <2>5, <2>6
<1>12. ASSUME "function" \in inside' PROVE ("function" \in inside /\ at \notin Items \ {"Function"})
         \/ (at' = "Function" /\ at \in {"Impl", "ImplTrait"} /\ p[1] = "methods" /\ come = DOMAIN Follows)
  <2>1. CASE at' = "Function"
    <3>1. at \in Items \ {"Function"}
      BY <1>2, <2>1 DEF Items
    <3> QED
      BY <1>2, <2>1, <3>1 DEF WalkInv
  <2>2. CASE at' # "Function"
    <3>1. "function" \in inside
      BY <1>6, <1>12, <2>2
    <3> QED
      BY <3>1 DEF WalkInv
  <2> QED
    BY <2>1, <2>2
<1>13. ASSUME "function" \in inside', "alias" \in come' PROVE "clone" \in come'
  <2>1. "alias" \in come /\ <<at, p[1]>> \in Aliases
    BY <1>8, <1>13
  <2>2. "clone" \in come
    BY <1>12, <1>13, <2>1, WalksAre DEF WalkInv
  <2>3. at \notin Items \ {"Function", "Impl", "ImplTrait"} /\ (at \in {"Impl", "ImplTrait"} => p[1] = "methods")
    BY <1>12, <1>13 DEF Items
  <2>4. <<at, p[1]>> \in Clone
    BY <2>1, <2>3, AliasClone
  <2> QED
    BY <1>8, <2>2, <2>4
<1>14. ASSUME "function" \in inside', "pattern" \notin inside', at' \in Stmts \cup Exprs \cup {"Function", "Type"},
              "clone" \in come'
       PROVE  "alias" \in come'
  <2>1. "clone" \in come /\ <<at, p[1]>> \in Clone
    BY <1>8, <1>14
  <2>2. p[2] \in {"Type", "Expr", "Block", "Stmt", "Method"}
    BY <1>2, <1>14
  <2>3. "pattern" \notin inside /\ at \notin Patterns
    BY <1>5, <1>14 DEF WalkInv
  <2>4. at \notin {"Use", "Bind"}
    BY PartsAre
  <2>5. at \in Stmts \cup Exprs \cup {"Function", "Type", "Impl", "ImplTrait"}
    BY <1>1, <1>12, <1>14, <2>3, <2>4
  <2>6. "alias" \in come
    <3>1. CASE "function" \in inside /\ at \notin Items \ {"Function"}
      <4>1. at \in Stmts \cup Exprs \cup {"Function", "Type"}
        BY <2>5, <3>1 DEF Items
      <4> QED
        BY <2>1, <2>3, <3>1, <4>1 DEF WalkInv
    <3>2. CASE come = DOMAIN Follows
      BY <3>2, WalksAre
    <3> QED
      BY <1>12, <1>14, <3>1, <3>2
  <2>7. <<at, p[1]>> \in Aliases
    BY <2>1, <2>2, <2>5, CloneAlias
  <2> QED
    BY <1>8, <2>6, <2>7
<1>15. at' \in Items \cup Stmts \cup Exprs \cup Patterns \cup {"Type", "Use", "Bind"}
  BY <1>2 DEF Items
<1>16. root' \in Items
  BY <1>0 DEF WalkInv
<1>17. at' \in Patterns => "pattern" \in inside'
  BY <1>5
<1>18. Follows' = Follows
  OBVIOUS
<1> QED
  BY <1>3, <1>4, <1>10, <1>11, <1>13, <1>14, <1>15, <1>16, <1>17 DEF WalkInv

\* On every path of every tree.
LEMMA WalkInvAlways == WalkSpec => []WalkInv
<1>1. WalkInv /\ UNCHANGED walkVars => WalkInv'
  BY DEF WalkInv, walkVars
<1> QED
  BY <1>1, WalkInvInit, DescendInv, PTL DEF WalkSpec

\* In templates of functions and impls nothing is spliced into a place whose names have not been
\* renamed, and the other way round (buildQuotedAst).
THEOREM RenamedWhereSplicedAlways == WalkSpec => []RenamedWhereSpliced
<1>1. WalkInv => RenamedWhereSpliced
  BY KindsAre DEF WalkInv, RenamedWhereSpliced
<1> QED
  BY <1>1, WalkInvAlways, PTL

\* No type in a copy of a function has its aliases expanded but its type parameters left, and outside
\* patterns none has its type parameters substituted but its aliases left (clone.go, alias.go).
THEOREM SubstitutedWhereExpandedAlways == WalkSpec => []SubstitutedWhereExpanded
<1>1. WalkInv => SubstitutedWhereExpanded
  BY DEF WalkInv, SubstitutedWhereExpanded
<1> QED
  BY <1>1, WalkInvAlways, PTL

\* Wherever expansion finds something to evaluate, the loader has taken the prefixes of modules away.
THEOREM StrippedWhereEvaluatedAlways == WalkSpec => []StrippedWhereEvaluated
<1>1. WalkInv => StrippedWhereEvaluated
  BY DEF WalkInv, StrippedWhereEvaluated
<1> QED
  BY <1>1, WalkInvAlways, PTL
=============================================================================
