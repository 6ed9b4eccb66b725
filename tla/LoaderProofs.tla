---------------------------- MODULE LoaderProofs ----------------------------
(***************************************************************************)
(* The loader implements ImportClosure, for any directories, manifests,    *)
(* source texts and command lines: what it accepts is complete, and what   *)
(* it reports as a circular import is one.  The invariant is about the     *)
(* activations of loadModule (StackOK): each has dealt with the imports of *)
(* the files behind it, all but those still to come and the one that the   *)
(* activation above it is loading.                                         *)
(***************************************************************************)
EXTENDS Loader, SequenceTheorems, FiniteSetTheorems, TLAPS

IsSeq(s) == s \in Seq(Range(s))

\* Of an activation: where its scanned files lead, and where the imports still to come do.
Scanned(a) == a.files \ a.todo
Used(known, tx, a) == UNION {Targets(known, a.pkg, a.dir, tx[f]) : f \in Scanned(a)}
Pending(known, a) == {Resolve(known, a.pkg, a.dir, a.imports[i]).dir : i \in DOMAIN a.imports}

\* A record with the fields of an activation.
Shaped(a) ==
  [dir : {a.dir}, pkg : {a.pkg}, files : {a.files}, todo : {a.todo}, imports : {a.imports}, aliases : {a.aliases}]

ActOK(known, tx, said, a) ==
  /\ a \in Shaped(a)
  /\ a.todo \subseteq a.files /\ Scanned(a) \subseteq DOMAIN tx
  /\ IsSeq(a.imports)
  /\ Pending(known, a) \subseteq Used(known, tx, a)
  /\ NoDir \in Used(known, tx, a) => NoDir \in Pending(known, a) \/ said # {}

\* What the activation above the i-th one is loading.
Above(st, i) == IF i = 1 THEN {} ELSE {st[i - 1].dir}

StackOK(known, tx, said, done, st) ==
  /\ IsSeq(st)
  /\ \A i \in DOMAIN st : ActOK(known, tx, said, st[i]) /\ st[i].dir \notin done
  /\ \A i, j \in DOMAIN st : i # j => st[i].dir # st[j].dir
  /\ \A i \in DOMAIN st :
       /\ Above(st, i) \subseteq Used(known, tx, st[i])
       /\ Used(known, tx, st[i]) \subseteq Pending(known, st[i]) \cup done \cup {NoDir} \cup Above(st, i)

ModulesOK ==
  \A d \in DOMAIN modules :
    /\ modules[d].files \subseteq DOMAIN text
    /\ Uses(d) \subseteq DOMAIN modules \cup {NoDir}
    /\ NoDir \in Uses(d) => diags # {}

PackagesOK ==
  \A p \in DOMAIN packages :
    /\ packages[p] = [code |-> packages[p].code, deps |-> packages[p].deps, tests |-> packages[p].tests,
                      workspace |-> packages[p].workspace]
    /\ \A n \in DOMAIN packages[p].deps : packages[p].deps[n] \in DOMAIN packages

LoadInv ==
  /\ lstage \in {"entry", "packages", "modules", "done"}
  /\ lstage # "done" => outcome = "none"
  /\ lstage \in {"entry", "packages"} => DOMAIN modules = {}
  /\ lstage = "modules" => StackOK(packages, text, diags, DOMAIN modules, stack)
  /\ lstage = "modules" => stack # <<>> \/ DOMAIN modules # {}
  /\ \A f \in DOMAIN text : text[f] \in Texts
  /\ ModulesOK /\ PackagesOK
  /\ ImportsClosed /\ CycleReal

----------------------------------------------------------------------------
(* Sequences.                                                              *)

\* Putting an activation in front.
LEMMA Pushed ==
  ASSUME NEW x, NEW r, IsSeq(r)
  PROVE  /\ IsSeq(<<x>> \o r)
         /\ Len(r) \in Nat /\ DOMAIN r = 1 .. Len(r)
         /\ DOMAIN (<<x>> \o r) = 1 .. Len(r) + 1
         /\ (<<x>> \o r)[1] = x
         /\ \A i \in DOMAIN r : (<<x>> \o r)[i + 1] = r[i]
<1> DEFINE q == <<x>> \o r
           R == Range(r) \cup {x}
<1>1. r \in Seq(R) /\ <<x>> \in Seq(R) /\ Len(<<x>>) = 1 /\ <<x>>[1] = x
  BY SeqMonotonic DEF IsSeq
<1>2. Len(r) \in Nat /\ DOMAIN r = 1 .. Len(r)
  BY LenProperties DEF IsSeq
<1>3. /\ q \in Seq(R) /\ Len(q) = 1 + Len(r)
      /\ \A i \in 1 .. 1 + Len(r) : q[i] = IF i <= 1 THEN <<x>>[i] ELSE r[i - 1]
  BY <1>1, ConcatProperties, Zenon
<1>4. DOMAIN q = 1 .. Len(r) + 1
  BY <1>2, <1>3, LenProperties
<1>5. IsSeq(q)
  BY <1>3, SeqOfRange DEF IsSeq
<1>6. q[1] = x
  BY <1>1, <1>2, <1>3
<1>7. \A i \in DOMAIN r : q[i + 1] = r[i]
  BY <1>2, <1>3
<1> QED
  BY <1>2, <1>4, <1>5, <1>6, <1>7

\* Taking the first away.
LEMMA Popped ==
  ASSUME NEW s, IsSeq(s), s # <<>>
  PROVE  /\ IsSeq(Tail(s))
         /\ Len(s) \in Nat \ {0} /\ DOMAIN s = 1 .. Len(s)
         /\ DOMAIN Tail(s) = 1 .. Len(s) - 1 /\ Len(Tail(s)) = Len(s) - 1
         /\ Head(s) = s[1]
         /\ \A i \in 1 .. Len(s) - 1 : Tail(s)[i] = s[i + 1]
<1>1. s \in Seq(Range(s)) /\ Len(s) \in Nat \ {0} /\ DOMAIN s = 1 .. Len(s)
  BY LenProperties, EmptySeq DEF IsSeq
<1>2. Head(s) = s[1]
  BY <1>1
<1>3. /\ Tail(s) \in Seq(Range(s)) /\ Len(Tail(s)) = Len(s) - 1
      /\ \A i \in 1 .. Len(s) - 1 : Tail(s)[i] = s[i + 1]
  BY <1>1, HeadTailProperties
<1>4. DOMAIN Tail(s) = 1 .. Len(s) - 1
  BY <1>3, LenProperties
<1>5. IsSeq(Tail(s))
  BY <1>3, SeqOfRange DEF IsSeq
<1> QED
  BY <1>1, <1>2, <1>3, <1>4, <1>5

\* Changing the first: the rest stays where it is.
LEMMA FirstChanged ==
  ASSUME NEW s, IsSeq(s), s # <<>>, NEW a
  PROVE  /\ IsSeq(<<a>> \o Tail(s))
         /\ DOMAIN (<<a>> \o Tail(s)) = DOMAIN s
         /\ (<<a>> \o Tail(s))[1] = a
         /\ \A i \in DOMAIN s : i # 1 => (<<a>> \o Tail(s))[i] = s[i]
<1> DEFINE r == Tail(s)
           q == <<a>> \o r
<1>1. /\ IsSeq(r) /\ Len(s) \in Nat \ {0} /\ DOMAIN s = 1 .. Len(s)
      /\ DOMAIN r = 1 .. Len(s) - 1 /\ Len(r) = Len(s) - 1
      /\ \A i \in 1 .. Len(s) - 1 : r[i] = s[i + 1]
  BY Popped
<1>2. /\ IsSeq(q) /\ DOMAIN q = 1 .. Len(r) + 1 /\ q[1] = a
      /\ \A i \in DOMAIN r : q[i + 1] = r[i]
  BY <1>1, Pushed
<1>3. ASSUME NEW i \in DOMAIN s, i # 1
      PROVE  q[i] = s[i]
  <2>1. i - 1 \in DOMAIN r /\ (i - 1) + 1 = i
    BY <1>1, <1>3
  <2> QED
    BY <2>1, <1>1, <1>2
<1> QED
  BY <1>1, <1>2, <1>3

----------------------------------------------------------------------------
(* Activations.                                                            *)

\* More texts and diagnostics do not disturb an activation.
LEMMA TextsGrow ==
  ASSUME NEW known, NEW tx, NEW tx2, NEW said, NEW said2, NEW a,
         DOMAIN tx \subseteq DOMAIN tx2, \A f \in DOMAIN tx : tx2[f] = tx[f],
         said \subseteq said2, ActOK(known, tx, said, a)
  PROVE  Used(known, tx2, a) = Used(known, tx, a) /\ ActOK(known, tx2, said2, a)
<1>1. Scanned(a) \subseteq DOMAIN tx
  BY DEF ActOK
<1>2. Used(known, tx2, a) = Used(known, tx, a)
  BY <1>1 DEF Used
<1> QED
  BY <1>2 DEF ActOK

\* loadModule begins.
LEMMA Begun ==
  ASSUME NEW known, NEW tx, NEW said, NEW d, NEW p, NEW files
  PROVE  LET a == Activation(d, p, files)
         IN  /\ ActOK(known, tx, said, a)
             /\ Used(known, tx, a) = {} /\ Pending(known, a) = {} /\ a.dir = d
<1> DEFINE a == Activation(d, p, files)
<1>1. /\ a.dir = d /\ a.files = files /\ a.todo = files /\ a.imports = <<>>
      /\ a \in Shaped(a)
  BY DEF Activation, Shaped
<1>2. Scanned(a) = {} /\ DOMAIN a.imports = {} /\ IsSeq(a.imports)
  BY <1>1, EmptySeq, LenProperties DEF Scanned, IsSeq
<1>3. Used(known, tx, a) = {} /\ Pending(known, a) = {}
  BY <1>2 DEF Used, Pending
<1> QED
  BY <1>1, <1>2, <1>3 DEF ActOK

\* Scanning a file: the text is kept, diagnostics are noted, the activation has its imports.
Kept(tx, tx2, f, t) ==
  DOMAIN tx2 = DOMAIN tx \cup {f} /\ tx2[f] = t /\ \A g \in DOMAIN tx : tx2[g] = tx[g]
Noted(said, said2, t) == said \subseteq said2 /\ (t.malformed => said2 # {})
Opened(a, b, f, t) ==
  /\ b \in Shaped(b) /\ b.dir = a.dir /\ b.pkg = a.pkg /\ b.files = a.files
  /\ f \in a.todo /\ b.todo = a.todo \ {f} /\ a.imports = <<>> /\ b.imports = t.imports

\* A file is scanned: where it leads is used and pending.
LEMMA FileScanned ==
  ASSUME NEW known, NEW tx, NEW said, NEW a, NEW f, NEW t, NEW tx2, NEW said2, NEW b,
         ActOK(known, tx, said, a), IsSeq(t.imports),
         Kept(tx, tx2, f, t), Noted(said, said2, t), Opened(a, b, f, t)
  PROVE  /\ ActOK(known, tx2, said2, b) /\ b.dir = a.dir
         /\ Used(known, tx, a) \subseteq Used(known, tx2, b)
         /\ Used(known, tx2, b) \subseteq Used(known, tx, a) \cup Pending(known, b) \cup {NoDir}
<1> USE DEF Kept, Noted, Opened
<1>2. a.todo \subseteq a.files /\ Scanned(a) \subseteq DOMAIN tx /\ Scanned(b) = Scanned(a) \cup {f}
  BY DEF ActOK, Scanned
<1>3. Pending(known, a) = {}
  <2>1. DOMAIN a.imports = {}
    OBVIOUS
  <2> QED
    BY <2>1 DEF Pending
<1>4. Used(known, tx2, b) = Used(known, tx, a) \cup Targets(known, a.pkg, a.dir, t)
  BY <1>2 DEF Used
<1>5. Targets(known, a.pkg, a.dir, t) = Pending(known, b) \cup (IF t.malformed THEN {NoDir} ELSE {})
  BY DEF Targets, Pending
<1>6. NoDir \in Used(known, tx2, b) => NoDir \in Pending(known, b) \/ said2 # {}
  BY <1>3, <1>4, <1>5 DEF ActOK
<1> QED
  BY <1>2, <1>4, <1>5, <1>6 DEF ActOK

\* An import is dealt with.
Dealt(a, b) ==
  /\ b \in Shaped(b) /\ b.dir = a.dir /\ b.pkg = a.pkg /\ b.files = a.files /\ b.todo = a.todo
  /\ a.imports # <<>> /\ b.imports = Tail(a.imports)
Foremost(known, a) == Resolve(known, a.pkg, a.dir, Head(a.imports)).dir
Settled(known, said, said2, a) == said \subseteq said2 /\ (Foremost(known, a) = NoDir => said2 # {})
Behind(known, tx, said2, a, b) ==
  /\ ActOK(known, tx, said2, b) /\ b.dir = a.dir
  /\ Used(known, tx, b) = Used(known, tx, a) /\ Foremost(known, a) \in Used(known, tx, a)
  /\ Pending(known, a) = Pending(known, b) \cup {Foremost(known, a)}

\* It is pending no more.
LEMMA ImportDone ==
  ASSUME NEW known, NEW tx, NEW said, NEW a, NEW said2, NEW b,
         ActOK(known, tx, said, a), Dealt(a, b), Settled(known, said, said2, a)
  PROVE  Behind(known, tx, said2, a, b)
<1> DEFINE d == Foremost(known, a)
<1> USE DEF Dealt, Foremost, Settled
<1>2. Scanned(b) = Scanned(a) /\ Used(known, tx, b) = Used(known, tx, a)
  BY DEF Scanned, Used
<1> DEFINE s == a.imports
<1>3. /\ IsSeq(Tail(s)) /\ Len(s) \in Nat \ {0} /\ DOMAIN s = 1 .. Len(s)
      /\ DOMAIN Tail(s) = 1 .. Len(s) - 1 /\ Head(s) = s[1]
      /\ \A i \in 1 .. Len(s) - 1 : Tail(s)[i] = s[i + 1]
  BY Popped DEF ActOK
<1>4. Pending(known, a) = Pending(known, b) \cup {d}
  <2> DEFINE R(x) == Resolve(known, a.pkg, a.dir, x).dir
  <2>1. Pending(known, a) = {R(s[i]) : i \in DOMAIN s} /\ Pending(known, b) = {R(Tail(s)[i]) : i \in DOMAIN Tail(s)}
        /\ d = R(s[1])
    BY <1>3 DEF Pending
  <2>2. ASSUME NEW i \in DOMAIN s, i # 1
        PROVE  i - 1 \in DOMAIN Tail(s) /\ Tail(s)[i - 1] = s[i]
    BY <1>3, <2>2
  <2>3. ASSUME NEW i \in DOMAIN Tail(s)
        PROVE  i + 1 \in DOMAIN s /\ Tail(s)[i] = s[i + 1]
    BY <1>3
  <2>4. 1 \in DOMAIN s
    BY <1>3
  <2>5. \A i \in DOMAIN s : R(s[i]) \in Pending(known, b) \cup {d}
    BY <2>1, <2>2
  <2>6. \A i \in DOMAIN Tail(s) : R(Tail(s)[i]) \in Pending(known, a)
    BY <2>1, <2>3
  <2>7. d \in Pending(known, a)
    BY <2>1, <2>4
  <2> QED
    BY <2>1, <2>5, <2>6, <2>7, Zenon
<1>5. d \in Used(known, tx, a)
  BY <1>4 DEF ActOK
<1>6. NoDir \in Used(known, tx, b) => NoDir \in Pending(known, b) \/ said2 # {}
  BY <1>2, <1>4 DEF ActOK
<1> QED
  BY <1>2, <1>3, <1>4, <1>5, <1>6 DEF ActOK, Behind

----------------------------------------------------------------------------
(* The stack of activations.                                               *)

\* The topmost activation has nothing above it.
LEMMA Topmost ==
  ASSUME NEW known, NEW tx, NEW said, NEW done, NEW st, StackOK(known, tx, said, done, st), st # <<>>
  PROVE  /\ ActOK(known, tx, said, Head(st)) /\ Head(st).dir \notin done
         /\ Used(known, tx, Head(st)) \subseteq Pending(known, Head(st)) \cup done \cup {NoDir}
<1>1. IsSeq(st)
  BY DEF StackOK
<1>2. Len(st) \in Nat \ {0} /\ DOMAIN st = 1 .. Len(st) /\ Head(st) = st[1]
  BY <1>1, Popped
<1>3. 1 \in DOMAIN st /\ Above(st, 1) = {}
  BY <1>2 DEF Above
<1> QED
  BY <1>2, <1>3 DEF StackOK

\* The topmost activation gets on.
LEMMA Advanced ==
  ASSUME NEW known, NEW tx, NEW said, NEW done, NEW st, StackOK(known, tx, said, done, st), st # <<>>,
         NEW tx2, DOMAIN tx \subseteq DOMAIN tx2, \A f \in DOMAIN tx : tx2[f] = tx[f],
         NEW said2, said \subseteq said2,
         NEW b, ActOK(known, tx2, said2, b), b.dir = Head(st).dir,
         Used(known, tx2, b) \subseteq Pending(known, b) \cup done \cup {NoDir}
  PROVE  StackOK(known, tx2, said2, done, <<b>> \o Tail(st))
<1> DEFINE q == <<b>> \o Tail(st)
<1>1. IsSeq(st)
  BY DEF StackOK
<1>2. Len(st) \in Nat \ {0} /\ DOMAIN st = 1 .. Len(st) /\ Head(st) = st[1]
  BY <1>1, Popped
<1>3. IsSeq(q) /\ DOMAIN q = DOMAIN st /\ q[1] = b /\ \A i \in DOMAIN st : i # 1 => q[i] = st[i]
  BY <1>1, FirstChanged
<1> HIDE DEF q
<1>4. \A i \in DOMAIN st : q[i].dir = st[i].dir
  BY <1>2, <1>3
<1>5. \A i \in DOMAIN st : i # 1 => i - 1 \in DOMAIN st
  BY <1>2
<1>6. \A i \in DOMAIN st : Above(q, i) = Above(st, i)
  BY <1>4, <1>5 DEF Above
<1>7. \A i \in DOMAIN st : ActOK(known, tx, said, st[i]) /\ st[i].dir \notin done
  BY DEF StackOK
<1>8. ASSUME NEW i \in DOMAIN st
      PROVE  /\ ActOK(known, tx2, said2, q[i]) /\ q[i].dir \notin done
             /\ Above(q, i) \subseteq Used(known, tx2, q[i])
             /\ Used(known, tx2, q[i]) \subseteq Pending(known, q[i]) \cup done \cup {NoDir} \cup Above(q, i)
  <2>1. CASE i = 1
    <3>1. Above(q, i) = {}
      BY <2>1 DEF Above
    <3> QED
      BY <2>1, <3>1, <1>3, <1>4, <1>7
  <2>2. CASE i # 1
    <3>1. q[i] = st[i]
      BY <2>2, <1>3
    <3>2. Used(known, tx2, st[i]) = Used(known, tx, st[i]) /\ ActOK(known, tx2, said2, st[i])
      BY <1>7, TextsGrow
    <3> QED
      BY <3>1, <3>2, <1>6, <1>7 DEF StackOK
  <2> QED
    BY <2>1, <2>2
<1>9. \A i, j \in DOMAIN st : i # j => q[i].dir # q[j].dir
  BY <1>4 DEF StackOK
<1> QED
  BY <1>3, <1>8, <1>9 DEF StackOK, q

\* The import of the topmost activation, which becomes b, leads to a module that is not there.
Arrived(known, tx, said, done, st, b, d) ==
  /\ ActOK(known, tx, said, b) /\ b.dir = Head(st).dir
  /\ d \in Used(known, tx, b) /\ d \notin done /\ \A i \in DOMAIN st : st[i].dir # d
  /\ Used(known, tx, b) \subseteq Pending(known, b) \cup done \cup {NoDir} \cup {d}

\* It is loaded by a new activation.
LEMMA Nested ==
  ASSUME NEW known, NEW tx, NEW said, NEW done, NEW st, NEW b, NEW d, NEW p, NEW files,
         StackOK(known, tx, said, done, st), st # <<>>, Arrived(known, tx, said, done, st, b, d)
  PROVE  StackOK(known, tx, said, done, <<Activation(d, p, files)>> \o (<<b>> \o Tail(st)))
<1> DEFINE r == <<b>> \o Tail(st)
           a == Activation(d, p, files)
           q == <<a>> \o r
<1> USE DEF Arrived
<1>1. IsSeq(st)
  BY DEF StackOK
<1>2. Len(st) \in Nat \ {0} /\ DOMAIN st = 1 .. Len(st) /\ Head(st) = st[1]
  BY <1>1, Popped
<1>3. IsSeq(r) /\ DOMAIN r = DOMAIN st /\ r[1] = b /\ \A i \in DOMAIN st : i # 1 => r[i] = st[i]
  BY <1>1, FirstChanged
<1>4. /\ ActOK(known, tx, said, a) /\ Used(known, tx, a) = {} /\ Pending(known, a) = {} /\ a.dir = d
  BY Begun
<1> HIDE DEF r, a
<1>5. /\ IsSeq(q) /\ Len(r) \in Nat /\ DOMAIN r = 1 .. Len(r) /\ DOMAIN q = 1 .. Len(r) + 1 /\ q[1] = a
      /\ \A i \in DOMAIN r : q[i + 1] = r[i]
  BY <1>3, Pushed
<1> HIDE DEF q
<1>6. \A i \in DOMAIN q : i # 1 => i - 1 \in DOMAIN r /\ q[i] = r[i - 1] /\ Above(q, i) = {q[i - 1].dir}
  <2>1. ASSUME NEW i \in DOMAIN q, i # 1
        PROVE  i - 1 \in DOMAIN r /\ (i - 1) + 1 = i
    BY <2>1, <1>5
  <2> QED
    BY <2>1, <1>5 DEF Above
<1>7. \A i \in DOMAIN st : ActOK(known, tx, said, r[i]) /\ r[i].dir = st[i].dir /\ r[i].dir \notin done
  BY <1>2, <1>3 DEF StackOK
<1>8. ASSUME NEW i \in DOMAIN q
      PROVE  /\ ActOK(known, tx, said, q[i]) /\ q[i].dir \notin done
             /\ Above(q, i) \subseteq Used(known, tx, q[i])
             /\ Used(known, tx, q[i]) \subseteq Pending(known, q[i]) \cup done \cup {NoDir} \cup Above(q, i)
  <2>1. CASE i = 1
    <3>1. Above(q, i) = {}
      BY <2>1 DEF Above
    <3> QED
      BY <2>1, <3>1, <1>4, <1>5
  <2>2. CASE i = 2
    <3>1. q[i] = b /\ Above(q, i) = {d} /\ 1 \in DOMAIN st
      <4>1. i - 1 = 1 /\ i # 1 /\ 1 \in DOMAIN st
        BY <2>2, <1>2
      <4>2. q[i] = r[i - 1] /\ Above(q, i) = {q[i - 1].dir}
        BY <4>1, <1>6
      <4> QED
        BY <4>1, <4>2, <1>3, <1>4, <1>5
    <3>2. b.dir \notin done
      BY <3>1, <1>3, <1>7
    <3> QED
      BY <3>1, <3>2
  <2>3. CASE i # 1 /\ i # 2
    <3>1. i - 1 \in DOMAIN st /\ i - 1 # 1 /\ q[i] = r[i - 1] /\ r[i - 1] = st[i - 1]
      BY <2>3, <1>3, <1>5, <1>6
    <3>2. (i - 1) - 1 \in DOMAIN st /\ q[i - 1].dir = st[(i - 1) - 1].dir
      BY <2>3, <3>1, <1>2, <1>3, <1>5, <1>6, <1>7
    <3>3. Above(q, i) = Above(st, i - 1)
      BY <2>3, <3>1, <3>2, <1>6 DEF Above
    <3> QED
      BY <3>1, <3>3, <1>7 DEF StackOK
  <2> QED
    BY <2>1, <2>2, <2>3
<1>9. ASSUME NEW i \in DOMAIN q, NEW j \in DOMAIN q, i # j
      PROVE  q[i].dir # q[j].dir
  <2>1. \A k \in DOMAIN q : k # 1 => q[k].dir = st[k - 1].dir /\ k - 1 \in DOMAIN st /\ k - 1 \in Int
    BY <1>2, <1>3, <1>6, <1>7
  <2>2. \A k \in DOMAIN q : k # 1 => q[k].dir # d
    BY <2>1
  <2>3. CASE i = 1 \/ j = 1
    BY <2>2, <2>3, <1>4, <1>5, <1>9
  <2>4. CASE i # 1 /\ j # 1
    <3>1. i - 1 # j - 1
      BY <1>5, <1>9
    <3> QED
      BY <2>1, <2>4, <3>1 DEF StackOK
  <2> QED
    BY <2>3, <2>4
<1> QED
  BY <1>5, <1>8, <1>9 DEF StackOK, q, r, a

\* The topmost activation is finished; what it was loaded for is there.
LEMMA Finished ==
  ASSUME NEW known, NEW tx, NEW said, NEW done, NEW st, StackOK(known, tx, said, done, st), st # <<>>
  PROVE  StackOK(known, tx, said, done \cup {Head(st).dir}, Tail(st))
<1> DEFINE r == Tail(st)
           done2 == done \cup {Head(st).dir}
<1>1. IsSeq(st)
  BY DEF StackOK
<1>2. /\ IsSeq(r) /\ Len(st) \in Nat \ {0} /\ DOMAIN st = 1 .. Len(st)
      /\ DOMAIN r = 1 .. Len(st) - 1 /\ Head(st) = st[1]
      /\ \A i \in 1 .. Len(st) - 1 : r[i] = st[i + 1]
  BY <1>1, Popped
<1> HIDE DEF r
<1>3. \A i \in DOMAIN r : i + 1 \in DOMAIN st /\ r[i] = st[i + 1] /\ i + 1 # 1 /\ Above(st, i + 1) = {st[i].dir}
  BY <1>2 DEF Above
<1>4. ASSUME NEW i \in DOMAIN r
      PROVE  /\ ActOK(known, tx, said, r[i]) /\ r[i].dir \notin done2
             /\ Above(r, i) \subseteq Used(known, tx, r[i])
             /\ Used(known, tx, r[i]) \subseteq Pending(known, r[i]) \cup done2 \cup {NoDir} \cup Above(r, i)
  <2>1. Above(r, i) \subseteq Above(st, i + 1) /\ Above(st, i + 1) \subseteq done2 \cup Above(r, i)
    <3>1. CASE i = 1
      BY <3>1, <1>2, <1>3 DEF Above
    <3>2. CASE i # 1
      <4>1. i - 1 \in DOMAIN r /\ (i - 1) + 1 = i
        BY <3>2, <1>2
      <4>2. Above(r, i) = {st[i].dir}
        BY <3>2, <4>1, <1>3 DEF Above
      <4> QED
        BY <4>2, <1>3
    <3> QED
      BY <3>1, <3>2
  <2>2. 1 \in DOMAIN st /\ r[i].dir # st[1].dir
    BY <1>2, <1>3 DEF StackOK
  <2> QED
    BY <2>1, <2>2, <1>2, <1>3 DEF StackOK
<1>5. \A i, j \in DOMAIN r : i # j => r[i].dir # r[j].dir
  <2>1. \A i, j \in DOMAIN r : i # j => i + 1 # j + 1
    BY <1>2
  <2> QED
    BY <2>1, <1>3 DEF StackOK
<1> QED
  BY <1>2, <1>4, <1>5 DEF StackOK, r

----------------------------------------------------------------------------
(* Loading packages.                                                       *)

\* The imports of a finished module lead where they led, whatever else is read.
LEMMA UsesStay ==
  ASSUME ModulesOK, packages' = packages,
         DOMAIN text \subseteq DOMAIN text', \A f \in DOMAIN text : text'[f] = text[f],
         NEW d \in DOMAIN modules, d \in DOMAIN modules', modules'[d] = modules[d]
  PROVE  Uses(d)' = Uses(d)
<1>1. modules[d].files \subseteq DOMAIN text
  BY DEF ModulesOK
<1> QED
  BY <1>1 DEF Uses

\* A package that is entered has no dependencies yet.
LEMMA PackageEntered ==
  ASSUME PackagesOK, NEW root, EnterPackage(root)
  PROVE  PackagesOK' /\ diags \subseteq diags'
<1>1. /\ DOMAIN packages' = DOMAIN packages \cup {root}
      /\ \A p \in DOMAIN packages' : packages'[p] = IF p = root THEN Package(root) ELSE packages[p]
  BY DEF EnterPackage
<1>2. /\ Package(root) = [code |-> Package(root).code, deps |-> Package(root).deps,
                          tests |-> Package(root).tests, workspace |-> Package(root).workspace]
      /\ DOMAIN Package(root).deps = {}
  BY DEF Package
<1> QED
  BY <1>1, <1>2 DEF PackagesOK, EnterPackage

\* A round of the loop over the dependencies: they lead to packages that are known.
LEMMA DepLoaded ==
  ASSUME PackagesOK, LoadDep
  PROVE  PackagesOK'
<1> DEFINE top == Head(pstack)
           spec == Head(top.todo)
           t == DepTarget(top.root, spec)
<1>1. CASE UNCHANGED packages
  BY <1>1 DEF PackagesOK
<1>2. CASE EnterPackage(t.root)
  BY <1>2, PackageEntered
<1>3. CASE /\ t.root \in DOMAIN packages
           /\ packages' = [packages EXCEPT ![top.root].deps =
                [n \in DOMAIN @ \cup {spec.name} |-> IF n = spec.name THEN t.root ELSE @[n]]]
  <2>1. DOMAIN packages' = DOMAIN packages
    BY <1>3
  <2>2. ASSUME NEW p \in DOMAIN packages
        PROVE  /\ packages'[p] = [code |-> packages'[p].code, deps |-> packages'[p].deps,
                                  tests |-> packages'[p].tests, workspace |-> packages'[p].workspace]
               /\ \A n \in DOMAIN packages'[p].deps : packages'[p].deps[n] \in DOMAIN packages
    <3>1. CASE p # top.root
      BY <3>1, <1>3 DEF PackagesOK
    <3>2. CASE p = top.root
      <4> DEFINE old == packages[p]
                 new == [n \in DOMAIN old.deps \cup {spec.name} |-> IF n = spec.name THEN t.root ELSE old.deps[n]]
      <4>1. packages'[p] = [old EXCEPT !.deps = new]
        BY <3>2, <1>3
      <4>2. old = [code |-> old.code, deps |-> old.deps, tests |-> old.tests, workspace |-> old.workspace]
            /\ \A n \in DOMAIN old.deps : old.deps[n] \in DOMAIN packages
        BY DEF PackagesOK
      <4>3. \A n \in DOMAIN new : new[n] \in DOMAIN packages
        BY <4>2, <1>3
      <4> HIDE DEF new, old
      <4>4. packages'[p] = [code |-> old.code, deps |-> new, tests |-> old.tests, workspace |-> old.workspace]
        BY <4>1, <4>2
      <4> QED
        BY <4>3, <4>4
    <3> QED
      BY <3>1, <3>2
  <2> QED
    BY <2>1, <2>2 DEF PackagesOK
<1> QED
  BY <1>1, <1>2, <1>3, Zenon DEF LoadDep

----------------------------------------------------------------------------
(* Loading modules.                                                        *)

\* The invariant while no module is finished and none is being loaded.
LEMMA BeforeModules ==
  ASSUME LoadInv, lstage \in {"entry", "packages"}, UNCHANGED <<text, modules>>, PackagesOK',
         \/ lstage' \in {"entry", "packages"} /\ outcome' = "none"
         \/ lstage' = "done" /\ outcome' \in {"fatal", "diag"}
  PROVE  LoadInv'
<1>1. DOMAIN modules' = {} /\ DOMAIN modules = {}
  BY DEF LoadInv
<1>2. ModulesOK'
  BY <1>1 DEF ModulesOK
<1>3. ImportsClosed' /\ CycleReal'
  BY DEF ImportsClosed, CycleReal
<1> QED
  BY <1>1, <1>2, <1>3 DEF LoadInv

\* The invariant when the loader returns without a program.
LEMMA Stopped ==
  ASSUME LoadInv, NEW result, Stop(result), result \in {"fatal", "diag"}
  PROVE  LoadInv'
<1>1. PackagesOK' /\ (\A f \in DOMAIN text : text[f] \in Texts)'
  BY DEF LoadInv, PackagesOK, Stop
<1>2. ModulesOK'
  BY DEF LoadInv, ModulesOK, Uses, Stop
<1>3. ImportsClosed' /\ CycleReal' /\ lstage' = "done"
  BY DEF ImportsClosed, CycleReal, Stop
<1> QED
  BY <1>1, <1>2, <1>3 DEF LoadInv

\* The texts of source files are sequences of imports.
LEMMA TextsAreSeqs ==
  ASSUME NEW t \in Texts
  PROVE  IsSeq(t.imports)
BY LoaderAssumption DEF LoaderAssumption, IsSeq

\* loadModule on the entry.
LEMMA EnterEntryStep ==
  ASSUME LoadInv, EnterEntry
  PROVE  LoadInv'
<1>1. CASE \E result \in {"fatal", "diag"} : Stop(result)
  BY <1>1, Stopped
<1>2. CASE /\ \E files : stack' = <<Activation(EntryModule, EntryRoot, files)>>
           /\ lstage' = "modules"
           /\ UNCHANGED <<worldVars, text, packages, pstack, modules, diags, outcome>>
  <2> PICK files : stack' = <<Activation(EntryModule, EntryRoot, files)>>
    BY <1>2
  <2> DEFINE a == Activation(EntryModule, EntryRoot, files)
  <2>1. DOMAIN modules = {} /\ outcome = "none"
    BY DEF LoadInv, EnterEntry
  <2>2. ActOK(packages, text, diags, a) /\ Used(packages, text, a) = {} /\ Pending(packages, a) = {}
    BY Begun
  <2> HIDE DEF a
  <2>3. IsSeq(<<a>>) /\ DOMAIN <<a>> = {1} /\ <<a>>[1] = a
    <3>1. <<a>> \in Seq({a}) /\ Len(<<a>>) = 1 /\ <<a>>[1] = a
      OBVIOUS
    <3>2. DOMAIN <<a>> = 1 .. 1
      BY <3>1, LenProperties
    <3>3. IsSeq(<<a>>)
      BY <3>1, SeqOfRange DEF IsSeq
    <3> QED
      BY <3>1, <3>2, <3>3
  <2>4. StackOK(packages, text, diags, {}, <<a>>)
    BY <2>2, <2>3 DEF StackOK, Above
  <2>5. StackOK(packages, text, diags, DOMAIN modules, stack)'
    BY <1>2, <2>1, <2>4 DEF a
  <2>6. stack' # <<>>
    BY <2>3 DEF a
  <2>7. ModulesOK' /\ PackagesOK' /\ (\A f \in DOMAIN text : text[f] \in Texts)'
    BY <1>2, <2>1 DEF LoadInv, ModulesOK, PackagesOK
  <2>8. ImportsClosed' /\ CycleReal'
    BY <1>2, <2>1 DEF ImportsClosed, CycleReal
  <2> QED
    BY <1>2, <2>1, <2>5, <2>6, <2>7, <2>8 DEF LoadInv
<1> QED
  BY <1>1, <1>2, Zenon DEF EnterEntry

\* scanImports on a file.
LEMMA ScanFileStep ==
  ASSUME LoadInv, ScanFile
  PROVE  LoadInv'
<1> DEFINE f == NextFile
<1>1. PICK t \in IF f \in DOMAIN text THEN {text[f]} ELSE Texts :
        /\ text' = [g \in DOMAIN text \cup {f} |-> IF g = f THEN t ELSE text[g]]
        /\ diags' = IF t.malformed THEN diags \cup {"import"} ELSE diags
        /\ stack' = <<[Top EXCEPT !.todo = @ \ {f}, !.imports = t.imports]>> \o Tail(stack)
  BY Zenon DEF ScanFile
<1>2. f \in Top.todo /\ Top.imports = <<>> /\ stack # <<>> /\ lstage = "modules" /\ lstage' = "modules"
      /\ UNCHANGED <<packages, modules, outcome>>
  BY DEF ScanFile, NextFile
<1> HIDE DEF f
<1>3. t \in Texts /\ IsSeq(t.imports)
  BY TextsAreSeqs DEF LoadInv
<1>4. /\ DOMAIN text' = DOMAIN text \cup {f} /\ text'[f] = t
      /\ \A g \in DOMAIN text : text'[g] = text[g]
  BY <1>1
<1>5. diags \subseteq diags' /\ (t.malformed => diags' # {})
  BY <1>1
<1>6. StackOK(packages, text, diags, DOMAIN modules, stack)
  BY <1>2 DEF LoadInv
<1>7. /\ ActOK(packages, text, diags, Top)
      /\ Used(packages, text, Top) \subseteq Pending(packages, Top) \cup DOMAIN modules \cup {NoDir}
  BY <1>2, <1>6, Topmost DEF Top
<1> DEFINE b == [Top EXCEPT !.todo = @ \ {f}, !.imports = t.imports]
<1>8. /\ ActOK(packages, text', diags', b) /\ b.dir = Top.dir
      /\ Used(packages, text', b) \subseteq Used(packages, text, Top) \cup Pending(packages, b) \cup {NoDir}
  <2>1. Opened(Top, b, f, t)
    BY <1>2, <1>7 DEF Opened, ActOK, Shaped
  <2>2. Kept(text, text', f, t) /\ Noted(diags, diags', t)
    BY <1>4, <1>5 DEF Kept, Noted
  <2> HIDE DEF b
  <2>3. b.dir = Top.dir
    BY <2>1 DEF Opened
  <2> QED
    BY <1>3, <1>7, <2>1, <2>2, <2>3, FileScanned
<1>9. Pending(packages, Top) = {}
  <2>1. DOMAIN Top.imports = {}
    BY <1>2
  <2> QED
    BY <2>1 DEF Pending
<1> HIDE DEF b
<1>10. StackOK(packages, text', diags', DOMAIN modules, <<b>> \o Tail(stack))
  BY <1>2, <1>4, <1>5, <1>6, <1>7, <1>8, <1>9, Advanced DEF Top
<1>11. StackOK(packages, text, diags, DOMAIN modules, stack)'
  BY <1>1, <1>2, <1>10 DEF b
<1>12. stack' # <<>>
  <2>1. IsSeq(stack) /\ 1 \in DOMAIN stack
    BY <1>2, <1>6, Popped DEF StackOK
  <2>2. DOMAIN stack' = DOMAIN stack
    BY <1>1, <1>2, <2>1, FirstChanged
  <2> QED
    BY <2>1, <2>2
<1>13. ModulesOK'
  <2>1. \A d \in DOMAIN modules : Uses(d)' = Uses(d)
    BY <1>2, <1>4, UsesStay DEF LoadInv
  <2> QED
    BY <1>2, <1>4, <1>5, <2>1 DEF LoadInv, ModulesOK
<1>14. PackagesOK' /\ (\A g \in DOMAIN text : text[g] \in Texts)'
  BY <1>2, <1>3, <1>4 DEF LoadInv, PackagesOK
<1>15. ImportsClosed' /\ CycleReal'
  BY <1>2 DEF LoadInv, ImportsClosed, CycleReal
<1> QED
  BY <1>2, <1>11, <1>12, <1>13, <1>14, <1>15 DEF LoadInv

\* One import of the topmost activation.
LEMMA ImportStep ==
  ASSUME LoadInv, Import
  PROVE  LoadInv'
<1> DEFINE imp == Head(Top.imports)
           b == [Top EXCEPT !.imports = Tail(@), !.aliases = @ \cup {Alias(imp)}]
           t == Resolve(packages, Top.pkg, Top.dir, imp)
           d == t.dir
           D == DOMAIN modules
<1>1. /\ stack # <<>> /\ lstage = "modules" /\ Top.imports # <<>> /\ outcome = "none"
      /\ UNCHANGED <<text, packages, modules>> /\ diags \subseteq diags'
  BY DEF Import, LoadInv
<1>2. StackOK(packages, text, diags, D, stack)
  BY <1>1 DEF LoadInv
<1>3. /\ ActOK(packages, text, diags, Top) /\ Used(packages, text, Top) \subseteq Pending(packages, Top) \cup D \cup {NoDir}
  BY <1>1, <1>2, Topmost DEF Top
<1>4. Dealt(Top, b) /\ d = Foremost(packages, Top) /\ Past(imp) = <<b>> \o Tail(stack)
  BY <1>1, <1>3 DEF Dealt, ActOK, Shaped, Foremost, Past
<1>5. /\ IsSeq(stack) /\ DOMAIN stack = 1 .. Len(stack) /\ Len(stack) \in Nat \ {0}
      /\ DOMAIN Past(imp) = DOMAIN stack
  BY <1>1, <1>2, <1>4, Popped, FirstChanged DEF StackOK
<1>6. Visiting = {stack[i].dir : i \in DOMAIN stack}
  BY DEF Visiting
<1> HIDE DEF b, d
<1>7. b.dir = Top.dir
  BY <1>4 DEF Dealt
<1>8. ModulesOK' /\ PackagesOK' /\ (\A g \in DOMAIN text : text[g] \in Texts)'
  <2>1. \A e \in D : Uses(e)' = Uses(e)
    BY <1>1, UsesStay DEF LoadInv
  <2> QED
    BY <1>1, <2>1 DEF LoadInv, ModulesOK, PackagesOK
\* It leads nowhere, or to a module that is finished.
<1>9. CASE /\ d = NoDir \/ d \in D
           /\ d = NoDir => diags' # {}
           /\ stack' = Past(imp) /\ UNCHANGED <<lstage, outcome>>
  <2>1. /\ ActOK(packages, text, diags', b) /\ Used(packages, text, b) = Used(packages, text, Top)
        /\ Pending(packages, Top) = Pending(packages, b) \cup {d}
    <3>1. Settled(packages, diags, diags', Top)
      BY <1>1, <1>4, <1>9 DEF Settled
    <3>2. ActOK(packages, text, diags, Top) /\ Dealt(Top, b)
      BY <1>3, <1>4
    <3>3. Behind(packages, text, diags', Top, b)
      BY <3>1, <3>2, ImportDone
    <3> QED
      BY <1>4, <3>3 DEF Behind
  <2>2. Used(packages, text, b) \subseteq Pending(packages, b) \cup D \cup {NoDir}
    BY <1>3, <1>9, <2>1
  <2>3. StackOK(packages, text, diags', D, <<b>> \o Tail(stack))
    BY <1>1, <1>2, <1>7, <2>1, <2>2, Advanced DEF Top
  <2>4. StackOK(packages, text, diags, DOMAIN modules, stack)'
    BY <1>1, <1>4, <1>9, <2>3
  <2>5. stack' # <<>>
    BY <1>5, <1>9
  <2> QED
    BY <1>1, <1>8, <1>9, <2>4, <2>5 DEF LoadInv, ImportsClosed, CycleReal
\* It is being loaded: a cycle.
<1>10. CASE /\ d # NoDir /\ d \in Visiting
            /\ outcome' = "cycle" /\ lstage' = "done" /\ stack' = <<Activation(d, t.pkg, {})>> \o stack
  <2>1. d \in Used(packages, text, Top)
    <3>1. Settled(packages, diags, diags, Top)
      BY <1>4, <1>10 DEF Settled
    <3>2. ActOK(packages, text, diags, Top) /\ Dealt(Top, b)
      BY <1>3, <1>4
    <3>3. Behind(packages, text, diags, Top, b)
      BY <3>1, <3>2, ImportDone
    <3> QED
      BY <1>4, <3>3 DEF Behind
  <2>2. /\ DOMAIN stack' = 1 .. Len(stack) + 1 /\ stack'[1].dir = d
        /\ \A i \in DOMAIN stack : stack'[i + 1] = stack[i]
        /\ IsSeq(stack')
    <3> DEFINE a == Activation(d, t.pkg, {})
    <3>1. a.dir = d
      BY DEF Activation
    <3> HIDE DEF a
    <3>2. stack' = <<a>> \o stack
      BY <1>10 DEF a
    <3> QED
      BY <3>1, <3>2, <1>5, Pushed
  <2>3. Len(stack') = Len(stack) + 1
    BY <1>5, <2>2, LenProperties DEF IsSeq
  <2>4. \E i \in 2 .. Len(stack') : stack'[i].dir = stack'[1].dir
    <3>1. PICK i \in DOMAIN stack : stack[i].dir = d
      BY <1>6, <1>10
    <3>2. i + 1 \in 2 .. Len(stack') /\ stack'[i + 1].dir = stack'[1].dir
      BY <3>1, <1>5, <2>2, <2>3
    <3> QED
      BY <3>2
  <2>5. ASSUME NEW i \in 1 .. Len(stack') - 1
        PROVE  stack'[i].dir \in Used(packages, text, stack'[i + 1])
    <3>1. i \in DOMAIN stack /\ stack'[i + 1] = stack[i]
      BY <1>5, <2>2, <2>3
    <3>2. CASE i = 1
      BY <3>1, <3>2, <1>5, <2>1, <2>2, Popped DEF Top
    <3>3. CASE i # 1
      <4>1. i - 1 \in DOMAIN stack /\ (i - 1) + 1 = i /\ Above(stack, i) = {stack[i - 1].dir}
        BY <3>1, <3>3, <1>5 DEF Above
      <4>2. stack'[i] = stack[i - 1]
        BY <4>1, <2>2
      <4> QED
        BY <3>1, <4>1, <4>2, <1>2 DEF StackOK
    <3> QED
      BY <3>2, <3>3
  <2>6. \A i \in 1 .. Len(stack') - 1 : Scanned(stack'[i + 1]) \subseteq stack'[i + 1].files \cap DOMAIN text
    <3>1. \A i \in 1 .. Len(stack') - 1 : i \in DOMAIN stack /\ stack'[i + 1] = stack[i]
      BY <1>5, <2>2, <2>3
    <3> QED
      BY <3>1, <1>2 DEF StackOK, ActOK, Scanned
  <2>7. CycleReal'
    <3>1. \A i \in 1 .. Len(stack') - 1 : \E f \in stack'[i + 1].files \cap DOMAIN text :
            stack'[i].dir \in Targets(packages, stack'[i + 1].pkg, stack'[i + 1].dir, text[f])
      BY <2>5, <2>6 DEF Used
    <3> QED
      BY <1>1, <2>4, <3>1 DEF CycleReal
  <2>8. ImportsClosed'
    BY <1>10 DEF ImportsClosed
  <2> QED
    BY <1>8, <1>10, <2>7, <2>8 DEF LoadInv
\* There is nothing to load there.
<1>11. CASE outcome' = "fatal" /\ lstage' = "done"
  <2>1. ImportsClosed' /\ CycleReal'
    BY <1>11 DEF ImportsClosed, CycleReal
  <2> QED
    BY <1>8, <1>11, <2>1 DEF LoadInv
\* It is loaded now.
<1>12. CASE /\ d # NoDir /\ d \notin Visiting \cup D
            /\ \E files : stack' = <<Activation(d, t.pkg, files)>> \o Past(imp)
            /\ UNCHANGED <<lstage, outcome, diags>>
  <2>1. /\ ActOK(packages, text, diags, b) /\ Used(packages, text, b) = Used(packages, text, Top)
        /\ Pending(packages, Top) = Pending(packages, b) \cup {d} /\ d \in Used(packages, text, b)
    <3>1. Settled(packages, diags, diags, Top)
      BY <1>4, <1>12 DEF Settled
    <3>2. ActOK(packages, text, diags, Top) /\ Dealt(Top, b)
      BY <1>3, <1>4
    <3>3. Behind(packages, text, diags, Top, b)
      BY <3>1, <3>2, ImportDone
    <3> QED
      BY <1>4, <3>3 DEF Behind
  <2>2. Used(packages, text, b) \subseteq Pending(packages, b) \cup D \cup {NoDir} \cup {d}
    BY <1>3, <2>1
  <2>3. d \notin D /\ \A i \in DOMAIN stack : stack[i].dir # d
    BY <1>6, <1>12
  <2>4. PICK files : stack' = <<Activation(d, t.pkg, files)>> \o Past(imp)
    BY <1>12
  <2>5. StackOK(packages, text, diags, D, stack')
    <3>1. Arrived(packages, text, diags, D, stack, b, d)
      BY <1>7, <2>1, <2>2, <2>3 DEF Arrived, Top
    <3>2. stack' = <<Activation(d, t.pkg, files)>> \o (<<b>> \o Tail(stack))
      BY <1>4, <2>4
    <3>3. StackOK(packages, text, diags, D, <<Activation(d, t.pkg, files)>> \o (<<b>> \o Tail(stack)))
      BY <1>1, <1>2, <3>1, Nested
    <3> QED
      BY <3>2, <3>3
  <2>6. stack' # <<>>
    BY <1>4, <1>5, <2>4, FirstChanged, Pushed
  <2> QED
    BY <1>1, <1>8, <1>12, <2>5, <2>6 DEF LoadInv, ImportsClosed, CycleReal
<1>13. \/ d = NoDir /\ diags' = diags \cup {"import"} /\ stack' = Past(imp) /\ UNCHANGED <<lstage, outcome>>
       \/ /\ d # NoDir /\ d \in Visiting
          /\ outcome' = "cycle" /\ lstage' = "done" /\ stack' = <<Activation(d, t.pkg, {})>> \o stack
       \/ d # NoDir /\ d \in D /\ stack' = Past(imp) /\ UNCHANGED <<diags, lstage, outcome>>
       \/ outcome' = "fatal" /\ lstage' = "done"
       \/ /\ d \in Dirs \ (Visiting \cup D)
          /\ stack' = <<Activation(d, t.pkg, Listed(d, FALSE))>> \o Past(imp)
          /\ UNCHANGED <<diags, lstage, outcome>>
  BY Zenon DEF Import, Imported, d
<1>14. d = NoDir => d \notin Dirs
  BY LoaderAssumption DEF LoaderAssumption, NoDir
<1>15. CASE d = NoDir /\ diags' = diags \cup {"import"} /\ stack' = Past(imp) /\ UNCHANGED <<lstage, outcome>>
  <2>1. diags' # {}
    BY <1>15
  <2> QED
    BY <2>1, <1>9, <1>15
<1>16. CASE /\ d # NoDir /\ d \in Visiting
            /\ outcome' = "cycle" /\ lstage' = "done" /\ stack' = <<Activation(d, t.pkg, {})>> \o stack
  BY <1>10, <1>16
<1>17. CASE d # NoDir /\ d \in D /\ stack' = Past(imp) /\ UNCHANGED <<diags, lstage, outcome>>
  BY <1>8, <1>9, <1>17
<1>18. CASE /\ d \in Dirs \ (Visiting \cup D)
            /\ stack' = <<Activation(d, t.pkg, Listed(d, FALSE))>> \o Past(imp)
            /\ UNCHANGED <<diags, lstage, outcome>>
  BY <1>12, <1>14, <1>18
<1> QED
  BY <1>11, <1>13, <1>15, <1>16, <1>17, <1>18

\* loadModule returns: the module is there, with imports that are there or lead nowhere.
LEMMA ModuleFinished ==
  ASSUME LoadInv, FinishModule, NEW d, d = Top.dir
  PROVE  /\ d \notin DOMAIN modules /\ DOMAIN modules' = DOMAIN modules \cup {d}
         /\ \A e \in DOMAIN modules : modules'[e] = modules[e] /\ Uses(e)' = Uses(e)
         /\ modules'[d].files \subseteq DOMAIN text
         /\ Uses(d)' \subseteq DOMAIN modules \cup {NoDir}
         /\ NoDir \in Uses(d)' => diags # {}
         /\ StackOK(packages, text, diags, DOMAIN modules, stack)'
<1> DEFINE D == DOMAIN modules
<1>1. /\ stack # <<>> /\ lstage = "modules" /\ Top.imports = <<>> /\ Top.todo = {}
      /\ stack' = Tail(stack) /\ UNCHANGED <<text, packages, diags>>
  BY DEF FinishModule
<1>2. StackOK(packages, text, diags, D, stack)
  BY <1>1 DEF LoadInv
<1>3. /\ ActOK(packages, text, diags, Top) /\ d \notin D
      /\ Used(packages, text, Top) \subseteq Pending(packages, Top) \cup D \cup {NoDir}
  BY <1>1, <1>2, Topmost DEF Top
<1>4. /\ DOMAIN modules' = D \cup {d} /\ modules'[d].files = Top.files /\ modules'[d].pkg = Top.pkg
      /\ \A e \in D : modules'[e] = modules[e]
  BY <1>3 DEF FinishModule
<1>5. Pending(packages, Top) = {}
  <2>1. DOMAIN Top.imports = {}
    BY <1>1
  <2> QED
    BY <2>1 DEF Pending
<1>6. Scanned(Top) = Top.files /\ Top.files \subseteq DOMAIN text
  BY <1>1, <1>3 DEF Scanned, ActOK
<1>7. Uses(d)' = Used(packages, text, Top)
  <2>1. Uses(d)' = UNION {Targets(packages, Top.pkg, d, text[f]) : f \in Top.files}
    BY <1>1, <1>4 DEF Uses
  <2> QED
    BY <2>1, <1>6 DEF Used
<1>8. \A e \in D : Uses(e)' = Uses(e)
  BY <1>1, <1>4, UsesStay DEF LoadInv
<1>9. StackOK(packages, text, diags, D \cup {d}, Tail(stack))
  BY <1>1, <1>2, Finished DEF Top
<1>10. StackOK(packages, text, diags, DOMAIN modules, stack)'
  BY <1>1, <1>4, <1>9
<1>11. NoDir \in Uses(d)' => diags # {}
  BY <1>3, <1>5, <1>7 DEF ActOK
<1> QED
  BY <1>3, <1>4, <1>5, <1>6, <1>7, <1>8, <1>10, <1>11

\* loadModule returns.
LEMMA FinishModuleStep ==
  ASSUME LoadInv, FinishModule
  PROVE  LoadInv'
<1>1. lstage = "modules" /\ UNCHANGED <<text, packages, lstage, diags, outcome>>
  BY DEF FinishModule
<1> PICK d : d = Top.dir
  OBVIOUS
<1>2. ModulesOK'
  <2>1. /\ DOMAIN modules' = DOMAIN modules \cup {d}
        /\ \A e \in DOMAIN modules : modules'[e] = modules[e] /\ Uses(e)' = Uses(e)
        /\ modules'[d].files \subseteq DOMAIN text
        /\ Uses(d)' \subseteq DOMAIN modules \cup {NoDir} /\ (NoDir \in Uses(d)' => diags # {})
    BY ModuleFinished
  <2> QED
    BY <1>1, <2>1 DEF LoadInv, ModulesOK
<1>3. PackagesOK' /\ (\A f \in DOMAIN text : text[f] \in Texts)'
  BY <1>1 DEF LoadInv, PackagesOK
<1>4. ImportsClosed' /\ CycleReal'
  BY <1>1 DEF LoadInv, ImportsClosed, CycleReal
<1> QED
  BY <1>1, <1>2, <1>3, <1>4, ModuleFinished DEF LoadInv

\* The end of LoadProgram.
LEMMA FinishLoadStep ==
  ASSUME LoadInv, FinishLoad
  PROVE  LoadInv'
<1>1. CASE Stop("diag") \/ Stop("fatal")
  BY <1>1, Stopped
<1>2. CASE diags = {} /\ Stop("ok")
  <2>1. PackagesOK' /\ (\A f \in DOMAIN text : text[f] \in Texts)'
    BY <1>2 DEF LoadInv, PackagesOK, Stop
  <2>2. /\ UNCHANGED <<modules, text, packages, diags>> /\ outcome' = "ok" /\ lstage' = "done"
        /\ \A d \in DOMAIN modules : Uses(d)' = Uses(d)
    BY <1>2 DEF Stop, Uses
  <2>3. ModulesOK'
    BY <2>2 DEF LoadInv, ModulesOK
  <2>4. \A d \in DOMAIN modules : modules[d].files \subseteq DOMAIN text /\ Uses(d) \subseteq DOMAIN modules
    BY <1>2 DEF LoadInv, ModulesOK
  <2>5. ImportsClosed'
    BY <2>2, <2>4 DEF LoadInv, PackagesOK, ImportsClosed
  <2>6. CycleReal'
    BY <2>2 DEF CycleReal
  <2> QED
    BY <2>1, <2>2, <2>3, <2>5, <2>6 DEF LoadInv
<1> QED
  BY <1>1, <1>2 DEF FinishLoad

\* Every step of the loader keeps its invariant.
LEMMA LoadStep ==
  ASSUME LoadInv, [LoadNext]_loadVars
  PROVE  LoadInv'
<1>1. CASE ResolveEntry
  <2>1. CASE Stop("fatal")
    BY <2>1, Stopped
  <2>2. CASE EnterPackage(EntryRoot) /\ lstage' = "packages" /\ UNCHANGED <<text, modules, outcome>>
    <3>1. PackagesOK' /\ outcome = "none" /\ lstage = "entry"
      BY <1>1, <2>2, PackageEntered DEF LoadInv, ResolveEntry
    <3> QED
      BY <2>2, <3>1, BeforeModules
  <2> QED
    BY <1>1, <2>1, <2>2 DEF ResolveEntry
<1>2. CASE LoadDep
  <2>1. PackagesOK'
    BY <1>2, DepLoaded DEF LoadInv
  <2>2. lstage = "packages" /\ UNCHANGED <<worldVars, text, modules, stack, lstage, outcome>>
    BY <1>2, Zenon DEF LoadDep
  <2>3. outcome = "none"
    BY <2>2 DEF LoadInv
  <2> QED
    BY <2>1, <2>2, <2>3, BeforeModules
<1>3. CASE LeavePackage
  <2>1. /\ PackagesOK' /\ outcome = "none" /\ lstage = "packages"
        /\ UNCHANGED <<text, modules, lstage, outcome>>
    BY <1>3 DEF LoadInv, LeavePackage, PackagesOK
  <2> QED
    BY <2>1, BeforeModules
<1>4. CASE ReadFails
  BY <1>4, Stopped DEF ReadFails
<1>5. CASE UNCHANGED loadVars
  <2>1. /\ UNCHANGED <<cmd, tree, text, packages, pstack, modules, stack, lstage, diags, outcome>>
        /\ \A d : Uses(d)' = Uses(d)
    BY <1>5 DEF loadVars, Uses
  <2> QED
    BY <2>1 DEF LoadInv, ModulesOK, PackagesOK, ImportsClosed, CycleReal
<1> QED
  BY <1>1, <1>2, <1>3, <1>4, <1>5, EnterEntryStep, ScanFileStep, ImportStep, FinishModuleStep, FinishLoadStep
     DEF LoadNext

\* The invariant holds when the loader is called.
LEMMA LoadBegins ==
  ASSUME LoadInit
  PROVE  LoadInv
<1>1. DOMAIN text = {} /\ DOMAIN packages = {} /\ DOMAIN modules = {} /\ lstage = "entry" /\ outcome = "none"
  BY DEF LoadInit
<1> QED
  BY <1>1 DEF LoadInv, ModulesOK, PackagesOK, ImportsClosed, CycleReal

----------------------------------------------------------------------------
(* What follows for every run of the loader.                               *)

\* The invariant holds always.
THEOREM LoadInvariance == LoadSpec => []LoadInv
<1>1. LoadInit => LoadInv
  BY LoadBegins
<1>2. LoadInv /\ [LoadNext]_loadVars => LoadInv'
  BY LoadStep
<1> QED
  BY <1>1, <1>2, PTL DEF LoadSpec

\* A program that the loader accepts has all its modules: each import of each of its files leads to
\* one of them (LoadProgram and loadModule).
THEOREM AcceptedIsClosed == LoadSpec => []ImportsClosed
<1>1. LoadInv => ImportsClosed
  BY DEF LoadInv
<1> QED
  BY <1>1, LoadInvariance, PTL

\* A circular import that is reported is a path of imports back to where it began (loadModule).
THEOREM CyclesAreReal == LoadSpec => []CycleReal
<1>1. LoadInv => CycleReal
  BY DEF LoadInv
<1> QED
  BY <1>1, LoadInvariance, PTL

\* Where the graph of imports stays.
LEMMA GraphStays ==
  ASSUME LoadInv, modules' = modules,
         \/ lstage \in {"entry", "packages"}
         \/ /\ packages' = packages
            /\ DOMAIN text \subseteq DOMAIN text' /\ \A f \in DOMAIN text : text'[f] = text[f]
  PROVE  Imports' = Imports
<1>1. \A d \in DOMAIN modules : Uses(d)' = Uses(d)
  <2>1. CASE lstage \in {"entry", "packages"}
    BY <2>1 DEF LoadInv
  <2>2. CASE /\ packages' = packages
             /\ DOMAIN text \subseteq DOMAIN text' /\ \A f \in DOMAIN text : text'[f] = text[f]
    BY <2>2, UsesStay DEF LoadInv
  <2> QED
    BY <2>1, <2>2
<1> QED
  BY <1>1 DEF Imports

\* Every step of the loader is one of ImportClosure or leaves the graph and the outcome alone.
LEMMA LoaderRefines ==
  ASSUME LoadInv, [LoadNext]_loadVars
  PROVE  [Closure!ClosureNext]_(Closure!closureVars)
<1> USE DEF Closure!closureVars, Closure!ClosureNext
<1>0. DOMAIN Imports = DOMAIN modules /\ DOMAIN Imports' = DOMAIN modules'
  BY DEF Imports
<1>1. CASE FinishModule
  <2> PICK d : d = Top.dir
    OBVIOUS
  <2>1. /\ d \notin DOMAIN modules /\ DOMAIN modules' = DOMAIN modules \cup {d}
        /\ \A e \in DOMAIN modules : Uses(e)' = Uses(e)
        /\ Uses(d)' \subseteq DOMAIN modules \cup {NoDir}
    BY <1>1, ModuleFinished
  <2>2. outcome = "none" /\ outcome' = outcome
    BY <1>1 DEF LoadInv, FinishModule
  <2>3. Imports'[d] = Uses(d)' /\ \A e \in DOMAIN modules : Imports'[e] = Imports[e]
    BY <2>1 DEF Imports
  <2> QED
    BY <1>0, <2>1, <2>2, <2>3 DEF Closure!Add
<1>2. CASE modules' = modules /\ outcome' = outcome /\ Imports' = Imports
  BY <1>2
<1>3. CASE Imports' = Imports /\ outcome = "none" /\ outcome' \in {"diag", "cycle", "fatal"}
  BY <1>3 DEF Closure!Reject
<1>4. CASE FinishLoad
  <2>1. /\ lstage = "modules" /\ stack = <<>> /\ outcome = "none" /\ Imports' = Imports
    BY <1>4, GraphStays DEF LoadInv, FinishLoad, Stop
  <2>2. CASE outcome' = "ok" /\ diags = {}
    <3>1. DOMAIN modules # {} /\ \A d \in DOMAIN modules : NoDir \notin Uses(d)
      BY <2>1, <2>2 DEF LoadInv, ModulesOK
    <3>2. \A d \in DOMAIN modules : NoDir \notin Imports[d]
      BY <3>1 DEF Imports
    <3> QED
      BY <1>0, <2>1, <2>2, <3>1, <3>2 DEF Closure!Accept
  <2> QED
    BY <1>3, <1>4, <2>1, <2>2 DEF FinishLoad, Stop
<1>5. CASE ResolveEntry \/ LoadDep \/ LeavePackage \/ EnterEntry
  <2>1. lstage \in {"entry", "packages"} /\ modules' = modules /\ (outcome' = outcome \/ outcome' \in {"diag", "fatal"})
    BY <1>5, Zenon DEF ResolveEntry, LoadDep, LeavePackage, EnterEntry, Stop
  <2>2. outcome = "none" /\ Imports' = Imports
    BY <2>1, GraphStays DEF LoadInv
  <2> QED
    BY <1>2, <1>3, <2>1, <2>2
<1>6. CASE ScanFile
  <2>1. /\ UNCHANGED <<packages, modules, outcome>>
        /\ DOMAIN text \subseteq DOMAIN text' /\ \A f \in DOMAIN text : text'[f] = text[f]
    BY <1>6 DEF ScanFile
  <2> QED
    BY <1>2, <2>1, GraphStays
<1>7. CASE ReadFails \/ Import
  <2>1. /\ lstage = "modules" /\ UNCHANGED <<packages, text, modules>>
        /\ outcome' = outcome \/ outcome' \in {"cycle", "fatal"}
    BY <1>7, Zenon DEF ReadFails, Import, Stop
  <2>2. outcome = "none" /\ Imports' = Imports
    BY <2>1, GraphStays DEF LoadInv
  <2> QED
    BY <1>2, <1>3, <2>1, <2>2
<1>8. CASE UNCHANGED loadVars
  BY <1>2, <1>8, GraphStays DEF loadVars
<1> QED
  BY <1>1, <1>4, <1>5, <1>6, <1>7, <1>8 DEF LoadNext

\* The loader builds its modules from the leaves of the graph of imports, and accepts when no import
\* leads nowhere: every step is one of ImportClosure or leaves the graph and the outcome alone
\* (the recursion of loadModule, and LoadProgram's end).
THEOREM ImplementsClosure == LoadSpec => BuildsClosure
<1>1. LoadInit => Closure!ClosureInit
  <2> SUFFICES ASSUME LoadInit PROVE Closure!ClosureInit
    OBVIOUS
  <2>1. DOMAIN modules = {} /\ outcome = "none"
    BY DEF LoadInit
  <2> QED
    BY <2>1 DEF Closure!ClosureInit, Imports
<1>2. ASSUME LoadInv, [LoadNext]_loadVars
      PROVE  [Closure!ClosureNext]_(Closure!closureVars)
  BY <1>2, LoaderRefines
<1> QED
  BY <1>1, <1>2, LoadInvariance, PTL DEF LoadSpec, BuildsClosure, Closure!ClosureSpec

----------------------------------------------------------------------------
(* Files and modules.                                                      *)

\* The entry's files are in one directory.
OneDir == Cardinality({f[1] : f \in EntryFiles}) <= 1

\* The files of a module are in its directory.
OwnFiles(files, d) == \A f \in files : f[1] = d

FilesInv ==
  /\ cmd \in Commands
  /\ lstage = "packages" /\ ~Single =>
       \A p \in Paths : ~Missing(p) /\ (p.file = "dir" => Listed(p.dir, cmd.tests) # {})
  /\ OneDir =>
       /\ \A d \in DOMAIN modules : OwnFiles(modules[d].files, d)
       /\ lstage = "modules" => \A i \in DOMAIN stack : OwnFiles(stack[i].files, stack[i].dir)

LEMMA AloneIsPrefix ==
  ASSUME NEW d \in Seq(STRING)
  PROVE  CommonDir({d}) = d
<1>1. Len(d) \in Nat /\ DOMAIN d = 1 .. Len(d) /\ \A i \in 1 .. Len(d) : d[i] \in STRING
  BY LenProperties, ElementOfSeq
<1>2. ASSUME NEW n \in 0 .. Len(d)
      PROVE  SubSeq(d, 1, n) \in Seq(STRING) /\ Len(SubSeq(d, 1, n)) = n
  <2>1. \A i \in 1 .. n : d[i] \in STRING
    BY <1>1
  <2> QED
    BY <1>1, <2>1, SubSeqProperties
<1>3. SubSeq(d, 1, Len(d)) = d
  BY SubSeqFull
<1>4. d \in CommonPrefixes({d})
  <2>1. d \in Prefixes(d)
    <3>1. Len(d) \in 0 .. Len(d)
      BY <1>1
    <3>2. \E l \in 0 .. Len(d) : d = SubSeq(d, 1, l)
      BY <1>3, <3>1
    <3> QED
      BY <3>2, Zenon DEF Prefixes
  <2>2. IsPrefix(d, d)
    BY <1>1 DEF IsPrefix
  <2>3. d \in UNION {Prefixes(seq) : seq \in {d}} /\ \A t \in {d} : IsPrefix(d, t)
    BY <2>1, <2>2
  <2> QED
    BY <2>3, Zenon DEF CommonPrefixes
<1>5. ASSUME NEW e \in CommonPrefixes({d})
      PROVE  \E n \in 0 .. Len(d) : e = SubSeq(d, 1, n)
  BY DEF CommonPrefixes, Prefixes
<1>6. \A e \in CommonPrefixes({d}) : Len(e) <= Len(d)
  BY <1>1, <1>2, <1>5
<1> DEFINE c == CommonDir({d})
<1>7. c \in CommonPrefixes({d}) /\ \A e \in CommonPrefixes({d}) : Len(e) <= Len(c)
  BY <1>4, <1>6 DEF CommonDir, LongestCommonPrefix
<1> HIDE DEF c
<1>8. PICK n \in 0 .. Len(d) : c = SubSeq(d, 1, n)
  BY <1>5, <1>7
<1>9. n = Len(d)
  <2>1. Len(c) = n
    BY <1>2, <1>8
  <2>2. Len(d) <= Len(c)
    BY <1>4, <1>7
  <2>3. Len(d) <= n /\ n \in 0 .. Len(d) /\ Len(d) \in Nat
    BY <1>1, <2>1, <2>2, Zenon
  <2>4. \A k \in Nat : k <= n /\ n \in 0 .. k => n = k
    OBVIOUS
  <2> QED
    BY <2>3, <2>4, Zenon
<1> QED
  BY <1>3, <1>8, <1>9 DEF c

\* The files that are named are in the directories that are named.
LEMMA EntryDirs ==
  ASSUME cmd \in Commands, \A p \in Paths : ~Missing(p) /\ (p.file = "dir" => Listed(p.dir, cmd.tests) # {})
  PROVE  /\ {f[1] : f \in EntryFiles} = {p.dir : p \in Paths}
         /\ \A p \in Paths : p.dir \in Seq(STRING)
         /\ IsFiniteSet({p.dir : p \in Paths})
<1>1. ASSUME NEW p \in Paths, NEW f \in IF p.file = "dir" THEN Listed(p.dir, cmd.tests) ELSE {<<p.dir, p.file>>}
      PROVE  f[1] = p.dir
  BY <1>1 DEF Listed
<1>2. ASSUME NEW p \in Paths
      PROVE  \E f \in EntryFiles : f[1] = p.dir
  <2>1. \E f \in IF p.file = "dir" THEN Listed(p.dir, cmd.tests) ELSE {<<p.dir, p.file>>} : TRUE
    OBVIOUS
  <2>2. PICK f \in IF p.file = "dir" THEN Listed(p.dir, cmd.tests) ELSE {<<p.dir, p.file>>} : TRUE
    BY <2>1
  <2>3. f \in EntryFiles
    BY <2>2 DEF EntryFiles
  <2> QED
    BY <1>1, <2>2, <2>3
<1>3. \A f \in EntryFiles : \E p \in Paths : f[1] = p.dir
  BY <1>1 DEF EntryFiles
<1>4. {f[1] : f \in EntryFiles} = {p.dir : p \in Paths}
  BY <1>2, <1>3
<1>5. \A p \in Paths : p.dir \in Seq(STRING)
  BY LoaderAssumption DEF LoaderAssumption, Missing
<1>6. IsFiniteSet({p.dir : p \in Paths})
  <2>1. cmd.paths \in Seq(Range(cmd.paths))
    BY LoaderAssumption DEF LoaderAssumption
  <2>2. Len(cmd.paths) \in Nat /\ DOMAIN cmd.paths = 1 .. Len(cmd.paths)
    BY <2>1, LenProperties
  <2> DEFINE D == {p.dir : p \in Paths}
             n == Len(cmd.paths)
             g == [i \in 1 .. n |-> cmd.paths[i].dir]
  <2>3. g \in Surjection(1 .. n, D)
    BY <2>2 DEF Surjection, Paths, ToSet
  <2>4. IsFiniteSet(1 .. n)
    BY <2>2, FS_Interval
  <2> HIDE DEF D, g, n
  <2>5. IsFiniteSet(D)
    BY <2>3, <2>4, FS_Surjection
  <2> QED
    BY <2>5 DEF D
<1> QED
  BY <1>4, <1>5, <1>6

\* The entry's files are in the directory that its module goes by.
LEMMA EntryFilesOwn ==
  ASSUME FilesInv, EnterEntry, OneDir, lstage' = "modules"
  PROVE  /\ DOMAIN stack' = {1}
         /\ OwnFiles(stack'[1].files, stack'[1].dir)
<1> DEFINE listed == IF Single THEN Listed(CodeDir, cmd.tests) ELSE EntryFiles
<1>1. /\ lstage = "packages"
      /\ stack' = <<Activation(CodeDir, EntryRoot, listed)>>
      /\ ~Single /\ ~cmd.multi => \A f \in listed : f[1] = CodeDir
  BY DEF EnterEntry, Stop, EntryModule
<1>2. DOMAIN stack' = {1} /\ stack'[1].files = listed /\ stack'[1].dir = CodeDir
  BY <1>1 DEF Activation
<1>3. CASE Single
  BY <1>2, <1>3 DEF OwnFiles, Listed
<1>4. CASE ~Single /\ ~cmd.multi
  BY <1>1, <1>2, <1>4 DEF OwnFiles
<1>5. CASE ~Single /\ cmd.multi
  <2> DEFINE D == {p.dir : p \in Paths}
  <2>1. /\ {f[1] : f \in EntryFiles} = D /\ IsFiniteSet(D) /\ Cardinality(D) <= 1
        /\ \A p \in Paths : p.dir \in Seq(STRING)
    BY <1>1, <1>5, EntryDirs DEF FilesInv, OneDir
  <2>2. CodeDir = CommonDir(D)
    BY <1>5 DEF CodeDir, EntryDir
  <2>3. ASSUME NEW f \in EntryFiles
        PROVE  f[1] = CodeDir
    <3>1. f[1] \in D
      BY <2>1
    <3>2. PICK d : D = {d}
      <4> HIDE DEF D
      <4>1. Cardinality(D) \in Nat /\ Cardinality(D) # 0 /\ Cardinality(D) <= 1
        BY <2>1, <3>1, FS_CardinalityType, FS_EmptySet
      <4>2. \A n \in Nat : n # 0 /\ n <= 1 => n = 1
        OBVIOUS
      <4>3. Cardinality(D) = 1
        BY <4>1, <4>2, Zenon
      <4> QED
        BY <2>1, <4>3, FS_Singleton, Zenon
    <3>3. d \in Seq(STRING)
      BY <2>1, <3>2
    <3> HIDE DEF D
    <3> QED
      BY <2>2, <3>1, <3>2, <3>3, AloneIsPrefix
  <2> QED
    BY <1>2, <1>5, <2>3 DEF OwnFiles
<1> QED
  BY <1>3, <1>4, <1>5

\* An activation on top of others.
LEMMA OnTop ==
  ASSUME NEW x, NEW r, IsSeq(r), OwnFiles(x.files, x.dir), \A i \in DOMAIN r : OwnFiles(r[i].files, r[i].dir)
  PROVE  \A i \in DOMAIN (<<x>> \o r) : OwnFiles((<<x>> \o r)[i].files, (<<x>> \o r)[i].dir)
<1> DEFINE q == <<x>> \o r
<1>1. /\ Len(r) \in Nat /\ DOMAIN r = 1 .. Len(r) /\ DOMAIN q = 1 .. Len(r) + 1
      /\ q[1] = x /\ \A i \in DOMAIN r : q[i + 1] = r[i]
  BY Pushed
<1> HIDE DEF q
<1>2. ASSUME NEW i \in DOMAIN q
      PROVE  OwnFiles(q[i].files, q[i].dir)
  <2>1. CASE i = 1
    BY <1>1, <2>1
  <2>2. CASE i # 1
    <3>1. i - 1 \in DOMAIN r /\ (i - 1) + 1 = i
      BY <1>1, <2>2
    <3> QED
      BY <1>1, <3>1
  <2> QED
    BY <2>1, <2>2
<1> QED
  BY <1>2 DEF q

LEMMA TopShape ==
  ASSUME LoadInv, lstage = "modules", stack # <<>>
  PROVE  Top \in Shaped(Top)
BY Topmost DEF LoadInv, Top, ActOK

\* The loader keeps files where they belong.
LEMMA FilesStep ==
  ASSUME LoadInv, FilesInv, [LoadNext]_loadVars
  PROVE  FilesInv'
<1>1. cmd' = cmd
  BY DEF LoadNext, loadVars, worldVars, ResolveEntry, LoadDep, LeavePackage, EnterEntry, ScanFile, ReadFails, Import,
     FinishModule, FinishLoad, Stop
<1>2. Single' = Single /\ Paths' = Paths /\ EntryFiles' = EntryFiles /\ OneDir' = OneDir
  BY <1>1 DEF Single, Paths, EntryFiles, OneDir, Missing
<1> DEFINE named == \A p \in Paths : ~Missing(p) /\ (p.file = "dir" => Listed(p.dir, cmd.tests) # {})
<1>3. lstage' = "packages" /\ ~Single => named'
  <2>1. named' <=> named
    BY <1>1, <1>2 DEF Missing
  <2>2. CASE lstage = "packages"
    BY <2>1, <2>2 DEF FilesInv
  <2>3. CASE ResolveEntry
    BY <2>1, <2>3 DEF ResolveEntry, Stop
  <2>4. CASE lstage # "packages" /\ ~ResolveEntry
    <3>1. lstage' # "packages"
      BY <2>4 DEF LoadNext, loadVars, LoadDep, LeavePackage, EnterEntry, ScanFile, ReadFails, Import, FinishModule,
         FinishLoad, Stop
    <3> QED
      BY <3>1
  <2> QED
    BY <2>2, <2>3, <2>4
<1> DEFINE modulesOwn == \A d \in DOMAIN modules : OwnFiles(modules[d].files, d)
           stackOwn == \A i \in DOMAIN stack : OwnFiles(stack[i].files, stack[i].dir)
<1>4. ASSUME OneDir
      PROVE  modulesOwn' /\ (lstage' = "modules" => stackOwn')
  <2>1. modulesOwn /\ (lstage = "modules" => stackOwn /\ IsSeq(stack))
    BY <1>4 DEF FilesInv, LoadInv, StackOK
  <2>2. lstage = "modules" /\ stack # <<>> =>
          /\ IsSeq(Tail(stack)) /\ Top = stack[1] /\ OwnFiles(Top.files, Top.dir)
          /\ \A i \in DOMAIN Tail(stack) : OwnFiles(Tail(stack)[i].files, Tail(stack)[i].dir)
    <3> SUFFICES ASSUME lstage = "modules", stack # <<>> PROVE <2>2!2
      OBVIOUS
    <3>1. /\ IsSeq(Tail(stack)) /\ Len(stack) \in Nat \ {0} /\ DOMAIN stack = 1 .. Len(stack)
          /\ DOMAIN Tail(stack) = 1 .. Len(stack) - 1 /\ Top = stack[1]
          /\ \A i \in 1 .. Len(stack) - 1 : Tail(stack)[i] = stack[i + 1]
      BY <2>1, Popped DEF Top
    <3>2. \A i \in 1 .. Len(stack) - 1 : i + 1 \in DOMAIN stack
      BY <3>1
    <3> QED
      BY <2>1, <3>1, <3>2
  <2>3. CASE EnterEntry
    <3>1. modules' = modules
      BY <2>3 DEF EnterEntry, Stop
    <3>2. CASE lstage' # "modules"
      BY <2>1, <3>1, <3>2
    <3>3. CASE lstage' = "modules"
      <4>1. DOMAIN stack' = {1} /\ OwnFiles(stack'[1].files, stack'[1].dir)
        BY <1>4, <2>3, <3>3, EntryFilesOwn
      <4>2. \A i \in DOMAIN stack' : OwnFiles(stack'[i].files, stack'[i].dir)
        BY <4>1
      <4> QED
        BY <2>1, <3>1, <4>2
    <3> QED
      BY <3>2, <3>3
  <2>4. CASE modules' = modules /\ (stack' = stack \/ lstage' = "done") /\ (lstage' = lstage \/ lstage' # "modules")
    BY <2>1, <2>4
  <2>5. ASSUME NEW x, stack' = <<x>> \o Tail(stack), x.files = Top.files, x.dir = Top.dir,
               lstage = "modules", stack # <<>>, modules' = modules
        PROVE  modulesOwn' /\ stackOwn'
    <3>1. OwnFiles(x.files, x.dir)
      BY <2>2, <2>5
    <3>2. \A i \in DOMAIN (<<x>> \o Tail(stack)) :
            OwnFiles((<<x>> \o Tail(stack))[i].files, (<<x>> \o Tail(stack))[i].dir)
      BY <2>2, <2>5, <3>1, OnTop
    <3> QED
      BY <2>1, <2>5, <3>2
  <2>6. CASE ScanFile
    <3>1. /\ lstage = "modules" /\ stack # <<>> /\ modules' = modules
          /\ \E t : stack' = <<[Top EXCEPT !.todo = @ \ {NextFile}, !.imports = t.imports]>> \o Tail(stack)
      BY <2>6 DEF ScanFile
    <3>2. PICK t : stack' = <<[Top EXCEPT !.todo = @ \ {NextFile}, !.imports = t.imports]>> \o Tail(stack)
      BY <3>1
    <3> DEFINE x == [Top EXCEPT !.todo = @ \ {NextFile}, !.imports = t.imports]
    <3>3. x.files = Top.files /\ x.dir = Top.dir
      BY <3>1, TopShape DEF Shaped
    <3> HIDE DEF x
    <3> QED
      BY <2>5, <3>1, <3>2, <3>3 DEF x
  <2>7. CASE Import
    <3> DEFINE imp == Head(Top.imports)
               t == Resolve(packages, Top.pkg, Top.dir, imp)
               b == [Top EXCEPT !.imports = Tail(@), !.aliases = @ \cup {Alias(imp)}]
               a == Activation(t.dir, t.pkg, Listed(t.dir, FALSE))
    <3>1. /\ lstage = "modules" /\ stack # <<>> /\ modules' = modules
          /\ \/ stack' = Past(imp)
             \/ lstage' = "done"
             \/ stack' = <<a>> \o Past(imp)
      BY <2>7, Zenon DEF Import, Imported
    <3>2. Past(imp) = <<b>> \o Tail(stack)
      BY DEF Past
    <3>3. b.files = Top.files /\ b.dir = Top.dir
      BY <3>1, TopShape DEF Shaped
    <3>4. OwnFiles(a.files, a.dir)
      BY DEF Activation, OwnFiles, Listed
    <3> HIDE DEF a, b
    <3>5. IsSeq(<<b>> \o Tail(stack))
      BY <2>2, <3>1, Pushed
    <3>6. \A i \in DOMAIN (<<b>> \o Tail(stack)) :
            OwnFiles((<<b>> \o Tail(stack))[i].files, (<<b>> \o Tail(stack))[i].dir)
      BY <2>2, <3>1, <3>3, OnTop
    <3>7. \A i \in DOMAIN (<<a>> \o (<<b>> \o Tail(stack))) :
            OwnFiles((<<a>> \o (<<b>> \o Tail(stack)))[i].files, (<<a>> \o (<<b>> \o Tail(stack)))[i].dir)
      BY <3>4, <3>5, <3>6, OnTop
    <3> QED
      BY <2>1, <3>1, <3>2, <3>6, <3>7
  <2>8. CASE FinishModule
    <3>1. /\ lstage = "modules" /\ stack # <<>> /\ stack' = Tail(stack)
          /\ DOMAIN modules' = DOMAIN modules \cup {Top.dir}
          /\ \A d \in DOMAIN modules' : IF d = Top.dir THEN modules'[d].files = Top.files ELSE modules'[d] = modules[d]
      BY <2>8 DEF FinishModule
    <3> QED
      BY <2>1, <2>2, <3>1
  <2>9. CASE ResolveEntry \/ LoadDep \/ LeavePackage \/ ReadFails \/ FinishLoad \/ UNCHANGED loadVars
    <3>1. /\ modules' = modules /\ (stack' = stack \/ lstage' = "done")
          /\ lstage' = lstage \/ lstage' # "modules"
      BY <2>9 DEF ResolveEntry, LoadDep, LeavePackage, ReadFails, FinishLoad, loadVars, Stop
    <3> QED
      BY <2>4, <3>1
  <2> QED
    BY <2>3, <2>6, <2>7, <2>8, <2>9 DEF LoadNext
<1> QED
  BY <1>1, <1>2, <1>3, <1>4 DEF FilesInv

LEMMA FilesBegin == ASSUME LoadInit PROVE FilesInv
<1>1. cmd \in Commands /\ DOMAIN modules = {} /\ lstage = "entry"
  BY DEF LoadInit
<1> QED
  BY <1>1 DEF FilesInv

LEMMA FilesApart == ASSUME FilesInv PROVE OneModulePerFile
<1> SUFFICES ASSUME OneDir, NEW d \in DOMAIN modules, NEW e \in DOMAIN modules, d # e
             PROVE  modules[d].files \cap modules[e].files = {}
  BY DEF OneModulePerFile, OneDir
<1> QED
  BY DEF FilesInv, OwnFiles

\* Unless files of several directories are given, no file belongs to two modules, so that one module's
\* imports name things in it (fileAliases in LoadProgram).
THEOREM FilesAreInOneModule == LoadSpec => []OneModulePerFile
<1>1. LoadInit => LoadInv /\ FilesInv
  BY LoadBegins, FilesBegin
<1>2. LoadInv /\ FilesInv /\ [LoadNext]_loadVars => LoadInv' /\ FilesInv'
  BY LoadStep, FilesStep
<1>3. FilesInv => OneModulePerFile
  BY FilesApart
<1> QED
  BY <1>1, <1>2, <1>3, PTL DEF LoadSpec

=============================================================================
