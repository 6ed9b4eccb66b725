-------------------------------- MODULE MCMono --------------------------------
(* Programs with main, a generic function g, a third function h and an impl with two methods, *)
(* in several orders.  g does not call itself at a larger type.                               *)
EXTENDS Mono

O(op, f, type) == [op |-> op, f |-> f, type |-> type]
Lit == O("lit", "none", None)
Arg == O("arg", "none", None)
Call1(f) == O("call", f, None)
NewS == O("new", "none", None)
Value == O("value", "none", None)
Meth(m) == O("method", m, None)

It(name, generic, param, ret, body) ==
  [name |-> name, generic |-> generic, param |-> param, ret |-> ret, body |-> body]

A == Ty(0, "A")
T == Ty(0, "T")
SA == Ty(1, "A")
ST == Ty(1, "T")

Mains == {It("main", FALSE, p, None, <<e>>) : p \in {A}, e \in {
  <<Call1("g"), Lit>>, <<Call1("g"), NewS, Arg>>, <<Call1("g"), Call1("g"), Lit>>, <<Call1("h"), Lit>>,
  <<Meth("get"), NewS, Lit>>, <<Meth("wrap"), NewS, Call1("h"), Arg>>, <<Value, NewS, NewS, Arg>>,
  <<O("call", "g", A), Call1("g"), Lit>>, <<Call1("g"), Call1("h"), Arg>>, <<Value, Call1("h"), Lit>>,
  <<Call1("g"), O("call", "h", A), Lit>>}}
Gs == {It("g", TRUE, T, rb[1], rb[2]) : rb \in {
  <<T, <<<<Arg>>>>>>, <<None, <<<<Call1("h"), Arg>>>>>>, <<None, <<<<NewS, Arg>>>>>>,
  <<T, <<<<Call1("h"), Lit>>, <<Arg>>>>>>, <<T, <<<<Call1("g"), Arg>>>>>>, <<T, <<<<NewS, Lit>>, <<Arg>>>>>>,
  <<ST, <<<<Meth("wrap"), NewS, Arg>>>>>>, <<T, <<<<Meth("get"), NewS, Arg>>>>>>}}
Hs == {It("h", pr[1] = T, pr[1], pr[2], <<pr[3]>>) : pr \in {
  <<A, A, <<Arg>>>>, <<A, Unit, <<Arg>>>>, <<A, None, <<NewS, Arg>>>>, <<A, SA, <<NewS, Arg>>>>, <<T, T, <<Meth("get"), NewS, Arg>>>>,
  <<T, None, <<Arg>>>>, <<T, ST, <<NewS, Arg>>>>}}
        \cup {It("h", TRUE, A, A, <<<<Arg>>>>)}
Methods == {<<It("get", TRUE, ST, rr[1], <<<<Value, Arg>>>>), It("wrap", TRUE, ST, rr[2], <<rr[3]>>)>> :
  rr \in {<<T, ST, <<NewS, Value, Arg>>>>, <<T, None, <<NewS, Meth("get"), Arg>>>>, <<None, A, <<Meth("get"), NewS, Lit>>>>,
          <<T, None, <<Call1("h"), Value, Arg>>>>}}

WMonoPrograms ==
  UNION {{[fns |-> fs, methods |-> ms] : fs \in {<<mn, g, h>>, <<h, g, mn>>, <<g, mn, h>>}} :
           mn \in Mains, g \in Gs, h \in Hs, ms \in Methods}
=============================================================================
