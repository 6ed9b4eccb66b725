------------------------------ MODULE MCIRFlow -------------------------------
(* Functions of three blocks with one parameter and one variable, and one function that they *)
(* call.                                                                                     *)
EXTENDS IRFlow

I(op, dst, name, args) == [op |-> op, dst |-> dst, name |-> <<name, 0>>, args |-> args]
StoreX(a) == I("store", NoDst, "x", <<a>>)
LoadX(t) == I("load", t, "x", <<>>)
CallWith(dst, a) == I("call", dst, "", <<a>>)

Jump(l) == [op |-> "jump", to |-> l]
Branch(c, t, e) == [op |-> "branch", cond |-> c, then |-> t, else |-> e]
Return(a) == [op |-> "return", val |-> a]

Codes ==
  {<<>>, <<StoreX(Const(2))>>, <<LoadX(1)>>, <<CallWith(1, Temp(0)), StoreX(Temp(1))>>,
   <<I("call", NoDst, "", <<Temp(1)>>), I("ext", NoDst, "", <<Temp(0)>>)>>}
Terms1 == {Jump(2), Branch(Temp(0), 2, 3), Branch(Const(1), 3, 2)}
Terms2 == {Jump(3), Branch(Temp(1), 2, 3), Branch(Temp(0), 1, 3)}
Terms3 == {Return(Temp(1)), Branch(Temp(1), 2, 1), Jump(2)}
Flows ==
  {[i \in 1 .. 3 |-> [code |-> c[i], term |-> t[i]]] : c \in [1 .. 3 -> Codes], t \in Terms1 \X Terms2 \X Terms3}

Callee(params, n, code, ret) == [params |-> params, temps |-> n, code |-> code, ret |-> ret]
LoadQ(t) == I("load", t, "q", <<>>)

\* Callees that read their parameter through its variable and have no instruction that remapInstr
\* leaves as it is.
Careful ==
  {Callee(<<"q">>, 2, <<LoadQ(1), StoreX(Temp(1)), LoadX(1)>>, Temp(1)),
   Callee(<<"q">>, 3, <<LoadQ(2), I("op", 1, "", <<Temp(2), Const(2)>>)>>, Const(1)),
   Callee(<<"q">>, 2, <<LoadQ(1), I("ext", 1, "", <<Temp(1)>>)>>, Temp(1))}
ASSUME CarefulAreCareful == \A f \in Careful : Candidate(f) => ReadsWhatItSets(f)

\* And as compile.go makes them: parameters are the first temporaries.
Compiled ==
  {Callee(<<"q">>, 1, <<>>, Temp(0)),
   Callee(<<"q">>, 2, <<LoadQ(1), I("deep", 1, "", <<Temp(1)>>)>>, Temp(1))}

With(fs) == {[blocks |-> b, params |-> <<"p">>, temps |-> 2, callee |-> f] : b \in Flows, f \in fs}
CarefulPrograms == With(Careful)
CompiledPrograms == With(Compiled)
=============================================================================
