-------------------------------- MODULE Ast --------------------------------
(***************************************************************************)
(* The syntax tree that the parser builds and the type checker annotates   *)
(* (include/zl/parser/ast.hpp), as far as lowering reads it: the type of an *)
(* expression is the one the checker recorded for the node, names are      *)
(* storage names, dispatch is resolved.                                    *)
(***************************************************************************)
EXTENDS Naturals, Integers, Sequences, FiniteSets, SequencesExt

Absent == [k |-> "absent"]
Present(n) == n.k # "absent"

(* Expressions *)
ELit(v, ty)           == [k |-> "lit", v |-> v, ty |-> ty]
EInt(i)               == ELit(<<"int", i>>, "int")
EBool(b)              == ELit(<<"bool", b>>, "bool")
EId(n)                == [k |-> "id", n |-> n]
EThis                 == [k |-> "this"]
EUnary(op, e)         == [k |-> "unary", op |-> op, e |-> e]
EBinary(op, l, r)     == [k |-> "binary", op |-> op, l |-> l, r |-> r]
ELogical(op, l, r)    == [k |-> "logical", op |-> op, l |-> l, r |-> r]
EAssign(n, e)         == [k |-> "assign", n |-> n, e |-> e]
EMove(n)              == [k |-> "move", n |-> n]
ECall(ns, f, as, ty)  == [k |-> "call", ns |-> ns, f |-> f, as |-> as, ty |-> ty]
EValueCall(n, as, ty) == [k |-> "valueCall", n |-> n, as |-> as, ty |-> ty]
EMethod(o, m, ps, as, ty) == [k |-> "method", o |-> o, m |-> m, ps |-> ps, as |-> as, ty |-> ty, on |-> "object"]
ENativeMethod(on, o, m, as, ty) == [EMethod(o, m, <<>>, as, ty) EXCEPT !.on = on]
ESuperMethod(m, as, ty) == [k |-> "superMethod", m |-> m, as |-> as, ty |-> ty]
ESuper(sig, as)       == [k |-> "super", sig |-> sig, as |-> as]
ENew(c, sig, as)      == [k |-> "new", c |-> c, sig |-> sig, as |-> as]
EField(o, f, ty)      == [k |-> "field", o |-> o, f |-> f, ty |-> ty]
EFunctionRef(c, sig, ty) == [k |-> "functionRef", c |-> c, sig |-> sig, ty |-> ty]
EEnum(c, m)           == [k |-> "enum", c |-> c, m |-> m]
EStatic(c, f, ty)     == [k |-> "static", c |-> c, f |-> f, ty |-> ty]
EFieldSet(o, f, e)    == [k |-> "fieldSet", o |-> o, f |-> f, e |-> e]
EStaticSet(c, f, e)   == [k |-> "staticSet", c |-> c, f |-> f, e |-> e]
EIndex(o, i, ty)      == [k |-> "index", o |-> o, i |-> i, ty |-> ty]
EList(es, ty, elem)   == [k |-> "list", es |-> es, ty |-> ty, elem |-> elem]
EMap(es, ty, key, val) == [k |-> "map", es |-> es, ty |-> ty, key |-> key, val |-> val]
EData(c, fs)          == [k |-> "data", c |-> c, fs |-> fs]
EWith(o, c, fs)       == [k |-> "with", o |-> o, c |-> c, fs |-> fs]
EAwait(e, ty)         == [k |-> "await", e |-> e, ty |-> ty]
EMatch(e, arms, ty)   == [k |-> "match", e |-> e, arms |-> arms, ty |-> ty]
ELambda(id, caps, ty) == [k |-> "lambda", id |-> id, caps |-> caps, ty |-> ty]
ELog(e)               == [k |-> "log", e |-> e]

(* Match arms and patterns *)
Arm(p, guard, e)      == [p |-> p, guard |-> guard, e |-> e]
PWild                 == [k |-> "wild"]
PVar(n)               == [k |-> "var", n |-> n]
PValue(v, ty)         == [k |-> "value", v |-> v, ty |-> ty]
PType(ty, n)          == [k |-> "type", ty |-> ty, n |-> n]
PData(c, fs)          == [k |-> "data", c |-> c, fs |-> fs]
PList(es, set)        == [k |-> "list", es |-> es, set |-> set]
PMap(es)              == [k |-> "map", es |-> es]

(* Statements *)
SBlock(ss)            == [k |-> "block", ss |-> ss]
SVar(n, const, own, ty, e) == [k |-> "var", n |-> n, const |-> const, own |-> own, ty |-> ty, e |-> e]
SLet(n, e)            == SVar(n, FALSE, "gc", "", e)
SLog(e)               == [k |-> "log", e |-> e]
SExpr(e)              == [k |-> "expr", e |-> e]
SIf(brs, els)         == [k |-> "if", brs |-> brs, els |-> els]
SWhile(c, b)          == [k |-> "while", c |-> c, b |-> b]
SRepeat(b, c)         == [k |-> "repeat", b |-> b, c |-> c]
SFor(n, s, e, st, b)  == [k |-> "for", n |-> n, s |-> s, e |-> e, st |-> st, b |-> b]
SBreak                == [k |-> "break"]
SContinue             == [k |-> "continue"]
SReturn(e)            == [k |-> "return", e |-> e]
SThrow(e)             == [k |-> "throw", e |-> e]
STry(b, cs, f)        == [k |-> "try", b |-> b, cs |-> cs, f |-> f]
Catch(ty, n, b)       == [ty |-> ty, n |-> n, b |-> b]

(* Declarations.  A function belongs to a class and is named by the class   *)
(* and its dispatch signature.                                              *)
FParam(n, ty, own)    == [n |-> n, ty |-> ty, own |-> own]
Fun(name, params, ret, static, async, body) ==
  [name |-> name, params |-> params, ret |-> ret, static |-> static, async |-> async, body |-> body]
Class(parent, fields) ==
  [parent |-> parent, fields |-> fields, data |-> FALSE, enum |-> {}, owned |-> {}, private |-> {}, protected |-> {}]
LambdaDecl(owner, caps, params, ret, expr, body) ==
  [owner |-> owner, caps |-> caps, params |-> params, ret |-> ret, expr |-> expr, body |-> body]
StaticDecl(c, n, ty, e) == [c |-> c, n |-> n, ty |-> ty, e |-> e]

(* forEachChild, and the nodes below a node in order, itself first.         *)
RECURSIVE Nodes(_)
Nodes(n) ==
  LET Each(s) == FlattenSeq([i \in DOMAIN s |-> Nodes(s[i])])
      Second(s) == FlattenSeq([i \in DOMAIN s |-> Nodes(s[i][2])])
      Pairs(s) == FlattenSeq([i \in DOMAIN s |-> Nodes(s[i][1]) \o Nodes(s[i][2])])
  IN  <<n>> \o
      CASE n.k \in {"unary", "assign", "await", "log", "expr", "throw", "return", "staticSet", "var"} -> Nodes(n.e)
        [] n.k \in {"binary", "logical"} -> Nodes(n.l) \o Nodes(n.r)
        [] n.k \in {"call", "valueCall", "superMethod", "super", "new"} -> Each(n.as)
        [] n.k = "method" -> Nodes(n.o) \o Each(n.as)
        [] n.k = "field" -> Nodes(n.o)
        [] n.k = "fieldSet" -> Nodes(n.o) \o Nodes(n.e)
        [] n.k = "index" -> Nodes(n.o) \o Nodes(n.i)
        [] n.k = "list" -> Each(n.es)
        [] n.k = "map" -> Pairs(n.es)
        [] n.k = "data" -> Second(n.fs)
        [] n.k = "with" -> Nodes(n.o) \o Second(n.fs)
        [] n.k = "match" -> Nodes(n.e) \o FlattenSeq([i \in DOMAIN n.arms |-> Nodes(n.arms[i].guard) \o Nodes(n.arms[i].e)])
        [] n.k = "block" -> Each(n.ss)
        [] n.k = "if" -> Pairs(n.brs) \o Nodes(n.els)
        [] n.k \in {"while", "repeat"} -> Nodes(n.c) \o Nodes(n.b)
        [] n.k = "for" -> Nodes(n.s) \o Nodes(n.e) \o Nodes(n.st) \o Nodes(n.b)
        [] n.k = "try" -> Nodes(n.b) \o FlattenSeq([i \in DOMAIN n.cs |-> Nodes(n.cs[i].b)]) \o Nodes(n.f)
        [] OTHER -> <<>>
=============================================================================
