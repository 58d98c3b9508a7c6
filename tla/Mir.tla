-------------------------------- MODULE Mir --------------------------------
(***************************************************************************)
(* The mid-level IR of the compiler: functions of basic blocks, and the    *)
(* FunctionBuilder that writes them (include/zl/mir, src/mir/builder.cpp). *)
(*                                                                         *)
(* A value is a pair <<kind, payload>>.  A type is its kind; arguments of  *)
(* generic types are left out.  Names of temporaries, slots, blocks and    *)
(* parameters are positions, counted from 1.                               *)
(***************************************************************************)
EXTENDS Naturals, Integers, Sequences, FiniteSets, SequencesExt

None           == [k |-> "none", v |-> <<"nil", 0>>, n |-> 0, ty |-> "void"]
Const(v, ty)   == [k |-> "const", v |-> v, n |-> 0, ty |-> ty]
Temp(n, ty)    == [k |-> "temp", v |-> <<"nil", 0>>, n |-> n, ty |-> ty]
Param(n, ty)   == [k |-> "param", v |-> <<"nil", 0>>, n |-> n, ty |-> ty]
BlockArg(n, ty) == [k |-> "arg", v |-> <<"nil", 0>>, n |-> n, ty |-> ty]
IsNone(o)      == o.k = "none"

Nil == <<"nil", 0>>

(* The members of a set of numbers in increasing order.                     *)
Sorted(S) == [i \in 1 .. Cardinality(S) |-> CHOOSE x \in S : Cardinality({y \in S : y <= x}) = i]

(* An instruction: operation, operands, the slot and the name it refers to, *)
(* its result temporary (0: none) and the result's type.                    *)
Instr(op, args, slot, tgt, res, ty) ==
  [op |-> op, args |-> args, slot |-> slot, tgt |-> tgt, res |-> res, ty |-> ty]

(* A terminator: its value, its successors, and for every successor the     *)
(* operands the edge binds to that block's parameters.                      *)
Term(k, v, to) == [k |-> k, v |-> v, to |-> to, edge |-> [i \in 1 .. Len(to) |-> <<>>]]
NoTerm  == Term("none", None, <<>>)
Jump(b) == Term("jump", None, <<b>>)
Branch(c, t, e) == Term("branch", c, <<t, e>>)
Return(v) == Term("return", v, <<>>)
Throw(v)  == Term("throw", v, <<>>)
Unreachable == Term("unreachable", None, <<>>)

Handler(ty, b, slot, fin) == [ty |-> ty, block |-> b, slot |-> slot, fin |-> fin]

Block(kind, hs) == [kind |-> kind, params |-> <<>>, ins |-> <<>>, term |-> NoTerm, hs |-> hs]

Slot(name, ty, mut, own) == [name |-> name, ty |-> ty, mut |-> mut, own |-> own, catch |-> FALSE]

(* A function under construction.  cur is the builder's current block.      *)
NewFunction(params, ret) ==
  [params |-> params, ret |-> ret, slots |-> <<>>, blocks |-> <<>>,
   cur |-> 0, temps |-> 0, incomplete |-> FALSE]

AddBlock(f, kind, hs) ==
  [f EXCEPT !.blocks = Append(@, Block(kind, hs)), !.cur = IF f.blocks = <<>> THEN 1 ELSE @]

AddSlot(f, name, ty, mut, own) == [f EXCEPT !.slots = Append(@, Slot(name, ty, mut, own))]

(* append and setResult: every emit function of the builder puts one        *)
(* instruction at the end of the current block, terminated or not.          *)
AppendIns(f, ins) == [f EXCEPT !.blocks[f.cur].ins = Append(@, ins)]
Emit(f, op, args, slot, tgt) == AppendIns(f, Instr(op, args, slot, tgt, 0, "void"))
EmitValue(f, op, args, slot, tgt, ty) ==
  AppendIns([f EXCEPT !.temps = @ + 1], Instr(op, args, slot, tgt, f.temps + 1, ty))

(* A second terminator replaces the first.                                  *)
SetTerm(f, t) == [f EXCEPT !.blocks[f.cur].term = t]

Successors(b) == {b.term.to[i] : i \in DOMAIN b.term.to}
UnwindTargets(b) == {b.hs[i].block : i \in DOMAIN b.hs}
Edges(f) == {<<b, t>> \in (DOMAIN f.blocks) \X (DOMAIN f.blocks) :
               t \in Successors(f.blocks[b]) \cup UnwindTargets(f.blocks[b])}

RECURSIVE ReachFrom(_, _)
ReachFrom(es, S) ==
  LET T == S \cup {e[2] : e \in {x \in es : x[1] \in S}}
  IN  IF T = S THEN S ELSE ReachFrom(es, T)

Reachable(f) == IF f.blocks = <<>> THEN {} ELSE ReachFrom(Edges(f), {1})

(* finish: an unterminated block becomes unreachable, then blocks no path   *)
(* from the entry reaches (unwinding included) are removed and the rest     *)
(* renumbered in order.                                                     *)
Finish(f) ==
  LET g == [f EXCEPT !.blocks = [b \in DOMAIN f.blocks |->
              IF f.blocks[b].term.k = "none" THEN [f.blocks[b] EXCEPT !.term = Unreachable] ELSE f.blocks[b]]]
      keep == Sorted(Reachable(g))
      new(b) == CHOOSE i \in DOMAIN keep : keep[i] = b
      renumber(b) == [b EXCEPT !.term.to = [i \in DOMAIN @ |-> new(@[i])],
                               !.hs = [i \in DOMAIN @ |-> [@[i] EXCEPT !.block = new(@)]]]
  IN  [g EXCEPT !.blocks = [i \in DOMAIN keep |-> renumber(g.blocks[keep[i]])], !.cur = 1]
=============================================================================
