------------------------------ MODULE ExprGen --------------------------------
(***************************************************************************)
(* From the parsed tree to IR: check_expr of sema.c fills in the types and  *)
(* inserts the implicit casts, gen_expr and gen_lvalue of irgen.c emit the  *)
(* instructions.  Scopes are resolved here by two constant functions: every *)
(* name has one type.                                                       *)
(***************************************************************************)
EXTENDS ExprParse

CONSTANT VarType    \* the type of each variable

Variables == DOMAIN VarType

-----------------------------------------------------------------------------
(* sema.c: check_expr *)

make_cast(e, t) ==
  IF e.ty = t THEN e ELSE [CastNode(t, e) EXCEPT !.ty = t]

LiteralType(suffix) ==
  CASE suffix = "ul" -> TULong
    [] suffix = "l" -> TLong
    [] suffix = "u" -> TUInt
    [] OTHER -> TInt

Comparisons == {"==", "!=", "<", "<=", ">", ">="}

\* node->type of a binary operator over decayed types s and t, and the type
\* both operands are converted to (NoType: no conversion).
BinopType(op, s, t) ==
  LET common == usual_arithmetic(s, t)
      Ty(ty, conv) == [ty |-> ty, common |-> conv]
  IN CASE op \in Comparisons -> Ty(TInt, common)
       [] op \in {"&&", "||"} -> Ty(TInt, NoType)
       [] op = "+" /\ IsPointer(s) -> Ty(s, NoType)
       [] op = "+" /\ IsPointer(t) -> Ty(t, NoType)
       [] op = "-" /\ IsPointer(s) /\ IsPointer(t) -> Ty(TLong, NoType)
       [] op = "-" /\ IsPointer(s) -> Ty(s, NoType)
       [] OTHER -> Ty(common, common)

Converted(e, common) ==
  IF /\ common # decay(e.ty)
     /\ type_is_arithmetic(decay(e.ty)) /\ type_is_arithmetic(common)
  THEN make_cast(e, common) ELSE e

UnopType(op, e) ==
  LET t == decay(e.ty)
  IN CASE op \in {"-", "+", "~"} -> integer_promote(t)
       [] op = "!" -> TInt
       [] op = "&" -> type_pointer(e.ty)
       [] op = "*" -> IF IsPointer(t) THEN t.pointee ELSE TInt
       [] op \in {"++", "--"} -> t

\* The right side of an assignment, converted.
AssignedValue(op, left, right) ==
  IF /\ op # "="
     /\ type_is_arithmetic(left.ty) /\ type_is_arithmetic(right.ty)
  THEN make_cast(right, usual_arithmetic(left.ty, right.ty))
  ELSE make_cast(right, left.ty)

TernaryType(s, t) ==
  IF type_is_arithmetic(s) /\ type_is_arithmetic(t) THEN usual_arithmetic(s, t)
  ELSE s

RECURSIVE check_expr(_)

check_binop(n) ==
  LET l == check_expr(n.l)
      r == check_expr(n.r)
      b == BinopType(n.op, decay(l.ty), decay(r.ty))
  IN [n EXCEPT !.ty = b.ty, !.l = Converted(l, b.common),
               !.r = Converted(r, b.common)]

check_assign(n) ==
  LET l == check_expr(n.l)
  IN [n EXCEPT !.l = l, !.r = AssignedValue(n.op, l, check_expr(n.r)),
               !.ty = l.ty]

check_ternary(n) ==
  LET t == check_expr(n.t)
      f == check_expr(n.f)
  IN [n EXCEPT !.c = check_expr(n.c), !.t = t, !.f = f,
               !.ty = TernaryType(decay(t.ty), decay(f.ty))]

check_subscript(n) ==
  LET l == check_expr(n.l)
      t == decay(l.ty)
  IN [n EXCEPT !.l = l, !.r = check_expr(n.r),
               !.ty = IF IsPointer(t) THEN t.pointee ELSE TInt]

\* An undeclared name is an int, with no error.
check_expr(n) ==
  CASE n.k = "lit" -> [n EXCEPT !.ty = LiteralType(n.suf)]
    [] n.k = "ident" ->
         [n EXCEPT !.ty = IF n.name \in Variables THEN VarType[n.name] ELSE TInt]
    [] n.k = "unop" ->
         LET e == check_expr(n.arg) IN [n EXCEPT !.arg = e, !.ty = UnopType(n.op, e)]
    [] n.k = "postfix" ->
         LET e == check_expr(n.arg) IN [n EXCEPT !.arg = e, !.ty = decay(e.ty)]
    [] n.k = "binop" -> check_binop(n)
    [] n.k = "assign" -> check_assign(n)
    [] n.k = "ternary" -> check_ternary(n)
    [] n.k = "subscript" -> check_subscript(n)
    [] n.k = "cast" -> [n EXCEPT !.arg = check_expr(n.arg), !.ty = n.to]
    [] n.k = "comma" ->
         LET r == check_expr(n.r)
         IN [n EXCEPT !.l = check_expr(n.l), !.r = r, !.ty = r.ty]
    [] n.k = "sizeof_expr" -> [n EXCEPT !.arg = check_expr(n.arg), !.ty = TULong]
    [] n.k = "sizeof_type" -> [n EXCEPT !.ty = TULong]

-----------------------------------------------------------------------------
(* IR: an operand is a temp, a constant or the address of a variable; every *)
(* instruction has the same fields, with None or 0 for the ones it lacks.   *)

None == [kind |-> "none", ty |-> NoType]
irv_temp(i, t) == [kind |-> "temp", id |-> i, ty |-> t]
irv_int(c, t) == [kind |-> "int", c |-> c, ty |-> t]
AddressOf(x) == [kind |-> "address", name |-> x, ty |-> type_pointer(VarType[x])]

Instr(op, dst, a, b, lab) == [op |-> op, dst |-> dst, a |-> a, b |-> b, lab |-> lab]

\* The generator: code emitted, temps and labels handed out.
NewGen == [code |-> << >>, temps |-> 0, labels |-> 0]
Emit(g, i) == [g EXCEPT !.code = Append(@, i)]
ir_emit(g, op, dst, a, b) == Emit(g, Instr(op, dst, a, b, 0))
ir_emit_label(g, lab) == Emit(g, Instr("LABEL", None, None, None, lab))
ir_emit_jmp(g, lab) == Emit(g, Instr("JMP", None, None, None, lab))
ir_emit_cond(g, op, v, lab) == Emit(g, Instr(op, None, v, None, lab))

\* Code so far, and the operand that holds the value.
Gives(g, v) == [g |-> g, v |-> v]

\* A new temp of type t computed by one instruction.
Compute(g, op, t, a, b) ==
  LET dst == irv_temp(g.temps, t)
  IN Gives(ir_emit([g EXCEPT !.temps = @ + 1], op, dst, a, b), dst)

gen_load(g, addr, t) == Compute(g, "LOAD", t, addr, None)
gen_store(g, addr, v) == ir_emit(g, "STORE", addr, v, None)

tok_to_ir_binop(op) ==
  CASE op = "+" -> "ADD" [] op = "-" -> "SUB" [] op = "*" -> "MUL"
    [] op = "/" -> "DIV" [] op = "%" -> "MOD" [] op = "&" -> "AND"
    [] op = "|" -> "OR" [] op = "^" -> "XOR" [] op = "<<" -> "SHL"
    [] op = ">>" -> "SHR" [] op = "==" -> "EQ" [] op = "!=" -> "NE"
    [] op = "<" -> "LT" [] op = "<=" -> "LE" [] op = ">" -> "GT"
    [] op = ">=" -> "GE"

compound_base(op) ==
  CASE op = "+=" -> "+" [] op = "-=" -> "-" [] op = "*=" -> "*"
    [] op = "/=" -> "/" [] op = "%=" -> "%" [] op = "&=" -> "&"
    [] op = "|=" -> "|" [] op = "^=" -> "^" [] op = "<<=" -> "<<"
    [] op = ">>=" -> ">>"

pointer_pointee_size(t) ==
  IF ~IsPointer(t) THEN 1
  ELSE IF type_sizeof(t.pointee) > 0 THEN type_sizeof(t.pointee) ELSE 1

\* A mutation: an index counts bytes.
Unscaled(g, v, size) == Gives(g, v)

\* v times a pointee size, unless that is 1.
Scaled(g, v, size) ==
  IF size = 1 THEN Gives(g, v)
  ELSE Compute(g, "MUL", TLong, v, irv_int(size, TLong))

\* The conversion a cast between two types is compiled to.
Conversion(from, to) ==
  LET fs == type_sizeof(from)
      ts == type_sizeof(to)
  IN IF type_is_integer(from) /\ to.kind \in FloatKinds THEN "ITOF"
     ELSE IF from.kind \in FloatKinds /\ type_is_integer(to) THEN "FTOI"
     ELSE IF ~(type_is_integer(from) /\ type_is_integer(to)) THEN "COPY"
     ELSE IF ts > fs THEN (IF type_is_signed(from) THEN "SEXT" ELSE "ZEXT")
     ELSE IF ts < fs THEN "TRUNC"
     ELSE IF ts < 8 /\ type_is_signed(from) # type_is_signed(to) THEN "TRUNC"
     ELSE "COPY"

\* A mutation: the third label is the first of the next expression.
ForkTwoLabels(g) == [g EXCEPT !.temps = @ + 1, !.labels = @ + 2]

\* A result temp and three labels, for && || and ?:.
Fork(g) == [g EXCEPT !.temps = @ + 1, !.labels = @ + 3]

RECURSIVE gen_expr(_, _), gen_lvalue(_, _)

gen_subscript(g, n) ==
  LET base == gen_expr(g, n.l)
      idx == gen_expr(base.g, n.r)
      by == Scaled(idx.g, idx.v, IF type_sizeof(n.ty) > 0 THEN type_sizeof(n.ty) ELSE 1)
  IN Compute(by.g, "ADD", type_pointer(n.ty), base.v, by.v)

\* The address of an lvalue; of anything else, its value is taken for one.
gen_lvalue(g, n) ==
  CASE n.k = "ident" -> Gives(g, AddressOf(n.name))
    [] n.k = "unop" /\ n.op = "*" -> gen_expr(g, n.arg)
    [] n.k = "subscript" -> gen_subscript(g, n)
    [] OTHER -> gen_expr(g, n)

gen_ident(g, n) ==
  IF n.ty.kind = "array" THEN Gives(g, AddressOf(n.name))
  ELSE gen_load(g, AddressOf(n.name), n.ty)

\* ++ and --: the address, the old and the new value.
Stepped(g, n) ==
  LET at == gen_lvalue(g, n.arg)
      old == gen_load(at.g, at.v, n.ty)
      new == Compute(old.g, IF n.op = "++" THEN "ADD" ELSE "SUB", n.ty, old.v,
                     irv_int(pointer_pointee_size(n.ty), TInt))
  IN [g |-> gen_store(new.g, at.v, new.v), old |-> old.v, new |-> new.v]

gen_unop(g, n) ==
  LET e == gen_expr(g, n.arg)
  IN CASE n.op = "&" -> gen_lvalue(g, n.arg)
       [] n.op = "*" -> gen_load(e.g, e.v, n.ty)
       [] n.op \in {"++", "--"} ->
            LET st == Stepped(g, n) IN Gives(st.g, st.new)
       [] n.op = "-" -> Compute(e.g, "NEG", n.ty, e.v, None)
       [] n.op = "~" -> Compute(e.g, "NOT", n.ty, e.v, None)
       [] n.op = "!" -> Compute(e.g, "EQ", n.ty, e.v, irv_int(0, TInt))

\* result = value, at a label of its own
Outcome(g, lab, result, value) ==
  ir_emit(ir_emit_label(g, lab), "COPY", result, irv_int(value, TInt), None)

gen_logical(g0, n) ==
  LET g == Fork(g0)
      result == irv_temp(g0.temps, TInt)
      end == g0.labels
      false == g0.labels + 1
      true == g0.labels + 2
      lv == gen_expr(g, n.l)
      rv == gen_expr(ir_emit_cond(lv.g, IF n.op = "&&" THEN "JZ" ELSE "JNZ",
                                  lv.v, IF n.op = "&&" THEN false ELSE true), n.r)
      tested == ir_emit_cond(rv.g, "JNZ", rv.v, true)
      zero == IF n.op = "&&" THEN Outcome(ir_emit_jmp(tested, false), false, result, 0)
              ELSE ir_emit(tested, "COPY", result, irv_int(0, TInt), None)
      one == Outcome(ir_emit_jmp(zero, end), true, result, 1)
  IN Gives(ir_emit_label(one, end), result)

\* Arithmetic where one operand has a pointer type.  The types are those of
\* the operands as they stand: an array has not decayed here.
gen_pointer_arith(g, n, lv, rv) ==
  LET lt == n.l.ty
      rt == n.r.ty
  IN CASE n.op = "+" /\ IsPointer(lt) ->
            LET by == Scaled(g, rv, pointer_pointee_size(lt))
            IN Compute(by.g, "ADD", n.ty, lv, by.v)
       [] n.op = "+" /\ ~IsPointer(lt) ->
            LET by == Scaled(g, lv, pointer_pointee_size(rt))
            IN Compute(by.g, "ADD", n.ty, rv, by.v)
       [] n.op = "-" /\ IsPointer(rt) ->
            LET size == pointer_pointee_size(lt)
                diff == Compute(g, "SUB", n.ty, lv, rv)
            IN IF size = 1 THEN diff
               ELSE Compute(diff.g, "DIV", n.ty, diff.v, irv_int(size, TLong))
       [] OTHER ->
            LET by == Scaled(g, rv, pointer_pointee_size(lt))
            IN Compute(by.g, "SUB", n.ty, lv, by.v)

PointerArith(n) ==
  \/ n.op = "+" /\ IsPointer(n.l.ty) # IsPointer(n.r.ty)
  \/ n.op = "-" /\ IsPointer(n.l.ty)

gen_binop(g, n) ==
  LET lv == gen_expr(g, n.l)
      rv == gen_expr(lv.g, n.r)
  IN IF n.op \in {"&&", "||"} THEN gen_logical(g, n)
     ELSE IF PointerArith(n) THEN gen_pointer_arith(rv.g, n, lv.v, rv.v)
     ELSE Compute(rv.g, tok_to_ir_binop(n.op), n.ty, lv.v, rv.v)

\* Compound assignment computes in the type of the left side.
gen_assign(g, n) ==
  LET at == gen_lvalue(g, n.l)
      old == gen_load(at.g, at.v, n.ty)
      rv == gen_expr(IF n.op = "=" THEN at.g ELSE old.g, n.r)
      by == IF n.op \in {"+=", "-="} THEN Scaled(rv.g, rv.v, pointer_pointee_size(n.ty))
            ELSE rv
      new == IF n.op = "=" THEN rv
             ELSE Compute(by.g, tok_to_ir_binop(compound_base(n.op)), n.ty, old.v, by.v)
  IN Gives(gen_store(new.g, at.v, new.v), new.v)

gen_ternary(g0, n) ==
  LET g == Fork(g0)
      result == irv_temp(g0.temps, n.ty)
      then == g0.labels
      else == g0.labels + 1
      end == g0.labels + 2
      c == gen_expr(g, n.c)
      t == gen_expr(ir_emit_label(ir_emit_cond(c.g, "JZ", c.v, else), then), n.t)
      taken == ir_emit_jmp(ir_emit(t.g, "COPY", result, t.v, None), end)
      f == gen_expr(ir_emit_label(taken, else), n.f)
  IN Gives(ir_emit_label(ir_emit(f.g, "COPY", result, f.v, None), end), result)

gen_cast(g, n) ==
  LET e == gen_expr(g, n.arg)
  IN IF n.arg.ty = n.to THEN e
     ELSE Compute(e.g, Conversion(n.arg.ty, n.to), n.to, e.v, None)

SizeValue(t) == irv_int(IF type_sizeof(t) < 0 THEN 0 ELSE type_sizeof(t), TULong)

gen_expr(g, n) ==
  CASE n.k = "lit" -> Gives(g, irv_int(n.val, n.ty))
    [] n.k = "ident" -> gen_ident(g, n)
    [] n.k = "unop" -> gen_unop(g, n)
    [] n.k = "postfix" -> LET st == Stepped(g, n) IN Gives(st.g, st.old)
    [] n.k = "binop" -> gen_binop(g, n)
    [] n.k = "assign" -> gen_assign(g, n)
    [] n.k = "ternary" -> gen_ternary(g, n)
    [] n.k = "subscript" -> LET at == gen_lvalue(g, n) IN gen_load(at.g, at.v, n.ty)
    [] n.k = "cast" -> gen_cast(g, n)
    [] n.k = "comma" -> gen_expr(gen_expr(g, n.l).g, n.r)
    [] n.k = "sizeof_expr" -> Gives(g, SizeValue(n.arg.ty))
    [] n.k = "sizeof_type" -> Gives(g, SizeValue(n.to))
=============================================================================
