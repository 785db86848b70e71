----------------------------- MODULE CSemantics ------------------------------
(***************************************************************************)
(* What C99 says an expression does: the reference Expr is checked against. *)
(* Types follow 6.3.1 and 6.5, values are mathematical integers, and every  *)
(* result carries                                                           *)
(*   q   how much of the register holding it the compiler gets right:       *)
(*       "exact": the register is the value, extended to 64 bits;           *)
(*       "low": only as many bits as the type has;                          *)
(*   s   memory, whether behaviour was undefined (ub), and whether the      *)
(*       evaluation stayed where the compiler follows C (ok).               *)
(* ok is lost exactly where a value that is only "low" is divided, shifted  *)
(* right, compared, tested, used as an index or, being unsigned int,        *)
(* widened, and in four other places, each marked below.                    *)
(***************************************************************************)
EXTENDS ExprParse, TLC

CONSTANTS
  VarType,   \* the type of each variable
  AddrOf     \* the address of each variable

LOCAL INSTANCE Bitwise

\* Memory: a number below 2^Bits[size] for the address of every scalar.
ScalarsOf(x) ==
  LET t == VarType[x]
  IN IF t.kind # "array" THEN AddrOf[x] :> t
     ELSE [a \in {AddrOf[x] + i * type_sizeof(t.elem) : i \in 0 .. t.count - 1}
             |-> t.elem]

RECURSIVE Merged(_)
Merged(xs) ==
  IF xs = {} THEN << >>
  ELSE LET x == CHOOSE x \in xs : TRUE IN ScalarsOf(x) @@ Merged(xs \ {x})

Cells == Merged(DOMAIN VarType)

-----------------------------------------------------------------------------
(* Types *)

Promoted(t) ==
  IF type_is_integer(t) /\ type_sizeof(t) < 4 THEN TInt ELSE t

\* 6.3.1.8 for promoted types: of the same signedness the higher rank; else
\* the unsigned type unless the signed one holds all its values.
Common(a, b) ==
  CASE a = b -> a
    [] type_is_signed(a) = type_is_signed(b) ->
         IF type_sizeof(a) >= type_sizeof(b) THEN a ELSE b
    [] type_is_signed(a) /\ ~type_is_signed(b) ->
         IF type_sizeof(a) > type_sizeof(b) THEN a ELSE b
    [] ~type_is_signed(a) /\ type_is_signed(b) ->
         IF type_sizeof(b) > type_sizeof(a) THEN b ELSE a

Balanced(s, t) == Common(Promoted(s), Promoted(t))

Shifts == {"<<", ">>"}

BinaryType(op, s, t) ==
  CASE op \in {"==", "!=", "<", "<=", ">", ">=", "&&", "||"} -> TInt
    [] op \in Shifts -> Promoted(s)
    [] op = "-" /\ IsPointer(s) /\ IsPointer(t) -> TLong
    [] IsPointer(s) -> s
    [] IsPointer(t) -> t
    [] OTHER -> Balanced(s, t)

RECURSIVE TypeOf(_)
TypeOf(n) ==
  CASE n.k = "lit" -> CASE n.suf = "ul" -> TULong [] n.suf = "l" -> TLong
                        [] n.suf = "u" -> TUInt [] OTHER -> TInt
    [] n.k = "ident" -> VarType[n.name]
    [] n.k = "unop" ->
         LET t == decay(TypeOf(n.arg))
         IN CASE n.op \in {"-", "~"} -> Promoted(t)
              [] n.op = "!" -> TInt
              [] n.op = "&" -> type_pointer(TypeOf(n.arg))
              [] n.op = "*" -> t.pointee
              [] OTHER -> t
    [] n.k = "postfix" -> TypeOf(n.arg)
    [] n.k = "binop" -> BinaryType(n.op, decay(TypeOf(n.l)), decay(TypeOf(n.r)))
    [] n.k = "assign" -> TypeOf(n.l)
    [] n.k = "ternary" ->
         LET s == decay(TypeOf(n.t))
         IN IF type_is_arithmetic(s) THEN Balanced(s, decay(TypeOf(n.f))) ELSE s
    [] n.k = "subscript" -> decay(TypeOf(n.l)).pointee
    [] n.k = "cast" -> n.to
    [] n.k = "comma" -> decay(TypeOf(n.r))
    [] n.k \in {"sizeof_expr", "sizeof_type"} -> TULong

Size(t) == type_sizeof(t)
Bound(t) == 2 ^ Bits[Size(t)]
Fits(v, t) ==
  IF type_is_signed(t) THEN 2 * v >= -Bound(t) /\ 2 * v < Bound(t)
  ELSE v >= 0 /\ v < Bound(t)

-----------------------------------------------------------------------------
(* Results *)

Res(v, t, q, s) == [v |-> v, t |-> t, q |-> q, s |-> s]
Undefined(s) == Res(0, TInt, "exact", [s EXCEPT !.ub = TRUE])
Require(good, r) == IF good THEN r ELSE [r EXCEPT !.s.ok = FALSE]
Define(good, r) == IF good THEN r ELSE [r EXCEPT !.s.ub = TRUE]

\* In 8 bytes the low bits are the whole register.
Quality(good, t) == IF good \/ Size(t) = 8 THEN "exact" ELSE "low"
AllExact(r) == r.q = "exact" \/ Size(r.t) = 8

\* v brought into t: unsigned wraps; signed must fit, or is undefined.
Wrapped(v, t, s) == Res(ValueAs(v, t), t, Quality(Fits(v, t), t), s)
Arithmetic(v, t, s) == Define(Fits(v, t) \/ ~type_is_signed(t), Wrapped(v, t, s))

\* A conversion the compiler emits (6.3.1.3).  A narrowing one, or one that
\* changes signedness only, makes a low value exact; so does a sign or
\* zero extension, but for the one from 4 unsigned bytes, and but for a
\* negative number, whose sign extension goes beyond unsigned int.
Convert(r, t) ==
  LET size == Size(t)
      from == Size(r.t)
      turns == size < 8 /\ type_is_signed(t) # type_is_signed(r.t)
  IN CASE t = r.t \/ ~type_is_integer(t) \/ ~type_is_integer(r.t) ->
            Res(r.v, t, r.q, r.s)
       [] size < from \/ (size = from /\ turns) ->
            Res(ValueAs(r.v, t), t, "exact", r.s)
       [] size > from ->
            Require(AllExact(r) \/ type_is_signed(r.t) \/ from < 4,
                    Res(ValueAs(r.v, t), t, Quality(Fits(r.v, t), t), r.s))
       [] OTHER -> Res(ValueAs(r.v, t), t, r.q, r.s)

\* A conversion C asks for and the compiler does not emit: a branch of ?:
\* (sema.c:325-330), the operand of unary - and ~ (sema.c:211-219), the
\* left side of a compound assignment (sema.c:309-311).  The register keeps
\* the old extension.
Reinterpret(r, t) ==
  LET w == Res(ValueAs(r.v, t), t, Quality(AllExact(r) /\ Fits(r.v, t), t), r.s)
  IN Require(AllExact(r) \/ Size(t) <= Size(r.t), w)

-----------------------------------------------------------------------------
(* Evaluation *)

Quotient(x, y) ==
  LET a == IF x < 0 THEN -x ELSE x
      b == IF y < 0 THEN -y ELSE y
  IN IF (x < 0) = (y < 0) THEN a \div b ELSE -(a \div b)

Truth(b) == IF b THEN 1 ELSE 0

Compared(op, x, y) ==
  CASE op = "==" -> x = y [] op = "!=" -> x # y [] op = "<" -> x < y
    [] op = "<=" -> x <= y [] op = ">" -> x > y [] op = ">=" -> x >= y

\* x op y over values of type t, through the bits of t.
OnBits(op, x, y, t) ==
  LET a == LowBits(x, Bits[Size(t)])
      b == LowBits(y, Bits[Size(t)])
  IN ValueAs(CASE op = "&" -> a & b [] op = "|" -> a | b [] op = "^" -> a ^^ b, t)

\* Both below 2^63: the compiler divides and shifts right as if signed
\* (codegen.c:532, 548-551).
Positive(v) == 2 * v < 2 ^ W

\* Two values of type t under an arithmetic operator other than a shift.
Operate(op, x, y, t, s) ==
  CASE op = "+" -> Arithmetic(x.v + y.v, t, s)
    [] op = "-" -> Arithmetic(x.v - y.v, t, s)
    [] op = "*" -> Arithmetic(x.v * y.v, t, s)
    [] op \in {"&", "|", "^"} ->
         Res(OnBits(op, x.v, y.v, t), t, Quality(AllExact(x) /\ AllExact(y), t), s)
    [] op \in {"/", "%"} ->
         IF y.v = 0 THEN Undefined(s)
         ELSE LET d == Quotient(x.v, y.v)
              IN Require(AllExact(x) /\ AllExact(y) /\ Positive(x.v) /\ Positive(y.v),
                   Define(Fits(d, t),
                     Wrapped(IF op = "/" THEN d ELSE x.v - d * y.v, t, s)))

\* x shifted by y; the type is x's.
Shift(op, x, y, s) ==
  IF y.v < 0 \/ y.v >= Bits[Size(x.t)] THEN Undefined(s)
  ELSE Require(AllExact(y),
    IF op = "<<"
    THEN Define(x.v >= 0 \/ ~type_is_signed(x.t),
                Arithmetic(x.v * 2 ^ y.v, x.t, s))
    ELSE Require(AllExact(x) /\ Positive(x.v),
                 Wrapped(x.v \div 2 ^ y.v, x.t, s)))

\* A low operand of a ring operation leaves the low bits of the result right,
\* and no more.
Low(r, x, y) == IF AllExact(x) /\ AllExact(y) THEN r
                ELSE [r EXCEPT !.q = Quality(FALSE, r.t)]

\* Pointer p moved by d elements: to an element of its array (the address
\* past the last is not needed here).
Moved(p, d, s) ==
  LET a == p.v + d.v * Size(p.t.pointee)
  IN Require(AllExact(d), Define(a \in DOMAIN Cells, Res(a, p.t, "exact", s)))

Comparisons == {"==", "!=", "<", "<=", ">", ">="}
Minus(r) == [r EXCEPT !.v = -@]

\* Operators on pointers, decayed from lt and rt.  An array is not scaled as
\* a pointer is (irgen.c:840-889), unless its elements are bytes.
OnPointers(op, x, y, lt, rt) ==
  LET scaled == \A u \in {lt, rt} : u.kind = "array" => Size(u.elem) = 1
      d == x.v - y.v
  IN IF op \in Comparisons
     THEN Res(Truth(Compared(op, x.v, y.v)), TInt, "exact", y.s)
     ELSE Require(scaled,
       CASE IsPointer(x.t) /\ IsPointer(y.t) ->
              Define(d % Size(x.t.pointee) = 0,
                     Res(Quotient(d, Size(x.t.pointee)), TLong, "exact", y.s))
         [] IsPointer(x.t) -> Moved(x, IF op = "+" THEN y ELSE Minus(y), y.s)
         [] OTHER -> Moved(y, x, y.s))

\* Operators on numbers; cx and cy are x and y in their common type, in which
\* the compiler makes shifts too (sema.c:286-288).
OnNumbers(op, x, y, cx, cy, s) ==
  CASE op \in Comparisons ->
         Require(AllExact(cx) /\ AllExact(cy),
                 Res(Truth(Compared(op, cx.v, cy.v)), TInt, "exact", s))
    [] op \in Shifts ->
         Require(cx.t = Promoted(x.t), Low(Shift(op, Convert(x, Promoted(x.t)), y, s), x, x))
    [] OTHER -> Low(Operate(op, cx, cy, cx.t, s), cx, cy)

BothOk(s, cx, cy) == [s EXCEPT !.ok = @ /\ cx.s.ok /\ cy.s.ok]
InCommon(op, x, y, cx, cy) == OnNumbers(op, x, y, cx, cy, BothOk(y.s, cx, cy))

\* The operators that need both values.
Binary(op, x, y, lt, rt) ==
  IF y.s.ub THEN Undefined(y.s)
  ELSE IF IsPointer(x.t) \/ IsPointer(y.t) THEN OnPointers(op, x, y, lt, rt)
  ELSE InCommon(op, x, y, Convert(x, Balanced(x.t, y.t)), Convert(y, Balanced(x.t, y.t)))

Fetch(a, t, s) ==
  IF a \notin DOMAIN s.mem THEN Undefined(s)
  ELSE Res(ValueAs(s.mem[a], t), t, "exact", s)

Stored(a, r) ==
  IF a \notin DOMAIN r.s.mem THEN Undefined(r.s)
  ELSE [r EXCEPT !.s.mem[a] = LowBits(r.v, Bits[Size(r.t)])]

RECURSIVE Eval(_, _), Place(_, _)

MovedBy(p, d) == Moved(p, d, d.s)
Indexed(n, p) == MovedBy(p, Eval(n.r, p.s))

\* The address of an lvalue.
Place(n, s) ==
  CASE n.k = "ident" -> Res(AddrOf[n.name], type_pointer(VarType[n.name]), "exact", s)
    [] n.k = "unop" -> Eval(n.arg, s)
    [] n.k = "subscript" -> Indexed(n, Eval(n.l, s))

\* z converted to the type of the variable it goes to.
Back(z, t) ==
  Res(ValueAs(z.v, t), t, Quality(Fits(z.v, t) /\ AllExact(z), t), z.s)

\* x op y, with x read as another type: only the operators that make low
\* bits from low bits do not mind if that changes its value.
Combined(op, t, old, x, y) ==
  Require(x.v = old.v \/ op \in {"+", "-", "*", "&", "|", "^"},
          Back(IF op \in Shifts THEN Shift(op, x, y, x.s)
               ELSE Low(Operate(op, x, y, x.t, BothOk(y.s, x, y)), x, y), t))

\* The object of type t at a, with the value old, after op= r.
Assigned(op, t, a, old, r) ==
  LET common == IF op \in Shifts THEN Promoted(t) ELSE Balanced(t, r.t)
  IN Stored(a,
       CASE op = "=" -> Convert(r, t)
         [] op # "=" /\ IsPointer(t) -> Moved(old, IF op = "+" THEN r ELSE Minus(r), r.s)
         [] OTHER -> Combined(op, t, old, Reinterpret([old EXCEPT !.s = r.s], common),
                              IF op \in Shifts THEN r ELSE Convert(r, common)))

\* lvalue op= value, for = (the value replaces), op and ++ --.
UpdateAt(op, t, at, right) ==
  Assigned(op, t, at.v, Fetch(at.v, t, at.s), Eval(right, at.s))
Update(op, n, right, s) == UpdateAt(op, TypeOf(n.l), Place(n.l, s), right)

One == LitNode(1, "")
Base(op) ==
  CASE op = "=" -> "=" [] op \in {"+=", "++"} -> "+" [] op \in {"-=", "--"} -> "-"
    [] op = "*=" -> "*" [] op = "/=" -> "/" [] op = "%=" -> "%" [] op = "&=" -> "&"
    [] op = "|=" -> "|" [] op = "^=" -> "^" [] op = "<<=" -> "<<" [] op = ">>=" -> ">>"

Step(n, s) == Update(Base(n.op), [l |-> n.arg], One, s)

Negative(x) == Low(Arithmetic(-x.v, x.t, x.s), x, x)
Complement(x) == Low(Wrapped(-x.v - 1, x.t, x.s), x, x)

Unary(op, r) ==
  CASE op = "*" -> Fetch(r.v, r.t.pointee, r.s)
    [] op = "-" -> Negative(Reinterpret(r, Promoted(r.t)))
    [] op = "~" -> Complement(Reinterpret(r, Promoted(r.t)))
    [] op = "!" -> Require(AllExact(r), Res(Truth(r.v = 0), TInt, "exact", r.s))

Decided(x) == Require(AllExact(x), Res(Truth(x.v # 0), TInt, "exact", x.s))

\* && and ||, with the left side evaluated
Logical(n, l) ==
  IF (l.v = 0) = (n.op = "&&") THEN Decided(l)
  ELSE Require(AllExact(l), Decided(Eval(n.r, l.s)))

AsType(r, t) == IF IsPointer(t) THEN r ELSE Reinterpret(r, t)

\* ?:, with the condition evaluated
Branch(n, c) ==
  Require(AllExact(c), AsType(Eval(IF c.v # 0 THEN n.t ELSE n.f, c.s), TypeOf(n)))

\* A binary operator, with the left side evaluated
OnRight(n, x) == Binary(n.op, x, Eval(n.r, x.s), TypeOf(n.l), TypeOf(n.r))

\* What an lvalue holds.
ValueAt(at, t) == Fetch(at.v, t, at.s)
Value(n, s) == ValueAt(Place(n, s), TypeOf(n))

Eval(n, s) ==
  IF s.ub THEN Undefined(s)
  ELSE CASE n.k = "lit" -> Res(n.val, TypeOf(n), "exact", s)
         [] n.k = "ident" /\ VarType[n.name].kind = "array" ->
              Res(AddrOf[n.name], decay(VarType[n.name]), "exact", s)
         [] n.k = "ident" -> Fetch(AddrOf[n.name], VarType[n.name], s)
         [] n.k = "unop" /\ n.op = "&" -> Place(n.arg, s)
         [] n.k = "unop" /\ n.op \in {"++", "--"} -> Step(n, s)
         [] n.k = "unop" -> Unary(n.op, Eval(n.arg, s))
         [] n.k = "postfix" -> [Value(n.arg, s) EXCEPT !.s = Step(n, s).s]
         [] n.k = "binop" /\ n.op \in {"&&", "||"} -> Logical(n, Eval(n.l, s))
         [] n.k = "binop" -> OnRight(n, Eval(n.l, s))
         [] n.k = "assign" -> Update(Base(n.op), n, n.r, s)
         [] n.k = "ternary" -> Branch(n, Eval(n.c, s))
         [] n.k = "subscript" -> Value(n, s)
         [] n.k = "cast" -> Convert(Eval(n.arg, s), n.to)
         [] n.k = "comma" -> Eval(n.r, Eval(n.l, s).s)
         [] n.k = "sizeof_expr" -> Res(Size(TypeOf(n.arg)), TULong, "exact", s)
         [] n.k = "sizeof_type" -> Res(Size(n.to), TULong, "exact", s)

\* Expression n from memory mem.
Meaning(n, mem) == Eval(n, [mem |-> mem, ub |-> FALSE, ok |-> TRUE])
=============================================================================
