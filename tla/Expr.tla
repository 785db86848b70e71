-------------------------------- MODULE Expr ---------------------------------
(***************************************************************************)
(* One expression from tokens to a result: parsed (ExprParse), checked and  *)
(* compiled (ExprGen), then run.  IrStep is one IR instruction as           *)
(* codegen_func expands it: operands loaded from stack slots or immediates  *)
(* into 64-bit registers, one or two machine instructions, the result       *)
(* stored to a slot.  CSemantics says what the outcome should be.           *)
(***************************************************************************)
EXTENDS ExprGen, TLC

CONSTANTS
  AddrOf,     \* the address of each variable
  Starts,     \* Starts[a]: what a scalar may hold at the start, by address
  Trees,      \* the expressions to compile and run
  Parses      \* expressions to parse only, whole and with one token left out

LOCAL INSTANCE Bitwise

VARIABLES
  input,   \* [tree, tokens, whole, run]: the expression, what is written of
           \* it, whether that is all of it, and whether it is to be run
  start,   \* memory at the start
  phase,   \* "tokens", "parsed", "checked", "running", "done", "trapped"
  parsed,  \* result of parse_expr: tree and parser state
  ast,     \* the checked tree
  code,    \* the IR
  value,   \* the operand that holds the result
  pc,      \* index of the next instruction
  slots,   \* contents of the stack slots written so far, by temp
  mem      \* memory: a number for the address of every scalar

vars == <<input, start, phase, parsed, ast, code, value, pc, slots, mem>>

C == INSTANCE CSemantics

RECURSIVE NamesIn(_)
NamesIn(n) ==
  CASE n.k = "ident" -> {n.name}
    [] n.k \in {"lit", "sizeof_type"} -> {}
    [] n.k \in {"unop", "postfix", "cast", "sizeof_expr"} -> NamesIn(n.arg)
    [] n.k = "ternary" -> NamesIn(n.c) \union NamesIn(n.t) \union NamesIn(n.f)
    [] OTHER -> NamesIn(n.l) \union NamesIn(n.r)

\* Memories that differ in the variables expression n names only.
StartsFor(n) ==
  LET named == {AddrOf[x] : x \in NamesIn(n)}
  IN {[a \in DOMAIN C!Cells |-> IF a \in named THEN f[a]
                               ELSE CHOOSE v \in Starts[a] : TRUE]
        : f \in {g \in [named -> UNION {Starts[a] : a \in named}] :
                   \A a \in named : g[a] \in Starts[a]}}

\* s without its element i; all of s for 0.
Without(s, i) ==
  IF i = 0 THEN s ELSE SubSeq(s, 1, i - 1) \o SubSeq(s, i + 1, Len(s))
Tokens(n) == Append(Written(n, 0), EOF)

Init ==
  /\ \/ \E n \in Trees :
           /\ input = [tree |-> n, tokens |-> Tokens(n), whole |-> TRUE, run |-> TRUE]
           /\ start \in StartsFor(n)
     \/ \E n \in Parses : \E i \in 0 .. Len(Tokens(n)) - 1 :
           /\ input = [tree |-> n, tokens |-> Without(Tokens(n), i), whole |-> i = 0,
                       run |-> FALSE]
           /\ start = [a \in DOMAIN C!Cells |-> 0]
  /\ phase = "tokens"
  /\ parsed = Parsed(LitNode(0, ""), [p |-> 1, errs |-> 0])
  /\ ast = LitNode(0, "")
  /\ code = << >>
  /\ value = None
  /\ pc = 1
  /\ slots = << >>
  /\ mem = start

\* parse_expr(p, 0), what parses an expression statement.
Parse ==
  /\ phase = "tokens"
  /\ parsed' = parse_expr(input.tokens, [p |-> 1, errs |-> 0], 0)
  /\ phase' = "parsed"
  /\ UNCHANGED <<input, start, ast, code, value, pc, slots, mem>>

Check ==
  /\ phase = "parsed" /\ input.run
  /\ ast' = check_expr(parsed.n)
  /\ phase' = "checked"
  /\ UNCHANGED <<input, start, parsed, code, value, pc, slots, mem>>

Gen ==
  /\ phase = "checked"
  /\ LET e == gen_expr(NewGen, ast) IN code' = e.g.code /\ value' = e.v
  /\ phase' = "running"
  /\ UNCHANGED <<input, start, parsed, ast, pc, slots, mem>>

-----------------------------------------------------------------------------
(* codegen.c *)

\* load_reg.  A slot not yet written holds what the stack holds: 0 here;
\* OperandsWritten says it is never read.
load_reg(v) ==
  CASE v.kind = "temp" -> IF v.id \in DOMAIN slots THEN slots[v.id] ELSE 0
    [] v.kind = "int" -> Word(v.c)
    [] v.kind = "address" -> AddrOf[v.name]

Signed(x) == AsSigned(x, W)

SizeOr8(t) == IF type_sizeof(t) > 0 THEN type_sizeof(t) ELSE 8

ArithOps == {"ADD", "SUB", "MUL", "AND", "OR", "XOR", "SHL", "SHR"}
CompareOps == {"EQ", "NE", "LT", "LE", "GT", "GE"}

\* addq, subq, imulq, andq, orq, xorq, salq, sarq: 64 bits, whatever the type.
Arithmetic(op, x, y) ==
  CASE op = "ADD" -> Word(x + y)
    [] op = "SUB" -> Word(x - y)
    [] op = "MUL" -> Word(x * y)
    [] op = "AND" -> x & y
    [] op = "OR" -> x | y
    [] op = "XOR" -> x ^^ y
    [] op = "SHL" -> Word(x * 2 ^ (y % W))
    [] op = "SHR" -> Word(Signed(x) \div 2 ^ (y % W))

UseUnsigned(i) ==
  type_is_unsigned_integer(i.a.ty) \/ type_is_unsigned_integer(i.b.ty)

\* cmpq and setcc.
Compare(i, x, y) ==
  LET a == IF UseUnsigned(i) THEN x ELSE Signed(x)
      b == IF UseUnsigned(i) THEN y ELSE Signed(y)
      holds == CASE i.op = "EQ" -> a = b [] i.op = "NE" -> a # b
                 [] i.op = "LT" -> a < b [] i.op = "LE" -> a <= b
                 [] i.op = "GT" -> a > b [] i.op = "GE" -> a >= b
  IN IF holds THEN 1 ELSE 0

\* SEXT: movs from the source's size.
SignExtend(x, from) == Extended(x, SizeOr8(from), TRUE)

\* ZEXT: movz for 1 and 2 bytes; for 4 the 64-bit register as loaded.
ZeroExtend(x, from) ==
  IF SizeOr8(from) = 4 THEN x ELSE Extended(x, SizeOr8(from), FALSE)

\* A mutation: TRUNC always sign-extends.
TruncateSigned(x, to) == Extended(x, type_sizeof(to), TRUE)

Truncate(x, to) == Extended(x, type_sizeof(to), type_is_signed(to))

\* idivq of the sign-extended dividend; it traps on 0 and on overflow.
Divides(x, y) == y # 0 /\ ~(Signed(x) = -(2 ^ (W - 1)) /\ Signed(y) = -1)
Quotient(x, y) == C!Quotient(Signed(x), Signed(y))

\* What goes to the destination slot, for instructions that have one.
Result(i) ==
  LET x == load_reg(i.a)
      y == load_reg(i.b)
  IN CASE i.op \in ArithOps -> Arithmetic(i.op, x, y)
       [] i.op \in CompareOps -> Compare(i, x, y)
       [] i.op = "DIV" -> Word(Quotient(x, y))
       [] i.op = "MOD" -> Word(Signed(x) - Signed(y) * Quotient(x, y))
       [] i.op = "NEG" -> Word(-x)
       [] i.op = "NOT" -> Word(-x - 1)
       [] i.op = "COPY" -> x
       [] i.op = "SEXT" -> SignExtend(x, i.a.ty)
       [] i.op = "ZEXT" -> ZeroExtend(x, i.a.ty)
       [] i.op = "TRUNC" -> Truncate(x, i.dst.ty)

Unary == {"NEG", "NOT", "COPY", "SEXT", "ZEXT", "TRUNC"}

\* An access the object at that address does not answer is a fault here.
Accessible(a, t) == a \in DOMAIN mem /\ SizeOr8(C!Cells[a]) = SizeOr8(t)

\* movs/movz from memory by the size and signedness of the destination.
Loaded(i) == Extended(mem[load_reg(i.a)], SizeOr8(i.dst.ty), type_is_signed(i.dst.ty))

\* The type an IR_STORE writes: the pointee of the address, if it has one.
StoredType(i) == IF IsPointer(i.dst.ty) THEN i.dst.ty.pointee ELSE i.a.ty

Places(j, lab) == code[j].op = "LABEL" /\ code[j].lab = lab
LabelAt(lab) == CHOOSE j \in 1 .. Len(code) : Places(j, lab)

Traps(i) ==
  \/ i.op \in {"DIV", "MOD"} /\ ~Divides(load_reg(i.a), load_reg(i.b))
  \/ i.op = "LOAD" /\ ~Accessible(load_reg(i.a), i.dst.ty)
  \/ i.op = "STORE" /\ ~Accessible(load_reg(i.dst), StoredType(i))

\* The new slots, memory and pc.
Moves(i) ==
  LET Write(x) == /\ slots' = [j \in DOMAIN slots \union {i.dst.id} |->
                                 IF j = i.dst.id THEN x ELSE slots[j]]
                  /\ pc' = pc + 1
                  /\ mem' = mem
      Goto(p) == pc' = p /\ UNCHANGED <<slots, mem>>
  IN CASE i.op = "LOAD" -> Write(Loaded(i))
       [] i.op = "STORE" ->
            /\ mem' = [mem EXCEPT ![load_reg(i.dst)] =
                         LowBits(load_reg(i.a), Bits[SizeOr8(StoredType(i))])]
            /\ pc' = pc + 1
            /\ slots' = slots
       [] i.op = "LABEL" -> Goto(pc + 1)
       [] i.op = "JMP" -> Goto(LabelAt(i.lab))
       [] i.op = "JZ" -> Goto(IF load_reg(i.a) = 0 THEN LabelAt(i.lab) ELSE pc + 1)
       [] i.op = "JNZ" -> Goto(IF load_reg(i.a) # 0 THEN LabelAt(i.lab) ELSE pc + 1)
       [] OTHER -> Write(Result(i))

IrStep ==
  /\ phase = "running" /\ pc <= Len(code)
  /\ IF Traps(code[pc])
     THEN phase' = "trapped" /\ UNCHANGED <<pc, slots, mem>>
     ELSE /\ Moves(code[pc])
          /\ phase' = IF pc' > Len(code) THEN "done" ELSE "running"
  /\ UNCHANGED <<input, start, parsed, ast, code, value>>

\* An expression of constants and addresses only emits nothing.
NothingToRun ==
  /\ phase = "running" /\ code = << >>
  /\ phase' = "done"
  /\ UNCHANGED <<input, start, parsed, ast, code, value, pc, slots, mem>>

Next == Parse \/ Check \/ Gen \/ IrStep \/ NothingToRun

Spec == Init /\ [][Next]_vars

-----------------------------------------------------------------------------
(* Properties *)

\* Registers and memory hold words of their size, and every jump target is
\* a label placed exactly once.
TypeOK ==
  /\ phase \in {"tokens", "parsed", "checked", "running", "done", "trapped"}
  /\ pc \in 1 .. Len(code) + 1
  /\ \A i \in 1 .. Len(code) : code[i].op \in {"JMP", "JZ", "JNZ"} =>
       \E j \in 1 .. Len(code) : /\ Places(j, code[i].lab)
                                 /\ \A k \in 1 .. Len(code) : Places(k, code[i].lab) => k = j
  /\ \A t \in DOMAIN slots : slots[t] \in 0 .. 2 ^ W - 1
  /\ DOMAIN mem = DOMAIN C!Cells
  /\ \A a \in DOMAIN mem : mem[a] \in 0 .. 2 ^ Bits[SizeOr8(C!Cells[a])] - 1

Accepted == parsed.s.errs = 0 /\ peek(input.tokens, parsed.s) = EOF

\* Tokens but for parentheses, which may be more than needed in a cut tree,
\* and for +, of which the unary one leaves no node.
Bare(ts) == LET Kept(t) == t.kind \notin {"(", ")", "+"} IN SelectSeq(ts, Kept)

\* The binding powers and associativities of the Pratt parser are the C
\* grammar (parser.c:1083-1379): an expression written with the least
\* parentheses is accepted and comes back as the tree it was; and when a
\* token is missing, either an error is reported or nothing else is lost.
ParsesTheGrammar ==
  phase # "tokens" =>
    /\ Accepted => Bare(Tokens(parsed.n)) = Bare(input.tokens)
    /\ input.whole => Accepted /\ parsed.n = input.tree

\* The outcome C asks for, and whether it asks for one that the compiler is
\* held to.
Should == C!Meaning(input.tree, start)
Followed(r) == r.s.ok /\ ~r.s.ub

\* Where C defines the outcome and no value is used beyond its low bits
\* (CSemantics), the code does not trap, leaves memory as C says, with every
\* side effect done once, and gets the low bits of the result right.
Reaches(r) ==
  Followed(r) => /\ phase = "done"
                 /\ mem = r.s.mem
                 /\ LET n == Bits[C!Size(r.t)]
                    IN LowBits(load_reg(value), n) = LowBits(r.v, n)
OutcomeRight == phase \in {"done", "trapped"} => Reaches(Should)

\* The register form of a result: sign- or zero-extended to 64 bits by the
\* type of the expression, which is what the next instruction, a call or a
\* return takes it for.
HeldExtended(r) == Followed(r) /\ r.q = "exact" => load_reg(value) = Word(r.v)
ResultExtended == phase = "done" => HeldExtended(Should)
=============================================================================
