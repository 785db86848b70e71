----------------------------- MODULE ControlFlow -----------------------------
(***************************************************************************)
(* The lowering of statements to labels and jumps (gen_stmt, the pre-scans   *)
(* for case and goto labels, && || ?: of gen_expr in src/src/irgen.c), run   *)
(* side by side with the program it came from.                              *)
(*                                                                         *)
(* IrGen's recursion is a stack of things still to generate.  When it is     *)
(* empty the IR and the source program run in lockstep on what can be seen  *)
(* of them: the expressions evaluated, in order, and the return.            *)
(*                                                                         *)
(* A statement is a record whose k is its AST kind.  An expression is an    *)
(* atom (an opaque expression with an id), or &&, || or ?: over expressions. *)
(***************************************************************************)
EXTENDS StmtTree, SequencesExt

CONSTANT Values  \* values an expression may have

VARIABLES
  program,      \* a function body as the parser made it
  source,       \* the function body that C reads in the same text
  phase,        \* "parse" | "sema" | "gen" | "run" | "rejected"
  todo,         \* what is left to generate, first first
  code,         \* the IR
  next_label,
  break_label, cont_label,         \* 0: none
  case_entries, sw_default_lbl,    \* of the innermost switch
  goto_labels,  \* <<[name, label], ...>>
  ip,           \* next IR instruction
  val,          \* the value the last IR instruction produced
  kont          \* what the source program has left to do

context_vars == <<break_label, cont_label, case_entries, sw_default_lbl>>
gen_vars == <<todo, code, next_label, goto_labels, context_vars>>
run_vars == <<ip, val, kont>>
lowering_vars == <<program, source, phase, gen_vars, run_vars>>

-----------------------------------------------------------------------------
(* The tree *)

\* eval_const_expr: literals and unary operators; any other node is 0.
RECURSIVE eval_const_expr(_)
eval_const_expr(e) ==
  CASE e.k = "int" -> e.val
    [] e.k = "minus" -> -eval_const_expr(e.arg)
    [] e.k = "tilde" -> eval_const_expr(e.arg)
    [] OTHER -> 0

\* What sema accepts: break, continue, case and default inside what they need,
\* and every goto with a label.
RECURSIVE LabelsIn(_)
LabelsIn(n) ==
  FoldLeft(LAMBDA names, m : names \o LabelsIn(m),
           IF n.k = "label" THEN <<n.name>> ELSE << >>, Inner(n))

RECURSIVE check_stmt(_, _, _, _)
check_stmt(n, loops, switches, labels) ==
  /\ n.k = "break" => loops + switches > 0
  /\ n.k = "continue" => loops > 0
  /\ n.k \in {"case", "default"} => switches > 0
  /\ n.k = "goto" => n.name \in labels
  /\ \A m \in Range(Inner(n)) :
       check_stmt(m,
                  IF n.k \in {"while", "do", "for"} THEN loops + 1 ELSE loops,
                  IF n.k = "switch" THEN switches + 1 ELSE switches,
                  labels)

Accepted(p) == check_stmt(p, 0, 0, Range(LabelsIn(p)))

\* collect_switch_cases: the case and default nodes of a switch body; those of
\* a nested switch are not among them.
RECURSIVE collect_switch_cases(_)
collect_switch_cases(n) ==
  FoldLeft(LAMBDA cases, m : cases \o collect_switch_cases(m),
           IF n.k \in {"case", "default"} THEN <<n>> ELSE << >>,
           IF n.k = "switch" THEN << >> ELSE Inner(n))

-----------------------------------------------------------------------------
(* Generation *)

Stmt(n)   == [t |-> "stmt", n |-> n]
Expr(e)   == [t |-> "expr", e |-> e]
Emit(ins) == [t |-> "emit", ins |-> ins]

Label(l) == Emit([op |-> "label", l |-> l])
Jmp(l)   == Emit([op |-> "jmp", l |-> l])
Jz(l)    == Emit([op |-> "jz", l |-> l])
Jnz(l)   == Emit([op |-> "jnz", l |-> l])
Set(v)   == Emit([op |-> "set", v |-> v])
Ret      == Emit([op |-> "ret"])

Nothing ==
  /\ program = None
  /\ todo = << >> /\ code = << >> /\ next_label = 1 /\ goto_labels = << >>
  /\ break_label = 0 /\ cont_label = 0
  /\ case_entries = << >> /\ sw_default_lbl = 0
  /\ ip = 1 /\ val = 0 /\ kont = << >>

\* The analysis of a body and, if nothing is wrong, its goto labels:
\* collect_labels numbers them, putting each one in front.
Analyse ==
  /\ phase = "sema"
  /\ IF Accepted(program)
     THEN LET names == LabelsIn(program)
          IN  /\ phase' = "gen"
              /\ todo' = <<Stmt(program)>>
              /\ goto_labels' = Reverse([i \in DOMAIN names |-> [name |-> names[i], label |-> i]])
              /\ next_label' = 1 + Len(names)
     ELSE phase' = "rejected" /\ UNCHANGED <<todo, goto_labels, next_label>>
  /\ UNCHANGED <<program, source, code, context_vars, run_vars>>

Top(t) == phase = "gen" /\ todo # << >> /\ Head(todo).t = t
TopStmt(kind) == Top("stmt") /\ Head(todo).n.k = kind
TopExpr(kind) == Top("expr") /\ Head(todo).e.k = kind
node == Head(todo).n
expr == Head(todo).e

\* The first thing to do is replaced by those of `tasks', using n new labels.
Expand(n, tasks) ==
  /\ todo' = tasks \o Tail(todo)
  /\ next_label' = next_label + n
  /\ UNCHANGED <<program, source, phase, code, goto_labels, run_vars>>

SameContext == UNCHANGED context_vars

\* A mutation: the label returned is the one after the increment.
LAfterIncrement(i) == next_label + i + 1

\* The i-th label taken by ir_new_label.
L(i) == next_label + i

EmitInstr ==
  /\ Top("emit")
  /\ code' = Append(code, Head(todo).ins)
  /\ todo' = Tail(todo)
  /\ UNCHANGED <<program, source, phase, next_label, goto_labels, run_vars>> /\ SameContext

\* An opaque expression.
gen_atom ==
  /\ TopExpr("atom")
  /\ code' = Append(code, [op |-> "eval", id |-> expr.id])
  /\ todo' = Tail(todo)
  /\ UNCHANGED <<program, source, phase, next_label, goto_labels, run_vars>> /\ SameContext

\* Labels in the order they are taken: end, false, true.
gen_and ==
  /\ TopExpr("and")
  /\ Expand(3, <<Expr(expr.l), Jz(L(1)), Expr(expr.r), Jnz(L(2)), Jmp(L(1)),
                 Label(L(1)), Set(0), Jmp(L(0)), Label(L(2)), Set(1), Label(L(0))>>)
  /\ SameContext

gen_or ==
  /\ TopExpr("or")
  /\ Expand(3, <<Expr(expr.l), Jnz(L(2)), Expr(expr.r), Jnz(L(2)), Set(0), Jmp(L(0)),
                 Label(L(2)), Set(1), Label(L(0))>>)
  /\ SameContext

\* then, else, end; the COPY to the result keeps the value.
gen_ternary ==
  /\ TopExpr("ternary")
  /\ Expand(3, <<Expr(expr.c), Jz(L(1)), Label(L(0)), Expr(expr.t), Jmp(L(2)),
                 Label(L(1)), Expr(expr.e), Label(L(2))>>)
  /\ SameContext

gen_empty == TopStmt("none") /\ Expand(0, << >>) /\ SameContext

gen_expr_stmt == TopStmt("expr") /\ Expand(0, <<Expr(node.e)>>) /\ SameContext

gen_compound ==
  /\ TopStmt("compound")
  /\ Expand(0, [i \in DOMAIN node.stmts |-> Stmt(node.stmts[i])])
  /\ SameContext

\* else, end.
gen_if ==
  /\ TopStmt("if")
  /\ Expand(2, <<Expr(node.c), Jz(L(0)), Stmt(node.then)>>
                \o (IF node.else = None THEN <<Label(L(0))>>
                    ELSE <<Jmp(L(1)), Label(L(0)), Stmt(node.else), Label(L(1))>>))
  /\ SameContext

\* Put back break_label and cont_label at the end of a loop.
Restore(b, c) == [t |-> "restore", brk |-> b, cont |-> c]

\* A loop sets break_label and cont_label for its body.
Loop(n, brk, cont, tasks) ==
  /\ Expand(n, Append(tasks, Restore(break_label, cont_label)))
  /\ break_label' = brk
  /\ cont_label' = cont
  /\ UNCHANGED <<case_entries, sw_default_lbl>>

\* A mutation: the loop jumps back behind its test.
WhileBackBody == L(1)

\* Where a while loop jumps after its body.
WhileBack == L(0)

\* top, body, end.
gen_while ==
  /\ TopStmt("while")
  /\ Loop(3, L(2), L(0),
          <<Label(L(0)), Expr(node.c), Jz(L(2)), Label(L(1)), Stmt(node.body),
            Jmp(WhileBack), Label(L(2))>>)

\* body, cond, end.
gen_do_while ==
  /\ TopStmt("do")
  /\ Loop(3, L(2), L(1),
          <<Label(L(0)), Stmt(node.body), Label(L(1)), Expr(node.c), Jnz(L(0)), Label(L(2))>>)

\* A mutation: continue skips the increment.
ForContTop == L(0)

\* Where continue goes in a for loop.
ForCont == L(2)

Optional(e, tasks) == IF e = None THEN << >> ELSE <<Expr(e)>> \o tasks

\* top, body, incr, end.
gen_for ==
  /\ TopStmt("for")
  /\ Loop(4, L(3), ForCont,
          <<Stmt(node.init), Label(L(0))>> \o Optional(node.c, <<Jz(L(3))>>)
            \o <<Label(L(1)), Stmt(node.body), Label(L(2))>> \o Optional(node.incr, << >>)
            \o <<Jmp(L(0)), Label(L(3))>>)

gen_return ==
  /\ TopStmt("return")
  /\ Expand(0, Optional(node.e, << >>) \o <<Ret>>)
  /\ SameContext

gen_break ==
  /\ TopStmt("break")
  /\ Expand(0, IF break_label # 0 THEN <<Jmp(break_label)>> ELSE << >>)
  /\ SameContext

gen_continue ==
  /\ TopStmt("continue")
  /\ Expand(0, IF cont_label # 0 THEN <<Jmp(cont_label)>> ELSE << >>)
  /\ SameContext

\* end, then one label per case and default.  The comparisons come in reverse
\* order, because collect_switch_cases puts each entry in front.
gen_switch ==
  /\ TopStmt("switch")
  /\ LET cases    == collect_switch_cases(node.body)
         entries  == Reverse([i \in DOMAIN cases |-> [node |-> cases[i], label |-> L(i)]])
         defaults == {i \in DOMAIN cases : cases[i].k = "default"}
         default  == IF defaults = {} THEN 0 ELSE L(CHOOSE i \in defaults : TRUE)
         tests    == [i \in DOMAIN cases |->
                        IF cases[i].k = "default" THEN << >>
                        ELSE <<Emit([op |-> "jeq", v |-> eval_const_expr(cases[i].e), l |-> L(i)])>>]
     IN  /\ Expand(1 + Len(cases),
                   <<Expr(node.c)>> \o FlattenSeq(Reverse(tests))
                     \o <<Jmp(IF default # 0 THEN default ELSE L(0)),
                          Stmt(node.body), Label(L(0)),
                          [t |-> "restore_switch", brk |-> break_label,
                           entries |-> case_entries, default |-> sw_default_lbl]>>)
         /\ break_label' = L(0)
         /\ case_entries' = entries
         /\ sw_default_lbl' = default
         /\ UNCHANGED cont_label

\* The label collect_switch_cases gave this node, then its statement.
gen_case ==
  /\ TopStmt("case") \/ TopStmt("default")
  /\ LET mine == SelectSeq(case_entries, LAMBDA ce : ce.node = node)
     IN  Expand(0, (IF mine = << >> THEN << >> ELSE <<Label(mine[1].label)>>)
                    \o <<Stmt(node.stmt)>>)
  /\ SameContext

GotoLabel(name) == SelectSeq(goto_labels, LAMBDA gl : gl.name = name)

gen_goto ==
  /\ TopStmt("goto")
  /\ LET gl == GotoLabel(node.name)
     IN  Expand(0, IF gl = << >> THEN << >> ELSE <<Jmp(gl[1].label)>>)
  /\ SameContext

gen_label ==
  /\ TopStmt("label")
  /\ LET gl == GotoLabel(node.name)
     IN  Expand(0, (IF gl = << >> THEN << >> ELSE <<Label(gl[1].label)>>)
                    \o <<Stmt(node.stmt)>>)
  /\ SameContext

\* break_label after a loop or a switch.
Restored(task) == task.brk

EndLoop ==
  /\ Top("restore")
  /\ break_label' = Restored(Head(todo))
  /\ cont_label' = Head(todo).cont
  /\ Expand(0, << >>)
  /\ UNCHANGED <<case_entries, sw_default_lbl>>

EndSwitch ==
  /\ Top("restore_switch")
  /\ break_label' = Restored(Head(todo))
  /\ case_entries' = Head(todo).entries
  /\ sw_default_lbl' = Head(todo).default
  /\ Expand(0, << >>)
  /\ UNCHANGED cont_label

\* A declaration evaluates its initializer, if it has one.
gen_decl == TopStmt("decl") /\ Expand(0, Optional(node.e, << >>)) /\ SameContext

\* Everything is generated: both programs start.
Start ==
  /\ phase = "gen"
  /\ todo = << >>
  /\ phase' = "run"
  /\ kont' = <<Stmt(source)>>
  /\ UNCHANGED <<program, source, gen_vars, ip, val>>

Gen ==
  \/ EmitInstr \/ gen_atom \/ gen_and \/ gen_or \/ gen_ternary
  \/ gen_empty \/ gen_expr_stmt \/ gen_compound \/ gen_if
  \/ gen_while \/ gen_do_while \/ gen_for \/ gen_return
  \/ gen_break \/ gen_continue \/ gen_switch \/ gen_case
  \/ gen_goto \/ gen_label \/ gen_decl \/ EndLoop \/ EndSwitch \/ Start

-----------------------------------------------------------------------------
(* The IR machine: jumps as codegen.c emits them *)

AtEnd == ip > Len(code)
Instr == code[ip]

IrVisible == IF AtEnd THEN TRUE ELSE Instr.op \in {"eval", "ret"}

\* The event of returning; expression ids are positive.
Returning == 0

IrEvent == IF AtEnd \/ Instr.op = "ret" THEN Returning ELSE Instr.id

Target(l) == CHOOSE j \in DOMAIN code : code[j] = [op |-> "label", l |-> l]

Taken ==
  CASE Instr.op = "jmp" -> TRUE
    [] Instr.op = "jz"  -> val = 0
    [] Instr.op = "jnz" -> val # 0
    [] Instr.op = "jeq" -> val = Instr.v
    [] OTHER -> FALSE

-----------------------------------------------------------------------------
(* The source program, by the rules of C: kont is a list of statements to    *)
(* run, ends of enclosing loops and switches, and tests.                    *)

Again(n)   == [t |-> "again", n |-> n]    \* end of a loop body
ForTest(n) == [t |-> "fortest", n |-> n]
EndSw      == [t |-> "endswitch"]
Test(e, yes, no) == <<[t |-> "test", e |-> e, yes |-> yes, no |-> no]>>

\* The rest of the program from the nearest item of one of these kinds.
FromNearest(k, kinds) ==
  LET at == CHOOSE i \in DOMAIN k :
              k[i].t \in kinds /\ \A j \in 1 .. i - 1 : k[j].t \notin kinds
  IN  SubSeq(k, at, Len(k))

RECURSIVE ConstValue(_)
ConstValue(e) ==
  CASE e.k = "int" -> e.val
    [] e.k = "minus" -> -ConstValue(e.arg)
    [] e.k = "tilde" -> -ConstValue(e.arg) - 1
    [] e.k = "add" -> ConstValue(e.l) + ConstValue(e.r)

\* A place to go on: a named label, a case value, the default.
LabelOf(name) == [k |-> "label", name |-> name]
CaseOf(v)     == [k |-> "case", v |-> v]
DefaultOf     == [k |-> "default"]

IsTarget(n, t) ==
  /\ n.k = t.k
  /\ t.k = "label" => n.name = t.name
  /\ t.k = "case" => ConstValue(n.e) = t.v

\* The continuations that start at a target in n, followed by k.  A case is
\* not looked for in a nested switch.
RECURSIVE Find(_, _, _)
Find(n, k, t) ==
  IF IsTarget(n, t) THEN {<<Stmt(n)>> \o k}
  ELSE CASE n.k = "compound" ->
              UNION {Find(n.stmts[i],
                          [j \in 1 .. Len(n.stmts) - i |-> Stmt(n.stmts[i + j])] \o k, t) :
                     i \in DOMAIN n.stmts}
         [] n.k = "if" -> Find(n.then, k, t) \union Find(n.else, k, t)
         [] n.k \in {"while", "do", "for"} -> Find(n.body, <<Again(n)>> \o k, t)
         [] n.k = "switch" /\ t.k = "label" -> Find(n.body, <<EndSw>> \o k, t)
         [] n.k \in {"case", "default", "label"} -> Find(n.stmt, k, t)
         [] OTHER -> {}

The(s) == CHOOSE x \in s : TRUE

\* A switch with value v.
Select(n, v, k) ==
  LET inside(t) == Find(n.body, <<EndSw>> \o k, t)
  IN  IF inside(CaseOf(v)) # {} THEN The(inside(CaseOf(v)))
      ELSE IF inside(DefaultOf) # {} THEN The(inside(DefaultOf))
      ELSE k

LoopTest(n, k) ==
  LET body == <<Stmt(n.body), Again(n)>> \o k
  IN  IF n.c = None THEN body ELSE Test(n.c, body, k)

StmtStep(n, k) ==
  CASE n.k = "none"     -> k
    [] n.k = "expr"     -> Test(n.e, k, k)
    [] n.k = "decl"     -> IF n.e = None THEN k ELSE Test(n.e, k, k)
    [] n.k = "compound" -> [i \in DOMAIN n.stmts |-> Stmt(n.stmts[i])] \o k
    [] n.k = "if"       -> Test(n.c, <<Stmt(n.then)>> \o k, <<Stmt(n.else)>> \o k)
    [] n.k = "while"    -> LoopTest(n, k)
    [] n.k = "do"       -> <<Stmt(n.body), Again(n)>> \o k
    [] n.k = "for"      -> <<Stmt(n.init), ForTest(n)>> \o k
    [] n.k = "break"    -> Tail(FromNearest(k, {"again", "endswitch"}))
    [] n.k = "continue" -> FromNearest(k, {"again"})
    [] n.k = "return"   -> IF n.e = None THEN << >> ELSE Test(n.e, << >>, << >>)
    [] n.k = "switch"   -> <<[t |-> "select", n |-> n, k |-> k]>>
    [] n.k = "goto"     -> The(Find(source, << >>, LabelOf(n.name)))
    [] OTHER            -> <<Stmt(n.stmt)>> \o k

TestStep(e, yes, no) ==
  CASE e.k = "and"     -> Test(e.l, Test(e.r, yes, no), no)
    [] e.k = "or"      -> Test(e.l, yes, Test(e.r, yes, no))
    [] e.k = "ternary" -> Test(e.c, Test(e.t, yes, no), Test(e.e, yes, no))

SrcVisible ==
  IF kont = << >> THEN TRUE
  ELSE Head(kont).t = "select" \/ (Head(kont).t = "test" /\ Head(kont).e.k = "atom")

SrcEvent ==
  IF kont = << >> THEN Returning
  ELSE IF Head(kont).t = "test" THEN Head(kont).e.id
  ELSE Head(kont).n.c.id

-----------------------------------------------------------------------------
(* Running *)

SrcStep ==
  /\ phase = "run"
  /\ ~SrcVisible
  /\ LET h == Head(kont)
         k == Tail(kont)
     IN  kont' = CASE h.t = "stmt" -> StmtStep(h.n, k)
                   [] h.t = "again" -> IF h.n.k = "for"
                                       THEN (IF h.n.incr = None THEN <<ForTest(h.n)>> \o k
                                             ELSE Test(h.n.incr, <<ForTest(h.n)>> \o k,
                                                                 <<ForTest(h.n)>> \o k))
                                       ELSE LoopTest(h.n, k)
                   [] h.t = "fortest" -> LoopTest(h.n, k)
                   [] h.t = "endswitch" -> k
                   [] h.t = "test" -> TestStep(h.e, h.yes, h.no)
  /\ UNCHANGED <<program, source, phase, gen_vars, ip, val>>

IrStep ==
  /\ phase = "run"
  /\ SrcVisible
  /\ ~IrVisible
  /\ ip' = IF Taken THEN Target(Instr.l) ELSE ip + 1
  /\ val' = IF Instr.op = "set" THEN Instr.v ELSE val
  /\ UNCHANGED <<program, source, phase, gen_vars, kont>>

\* Both evaluate the same expression, with the same value.
Evaluate(v) ==
  /\ phase = "run"
  /\ SrcVisible /\ IrVisible
  /\ SrcEvent = IrEvent /\ SrcEvent # Returning
  /\ ip' = ip + 1
  /\ val' = v
  /\ LET h == Head(kont)
     IN  kont' = IF h.t = "select" THEN Select(h.n, v, h.k)
                 ELSE IF v # 0 THEN h.yes ELSE h.no
  /\ UNCHANGED <<program, source, phase, gen_vars>>

Run == SrcStep \/ IrStep \/ \E v \in Values : Evaluate(v)

-----------------------------------------------------------------------------
(* Properties *)

\* Context labels are labels of this function; the IR is built of its opcodes.
LoweringOK ==
  /\ phase \in {"parse", "sema", "gen", "run", "rejected"}
  /\ next_label \in Nat \ {0}
  /\ break_label \in 0 .. next_label - 1 /\ cont_label \in 0 .. next_label - 1
  /\ sw_default_lbl \in 0 .. next_label - 1
  /\ \A j \in DOMAIN code :
       /\ code[j].op \in {"eval", "set", "ret", "label", "jmp", "jz", "jnz", "jeq"}
       /\ "l" \in DOMAIN code[j] => code[j].l \in 1 .. next_label - 1
  /\ ip \in 1 .. Len(code) + 1

\* The compiled function evaluates what the source evaluates, in the same
\* order, and returns when it does: the next visible step is the same.
Follows ==
  phase = "run" /\ SrcVisible /\ IrVisible => IrEvent = SrcEvent

\* The compiled function does not spin where the source goes on: when the
\* source is about to evaluate something, so is, after finitely many jumps,
\* the IR.
KeepsUp == (phase = "run" /\ SrcVisible) ~> (phase = "run" /\ IrVisible)
=============================================================================
