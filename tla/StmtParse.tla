------------------------------ MODULE StmtParse ------------------------------
(***************************************************************************)
(* parse_statement and parse_compound of src/src/parser.c, with expect's     *)
(* error recovery.  The recursion is a list of things still to do, first     *)
(* first; the nodes made so far wait in `built' for the one they belong to.  *)
(*                                                                          *)
(* Expressions and declarations are single tokens (StmtTree).  What remains  *)
(* of parse_expr is an operand, parentheses, a call of one argument, and the *)
(* unexpected token, which is reported and skipped; a declaration where an   *)
(* expression is asked for is skipped as a whole.                           *)
(***************************************************************************)
EXTENDS StmtTree, FiniteSets

VARIABLES
  text,          \* a function body
  pos,           \* next token
  tasks,         \* what is left to do
  built,         \* nodes that have no parent yet
  n_errors,      \* bounded: 0, 1 or more
  loop_depth, switch_depth

parse_vars == <<text, pos, tasks, built, n_errors, loop_depth, switch_depth>>

tok == IF pos <= Len(text) THEN text[pos] ELSE [k |-> "EOF"]

\* Tasks.
Task(what) == [t |-> what]
Expect(kind) == [t |-> "expect", k |-> kind]
Possibly(stop) == [t |-> "optional", k |-> stop]
Make(kind) == [t |-> "make", k |-> kind]
Items(before) == [t |-> "items", before |-> before]
Depth(what, by) == [t |-> "depth", what |-> what, by |-> by]
Statement == Task("statement")
Expression == Task("expression")

ParseInit ==
  /\ pos = 1 /\ tasks = <<Task("compound")>> /\ built = << >>
  /\ n_errors = 0 /\ loop_depth = 0 /\ switch_depth = 0

Doing(what) == tasks # << >> /\ Head(tasks).t = what
task == Head(tasks)

\* The task is replaced by others; n tokens are passed, nodes pushed.
Goes(n, next, nodes) ==
  /\ pos' = pos + n
  /\ tasks' = next \o Tail(tasks)
  /\ built' = built \o nodes
  /\ text' = text

Silent == UNCHANGED n_errors
Reports == n_errors' = 1
SameDepths == UNCHANGED <<loop_depth, switch_depth>>

\* The end of the text is never passed.
One == IF tok.k = "EOF" THEN 0 ELSE 1

-----------------------------------------------------------------------------
(* parse_expr, expect *)

\* A wrong token is reported and skipped.
ParseExpect ==
  /\ Doing("expect")
  /\ Goes(One, << >>, << >>)
  /\ IF tok.k = task.k THEN Silent ELSE Reports
  /\ SameDepths

ParseOperand ==
  /\ Doing("expression") /\ tok.k \in {"ident", "expr"}
  /\ Goes(1, <<Task("led")>>, <<IF tok.k = "ident" THEN Atom(tok.id) ELSE tok.e>>)
  /\ Silent /\ SameDepths

ParseParentheses ==
  /\ Doing("expression") /\ tok.k = "("
  /\ Goes(1, <<Expression, Expect(")"), Task("led")>>, << >>)
  /\ Silent /\ SameDepths

\* nud's default: an integer 0 stands for what is missing.
ParseUnexpected ==
  /\ Doing("expression") /\ tok.k \notin {"ident", "expr", "("}
  /\ Goes(One, <<Task("led")>>, <<[k |-> "int", val |-> 0]>>)
  /\ Reports /\ SameDepths

\* A call, or the end of the expression.
ParseLed ==
  /\ Doing("led")
  /\ IF tok.k # "(" THEN Goes(0, << >>, << >>)
     ELSE IF pos < Len(text) /\ text[pos + 1].k = ")"
          THEN Goes(1, <<Expect(")"), Make("call"), Task("led")>>, <<None>>)
          ELSE Goes(1, <<Expression, Expect(")"), Make("call"), Task("led")>>, << >>)
  /\ Silent /\ SameDepths

\* `check(p, stop) ? NULL : parse_expr(p, 0)'.
ParseOptional ==
  /\ Doing("optional")
  /\ IF tok.k = task.k THEN Goes(0, << >>, <<None>>) ELSE Goes(0, <<Expression>>, << >>)
  /\ Silent /\ SameDepths

-----------------------------------------------------------------------------
(* Statements *)

\* A node takes the last of the nodes built; a compound all that are newer.
ParseMake ==
  /\ Doing("make")
  /\ LET n == Parts(task.k)
         from == Len(built) - n
     IN  built' = Append(SubSeq(built, 1, from),
                         Node(task.k, SubSeq(built, from + 1, Len(built))))
  /\ tasks' = Tail(tasks)
  /\ UNCHANGED <<text, pos>> /\ Silent /\ SameDepths

ParseDepth ==
  /\ Doing("depth")
  /\ Goes(0, << >>, << >>)
  /\ IF task.what = "loop"
     THEN loop_depth' = loop_depth + task.by /\ UNCHANGED switch_depth
     ELSE switch_depth' = switch_depth + task.by /\ UNCHANGED loop_depth
  /\ Silent

Inside(what, body) == <<Depth(what, 1)>> \o body \o <<Depth(what, -1)>>

\* The case labels' own rule: these tokens leave them an empty statement.
EndsLabels == {"case", "default", "}"}

At(kind) == Doing("statement") /\ tok.k = kind

\* One token, then tasks.
Starts(kind, next) == At(kind) /\ Goes(1, next, << >>) /\ Silent /\ SameDepths

ParseCompound ==
  \/ At("{") /\ Goes(0, <<Task("compound")>>, << >>) /\ Silent /\ SameDepths
  \/ Doing("compound") /\ Goes(0, <<Expect("{"), Items(Len(built))>>, << >>) /\ Silent /\ SameDepths

ParseItem ==
  /\ Doing("items") /\ tok.k \notin {"}", "EOF"}
  /\ Goes(0, <<Statement, task>>, << >>)
  /\ Silent /\ SameDepths

ParseItemsEnd ==
  /\ Doing("items") /\ tok.k \in {"}", "EOF"}
  /\ pos' = pos /\ text' = text
  /\ tasks' = <<Expect("}")>> \o Tail(tasks)
  /\ built' = Append(SubSeq(built, 1, task.before),
                     [k |-> "compound", stmts |-> SubSeq(built, task.before + 1, Len(built))])
  /\ Silent /\ SameDepths

ParseIf == Starts("if", <<Expect("("), Expression, Expect(")"), Statement, Task("else")>>)

ParseElse ==
  /\ Doing("else")
  /\ IF tok.k = "else" THEN Goes(1, <<Statement, Make("if")>>, << >>)
     ELSE Goes(0, <<Make("if")>>, <<None>>)
  /\ Silent /\ SameDepths

ParseWhile ==
  Starts("while", <<Expect("("), Expression, Expect(")")>> \o Inside("loop", <<Statement>>)
                    \o <<Make("while")>>)

ParseDo ==
  Starts("do", Inside("loop", <<Statement>>)
                 \o <<Expect("while"), Expect("("), Expression, Expect(")"), Expect(";"), Make("do")>>)

ParseFor ==
  Starts("for", <<Expect("("), Task("init"), Possibly(";"), Expect(";"), Possibly(")"), Expect(")")>>
                  \o Inside("loop", <<Statement>>) \o <<Make("for")>>)

ParseForInit ==
  /\ Doing("init")
  /\ CASE tok.k = ";" -> Goes(1, << >>, <<None>>)
       [] tok.k = "decl" -> Goes(1, << >>, <<tok>>)
       [] OTHER -> Goes(0, <<Expression, Expect(";"), Make("expr")>>, << >>)
  /\ Silent /\ SameDepths

ParseReturn == Starts("return", <<Possibly(";"), Expect(";"), Make("return")>>)

\* A mutation: a switch is forgotten.
BreakAllowedInLoops == loop_depth > 0

BreakAllowed == loop_depth > 0 \/ switch_depth > 0
ContinueAllowed == loop_depth > 0

ParseBreak ==
  /\ At("break") \/ At("continue")
  /\ Goes(1, <<Expect(";"), Make(tok.k)>>, << >>)
  /\ IF IF tok.k = "break" THEN BreakAllowed ELSE ContinueAllowed THEN Silent ELSE Reports
  /\ SameDepths

\* goto takes an identifier, or reports and skips what is there instead.
ParseGoto == Starts("goto", <<Task("name"), Expect(";"), Make("goto")>>)

ParseName ==
  /\ Doing("name")
  /\ IF tok.k = "ident" THEN Goes(1, << >>, <<tok.id>>) /\ Silent
     ELSE Goes(One, << >>, <<0>>) /\ Reports
  /\ SameDepths

ParseSwitch ==
  Starts("switch", <<Expect("("), Expression, Expect(")")>> \o Inside("switch", <<Statement>>)
                     \o <<Make("switch")>>)

ParseCase == Starts("case", <<Expression, Expect(":"), Task("labelled"), Make("case")>>)
ParseDefault == Starts("default", <<Expect(":"), Task("labelled"), Make("default")>>)

ParseLabelled ==
  /\ Doing("labelled")
  /\ IF tok.k \in EndsLabels THEN Goes(0, << >>, <<EmptyBlock>>) ELSE Goes(0, <<Statement>>, << >>)
  /\ Silent /\ SameDepths

ParseEmpty == At(";") /\ Goes(1, << >>, <<EmptyBlock>>) /\ Silent /\ SameDepths

ParseDecl == At("decl") /\ Goes(1, << >>, <<tok>>) /\ Silent /\ SameDepths

\* An identifier is looked at once it is consumed: a label, or the start of an
\* expression.
ParseIdent ==
  /\ At("ident")
  /\ IF pos < Len(text) /\ text[pos + 1].k = ":"
     THEN Goes(2, <<Statement, Make("label")>>, <<tok.id>>)
     ELSE Goes(1, <<Task("led"), Expect(";"), Make("expr")>>, <<Atom(tok.id)>>)
  /\ Silent /\ SameDepths

Keywords == {"if", "while", "do", "for", "return", "break", "continue", "goto", "switch",
             "case", "default", "_Pragma"}

ParseExprStmt ==
  /\ Doing("statement") /\ tok.k \notin Keywords \union {"{", ";", "decl", "ident"}
  /\ Goes(0, <<Expression, Expect(";"), Make("expr")>>, << >>)
  /\ Silent /\ SameDepths

\* skip_pragma; what it leaves is an empty block.
ParsePragma == At("_Pragma") /\ Goes(1, <<Task("pragma")>>, <<EmptyBlock>>) /\ Silent /\ SameDepths

PragmaArgument ==
  /\ Doing("pragma")
  /\ IF tok.k # "(" THEN Goes(0, <<Task("match ;")>>, << >>)
     ELSE Goes(IF pos < Len(text) /\ text[pos + 1].k = "str" THEN 2 ELSE 1,
               <<Expect(")"), Task("match ;")>>, << >>)
  /\ Silent /\ SameDepths

PragmaEnd ==
  /\ Doing("match ;")
  /\ Goes(IF tok.k = ";" THEN 1 ELSE 0, << >>, << >>)
  /\ Silent /\ SameDepths

ParseStep ==
  \/ ParseExpect \/ ParseOperand \/ ParseParentheses \/ ParseUnexpected \/ ParseLed
  \/ ParseOptional \/ ParseMake \/ ParseDepth \/ ParseCompound \/ ParseItem \/ ParseItemsEnd
  \/ ParseIf \/ ParseElse \/ ParseWhile \/ ParseDo \/ ParseFor \/ ParseForInit
  \/ ParseReturn \/ ParseBreak \/ ParseGoto \/ ParseName \/ ParseSwitch \/ ParseCase
  \/ ParseDefault \/ ParseLabelled \/ ParseEmpty \/ ParseDecl \/ ParseIdent \/ ParseExprStmt
  \/ ParsePragma \/ PragmaArgument \/ PragmaEnd

\* The parser by itself, on a text of any tokens.
ParseSpec(Tokens) == text \in Seq(Tokens) /\ ParseInit /\ [][ParseStep]_parse_vars

-----------------------------------------------------------------------------
(* Properties *)

\* A node is made only of nodes that are there, and a block only of those that
\* are newer than its brace.
EnoughBuilt ==
  /\ Doing("make") => Parts(task.k) <= Len(built)
  /\ Doing("items") => task.before <= Len(built)

\* The depths are those of the source, where they decide which jumps are
\* accepted: the loops (switches) that the parser will leave, without those it
\* is only about to enter.
Pending(what, by) == {i \in DOMAIN tasks : tasks[i] = Depth(what, by)}
Around(what) == Cardinality(Pending(what, -1)) - Cardinality(Pending(what, 1))
DepthsRight == loop_depth = Around("loop") /\ switch_depth = Around("switch")

\* The parser stays in its text, and whatever errors it found there, it knows
\* how deep it is in loops and switches, lacks no part of a construct, and has
\* one tree at the end, with nothing left over.
ParserOK ==
  /\ pos \in 1 .. Len(text) + 1
  /\ n_errors \in 0 .. 1
  /\ loop_depth \in Nat /\ switch_depth \in Nat
  /\ DepthsRight /\ EnoughBuilt
  /\ tasks = << >> => Len(built) = 1
=============================================================================
