------------------------------ MODULE Statements ------------------------------
(***************************************************************************)
(* A function body from its tokens to its execution: parsed by StmtParse,    *)
(* checked and lowered by ControlFlow, and run beside what C reads in the    *)
(* same tokens (CStmt).                                                     *)
(***************************************************************************)
EXTENDS StmtParse, CStmt, ControlFlow

CONSTANT Programs  \* function bodies with their readings, [text, source, standard]

VARIABLE standard  \* C99 accepts the text

\* A text with what C reads in it.
WithReading(t) ==
  [text |-> t, source |-> CReading(t, TRUE), standard |-> CReading(t, FALSE) # None]

vars == <<parse_vars, lowering_vars, standard>>

Init ==
  /\ ParseInit
  /\ Nothing
  /\ phase = "parse"
  /\ \E p \in Programs : text = p.text /\ source = p.source /\ standard = p.standard

Parse ==
  /\ phase = "parse"
  /\ ParseStep
  /\ UNCHANGED <<lowering_vars, standard>>

\* The body is parsed.  What is left of the text is outside the function, where
\* parser_parse accepts only declarations; then main looks at the error count.
ParseEnd ==
  /\ phase = "parse"
  /\ tasks = << >>
  /\ phase' = IF n_errors > 0 \/ tok.k # "EOF" THEN "rejected" ELSE "sema"
  /\ program' = built[1]
  /\ UNCHANGED <<source, gen_vars, run_vars, parse_vars, standard>>

Parsed == UNCHANGED <<parse_vars, standard>>

FrontEnd == Parse \/ ParseEnd \/ (Analyse /\ Parsed)
Lower == Gen /\ Parsed
Execute == Run /\ Parsed

Next == FrontEnd \/ Lower \/ Execute

\* Compiler and processor go on executing.
Fairness == WF_vars(FrontEnd) /\ WF_vars(IrStep /\ Parsed)

Spec == Init /\ [][Next]_vars /\ Fairness

-----------------------------------------------------------------------------
(* Properties *)

\* The parser counts the loops and switches it is in and has the nodes it needs;
\* labels and opcodes are those of the IR.
TypeOK == ParserOK /\ LoweringOK

\* Every text gets an answer: error recovery comes to an end.  What C99 accepts
\* is compiled, and what is compiled has the reading it is run beside.
Answers ==
  (phase = "parse") ~>
    \/ phase = "rejected" /\ ~standard
    \/ phase \in {"gen", "run"} /\ source # None
=============================================================================
