------------------------------- MODULE Driver --------------------------------
(***************************************************************************)
(* src/src/main.c around the passes: what is run, what is reported, what is *)
(* written and how the process exits.  The lexer is the real one (Lexer),    *)
(* pulled by a parser of which only this is kept: it peeks and advances in  *)
(* any order, may report an error at any token, and ends when it sees the   *)
(* end of the text.  A lexer error counts in diagnostic.c's g_errors but    *)
(* not in the parser's n_errors, on which the driver decides whether to go  *)
(* on.                                                                      *)
(*                                                                          *)
(* Left out: the wording of messages, dump_ast's and dump_ir's printing,     *)
(* and the command line (a job is what main makes of it).                   *)
(***************************************************************************)
EXTENDS Lexer

CONSTANTS
  Inputs,    \* [text, mode, output] with which tinyc is called
  MaxErrors  \* bound: errors that the parser, or sema, reports

Modes == {"tokens", "ast", "ir", "compile"}
Outputs == {"stdout", "file", "unopenable"}

ASSUME DriverAssumption ==
  /\ Inputs \subseteq [text : Seq(Character), mode : Modes, output : Outputs]
  /\ MaxErrors \in Nat

VARIABLES
  job,       \* [mode, output]: the flags and -o
  phase,     \* "start", the pass that runs, "return", "exited"
  taken,     \* history: the tokens that left the lexer
  n_errors,  \* p->n_errors
  reported,  \* g_errors without the lexer's, which are lex.errors
  failed,    \* the driver itself printed "error: ..."
  written,   \* what went to the output: "none" | "whole" | "partial"
  rc,
  status     \* the exit status, -1 while running

vars == <<lexVars, job, phase, taken, n_errors, reported, failed, written, rc, status>>
options == <<job, status>>

Init ==
  /\ \E i \in Inputs : text = i.text /\ job = [mode |-> i.mode, output |-> i.output]
  /\ lex = lexer_init /\ has_peek = FALSE /\ peeked = NoToken
  /\ phase = "start" /\ taken = << >> /\ n_errors = 0 /\ reported = 0
  /\ failed = FALSE /\ written = "none" /\ rc = 0 /\ status = -1

\* diag_init resets the count; nothing was reported before.
diag_error_count == Len(lex.errors) + reported

-----------------------------------------------------------------------------
(* Reading *)

\* read_file: the file cannot be opened, or there is no memory for it.
ReadFails ==
  /\ phase = "start"
  /\ phase' = "exited" /\ failed' = TRUE /\ status' = 1
  /\ UNCHANGED <<lexVars, job, taken, n_errors, reported, written, rc>>

ReadFile ==
  /\ phase = "start"
  /\ phase' = IF job.mode = "tokens" THEN "lex" ELSE "parse"
  /\ UNCHANGED <<lexVars, options, taken, n_errors, reported, failed, written, rc>>

\* dump_tokens: one turn of the loop, up to and with the end of the text.
DumpToken ==
  /\ phase = "lex"
  /\ lexer_next
  /\ taken' = Append(taken, Answer.tok)
  /\ written' = "whole"
  /\ phase' = IF Answer.tok.kind = "EOF" THEN "return" ELSE "lex"
  /\ UNCHANGED <<options, n_errors, reported, failed, rc>>

-----------------------------------------------------------------------------
(* Parsing *)

Peek ==
  /\ phase = "parse"
  /\ lexer_peek
  /\ UNCHANGED <<options, phase, taken, n_errors, reported, failed, written, rc>>

Advance ==
  /\ phase = "parse"
  /\ Answer.tok.kind # "EOF"
  /\ lexer_next
  /\ taken' = Append(taken, Answer.tok)
  /\ UNCHANGED <<options, phase, n_errors, reported, failed, written, rc>>

\* diag_emit and n_errors++ about the token peeked at (parser.c:358-380).
ParseError ==
  /\ phase = "parse" /\ has_peek /\ n_errors < MaxErrors
  /\ n_errors' = n_errors + 1 /\ reported' = reported + 1
  /\ UNCHANGED <<lexVars, options, phase, taken, failed, written, rc>>

\* dump_ir and compile stop after a parse error.
GivesUp == n_errors > 0

ParseEnds == phase = "parse" /\ has_peek /\ peeked.kind = "EOF"

\* dump_ast prints the tree if it is whole, and ends.
DumpAst ==
  /\ ParseEnds /\ job.mode = "ast"
  /\ written' = IF n_errors = 0 THEN "whole" ELSE "none"
  /\ phase' = "return"
  /\ UNCHANGED <<lexVars, options, taken, n_errors, reported, failed, rc>>

\* dump_ir returns nothing: main's rc stays 0.
DumpIrParsed ==
  /\ ParseEnds /\ job.mode = "ir"
  /\ phase' = IF GivesUp THEN "return" ELSE "sema"
  /\ UNCHANGED <<lexVars, options, taken, n_errors, reported, failed, written, rc>>

CompileParsed ==
  /\ ParseEnds /\ job.mode = "compile"
  /\ IF GivesUp THEN rc' = 1 /\ phase' = "return" ELSE rc' = rc /\ phase' = "sema"
  /\ UNCHANGED <<lexVars, options, taken, n_errors, reported, failed, written>>

-----------------------------------------------------------------------------
(* The passes after it, and the end *)

\* sema_check reports and goes on; its result is not looked at.  irgen reports nothing.
SemaAndIrgen ==
  /\ phase = "sema"
  /\ \E e \in 0 .. MaxErrors : reported' = reported + e
  /\ phase' = "output"
  /\ UNCHANGED <<lexVars, options, taken, n_errors, failed, written, rc>>

\* No result of fprintf or fclose is looked at.
Write == written' \in {"whole", "partial"}

PrintIr ==
  /\ phase = "output" /\ job.mode = "ir"
  /\ Write
  /\ phase' = "return"
  /\ UNCHANGED <<lexVars, options, taken, n_errors, reported, failed, rc>>

Codegen ==
  /\ phase = "output" /\ job.mode = "compile" /\ job.output # "unopenable"
  /\ Write
  /\ rc' = IF diag_error_count > 0 THEN 1 ELSE 0
  /\ phase' = "return"
  /\ UNCHANGED <<lexVars, options, taken, n_errors, reported, failed>>

CannotOpen ==
  /\ phase = "output" /\ job.mode = "compile" /\ job.output = "unopenable"
  /\ rc' = 1 /\ failed' = TRUE
  /\ phase' = "return"
  /\ UNCHANGED <<lexVars, options, taken, n_errors, reported, written>>

\* A mutation: the status is what the pass returned.
ExitStatusRc == rc

\* What main returns.
ExitStatus == IF rc # 0 THEN 1 ELSE IF diag_error_count > 0 THEN 1 ELSE 0

Return ==
  /\ phase = "return"
  /\ status' = ExitStatus
  /\ phase' = "exited"
  /\ UNCHANGED <<lexVars, job, taken, n_errors, reported, failed, written, rc>>

Next ==
  \/ ReadFails \/ ReadFile \/ DumpToken
  \/ Peek \/ Advance \/ ParseError \/ DumpAst \/ DumpIrParsed \/ CompileParsed
  \/ SemaAndIrgen \/ PrintIr \/ Codegen \/ CannotOpen \/ Return

Spec == Init /\ [][Next]_vars

-----------------------------------------------------------------------------
(* Properties *)

TokenRecord ==
  [kind : {"INT_LIT", "FLOAT_LIT", "CHAR_LIT", "STR_LIT", "IDENT", "PUNCT", "EOF",
           "ERROR", "none"} \union {kw_table[k] : k \in DOMAIN kw_table},
   from : Nat, to : Nat, line : Nat, col : Nat,
   suffix : SUBSET {"U", "L", "LL"}, value : Seq(Nat)]

\* A string is the bytes in the buffer; a character constant may be more than a byte.
TokenType ==
  {t \in TokenRecord : t.kind = "STR_LIT" => t.value \in Seq(0 .. 255) /\ Len(t.value) <= BUF}

\* The state is well typed: the cursor stays in the text and the buffer of a
\* string is not overrun, counts and positions are natural numbers, and the driver is in a phase of the job it was given.
TypeOK ==
  /\ lex \in LexState /\ lex.cur <= Len(text) + 1
  /\ has_peek \in BOOLEAN /\ peeked \in TokenType /\ taken \in Seq(TokenType)
  /\ job \in [mode : Modes, output : Outputs]
  /\ phase \in {"start", "lex", "parse", "sema", "output", "return", "exited"}
  /\ n_errors \in 0 .. MaxErrors /\ reported \in 0 .. 2 * MaxErrors
  /\ failed \in BOOLEAN /\ written \in {"none", "whole", "partial"}
  /\ rc \in {0, 1} /\ status \in {-1, 0, 1}

\* The line and the column of a place, both from 1.
LineOf(i) == 1 + Cardinality({k \in 1 .. i - 1 : text[k] = Newline})
ColumnOf(i) == i - Max({0} \union {k \in 1 .. i - 1 : text[k] = Newline})

\* The escapes the lexer knows (all of C's but \?).
KnownEscape == {"a", "b", "f", "n", "r", "t", "v", "x", "\\", "'", Quote} \union OctalDigit

\* j is directly behind the character that follows a backslash and makes no
\* known escape with it; behind the backslash, at the end of the text.
BehindUnknownEscape(j) ==
  \E i \in 1 .. Len(text) : text[i] = "\\" /\ At(i + 1) \notin KnownEscape /\ j = After(i + 1)

\* Every token, and so what the parser and sema say about it, and every error of
\* the lexer has the line and the column of the place where it starts; every
\* warning of an unknown escape has those of the place directly behind the escape,
\* which is on the next line if a newline was escaped.  They are counted on the
\* way, across comments, line markers, literals with newlines, and the places
\* where the lexer steps back to read a character again.
Located ==
  /\ \A i \in DOMAIN taken :
       taken[i].line = LineOf(taken[i].from) /\ taken[i].col = ColumnOf(taken[i].from)
  /\ \A i \in DOMAIN lex.errors :
       lex.errors[i].line = LineOf(lex.errors[i].at) /\ lex.errors[i].col = ColumnOf(lex.errors[i].at)
  /\ \A i \in DOMAIN lex.warnings :
       LET w == lex.warnings[i]
       IN  BehindUnknownEscape(w.at) /\ w.line = LineOf(w.at) /\ w.col = ColumnOf(w.at)

\* A build that goes by the exit status is never told that a text with errors
\* was fine, and never finds the assembly of one the parser could not read: an
\* error of the lexer, the parser, sema or the driver, in any mode, is in the
\* status; code is written only if the parser reported nothing; and success
\* means that it was.  (That it was written whole is another matter: no result
\* of a write is looked at.)
ExitTells ==
  phase = "exited" =>
    /\ status = 0 <=> ~failed /\ diag_error_count = 0
    /\ written # "none" /\ job.mode # "tokens" => n_errors = 0 /\ ~failed
    /\ status = 0 => written # "none"
=============================================================================
