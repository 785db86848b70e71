------------------------------- MODULE CallConv -------------------------------
(***************************************************************************)
(* One call as src/src/codegen.c compiles it: three passes over the         *)
(* arguments in the caller (IR_CALL), the callee's capture of each named    *)
(* parameter (the IR_COPY that gen_func emits first), and the result on its *)
(* way back (IR_RET and the end of IR_CALL).  The register assignment is    *)
(* computed by four separate pieces of code that share nothing but          *)
(* abi_classify; each walks the list in its own way, and a value arrives    *)
(* only where all of them agree.                                            *)
(*                                                                         *)
(* A register or an 8-byte word of the stack holds a word: which eightbyte   *)
(* of which argument it is, and how many of its bytes.                      *)
(***************************************************************************)
EXTENDS AbiClass, Align, FiniteSets

CONSTANTS
  Operands,    \* what a call may pass: [type, param, fconst]: the expression's
               \* type, the declared type of the parameter, and whether the
               \* operand is a floating constant (IRV_CONST_FLOAT)
  RetTypes,    \* result types of the function
  NInt, NSse,  \* registers for arguments: 6 and 8
  FrameSize,   \* the caller's frame_size
  MaxArgs      \* bound: arguments of the call

ASSUME CallConstants ==
  /\ Operands \subseteq [type : AbiTypes, param : AbiTypes, fconst : BOOLEAN]
  /\ RetTypes \subseteq AbiTypes
  /\ NInt \in Nat \ {0} /\ NSse \in Nat \ {0}
  /\ FrameSize \in Nat /\ FrameSize % 16 = 0
  /\ MaxArgs \in Nat

VARIABLES
  ret,      \* the function's result type
  args,     \* operands classified so far
  pc,       \* "count" | "push" | "load" | "callee" | "return" | "result" | "done"
  i,        \* the argument a pass is at
  st,       \* [int, sse, stack]: registers used, bytes of stack arguments
  popped,   \* stack_args_bytes + align_pad, what addq gives back
  depth,    \* bytes the caller has moved rsp below its frame
  ireg, xreg,  \* argument registers, numbered from 0
  stack,    \* stack arguments, lowest address first
  params,   \* what the callee captured of each parameter: a function, or "unnamed"
  retregs,  \* [int, sse]: rax and rdx, xmm0 and xmm1
  result    \* stores into the object that receives the result: [word, stored]

vars == <<ret, args, pc, i, st, popped, depth, ireg, xreg, stack, params, retregs, result>>

Word(a, e, n) == [arg |-> a, eb |-> e, bytes |-> n]
Junk == Word(-1, 0, 0)
Sret == Word(-2, 0, 8)  \* the address of the result object
Result == 0             \* the result is "argument 0"

\* A word stored through, or loaded with, a narrower access.
Clip(w, n) == IF w.bytes > n THEN [w EXCEPT !.bytes = n] ELSE w

Bytes(size) == IF size < 0 THEN 0 ELSE size

call_sret == abi_in_memory(abi_classify(ret))
IntAtStart == IF call_sret THEN 1 ELSE 0

Init ==
  /\ ret \in RetTypes
  /\ args = << >>
  /\ pc = "count"
  /\ i = 0
  /\ st = [int |-> IntAtStart, sse |-> 0, stack |-> 0]
  /\ popped = 0
  /\ depth = 0
  /\ ireg = [r \in 0 .. NInt - 1 |-> Junk]
  /\ xreg = [r \in 0 .. NSse - 1 |-> Junk]
  /\ stack = << >>
  /\ params = << >>
  /\ retregs = [int |-> [r \in {0, 1} |-> Junk], sse |-> [r \in {0, 1} |-> Junk]]
  /\ result = << >>

-----------------------------------------------------------------------------
(* Where an argument goes *)

Count(ty, cls) == LET c == abi_classify(ty) IN Cardinality({e \in DOMAIN c : c[e] = cls})

Fits(s, ty) ==
  /\ s.int + Count(ty, "INTEGER") <= NInt
  /\ s.sse + Count(ty, "SSE") <= NSse

InRegisters(s, ty) == ~abi_in_memory(abi_classify(ty)) /\ Fits(s, ty)

\* The state after an argument: an argument that does not fit takes no
\* register, and a later, smaller one may still get those that are left.
After(s, ty) ==
  IF InRegisters(s, ty)
  THEN [s EXCEPT !.int = @ + Count(ty, "INTEGER"), !.sse = @ + Count(ty, "SSE")]
  ELSE [s EXCEPT !.stack = @ + AlignUp(Bytes(ty.size), 8)]

\* The states after each number of arguments of a list of types.
Walk(types, start) ==
  LET states[k \in 0 .. Len(types)] ==
        IF k = 0 THEN start ELSE After(states[k - 1], types[k])
  IN  states

\* The state before argument k, from a given start.
Before(types, k, start) == Walk(types, start)[k - 1]

\* e is the n-th eightbyte of its class, n from 0.
Rank(c, e) == Cardinality({d \in DOMAIN c : d < e /\ c[d] = c[e]})

\* The registers from number `from' on, loaded with the eightbytes of one class.
Load(regs, from, c, cls, words) ==
  [r \in DOMAIN regs |->
     LET hits == {e \in DOMAIN c : c[e] = cls /\ r = from + Rank(c, e)}
     IN  IF hits = {} THEN regs[r] ELSE words[CHOOSE e \in hits : TRUE]]

\* Bytes of eightbyte e and after.
Remaining(ty, e) == ty.size - 8 * e

\* A mutation: a copy of everything that remains.
HeldUncapped(ty, e) == Remaining(ty, e)

\* How many of them are in it.
Held(ty, e) == IF Remaining(ty, e) >= 8 THEN 8 ELSE Remaining(ty, e)

\* emit_load_eightbyte_from_mem, emit_store_eightbyte_to_mem: one move of 8,
\* 4, 2 or 1 bytes.
IntWidth(remaining) ==
  CASE remaining >= 8 -> 8
    [] remaining \in 4 .. 7 -> 4
    [] remaining \in 2 .. 3 -> 2
    [] OTHER -> 1

\* movsd or movss.
SseWidth(remaining) == IF remaining >= 8 THEN 8 ELSE 4

Words(ty) == 0 .. Eightbytes(Bytes(ty.size)) - 1

-----------------------------------------------------------------------------
(* The caller *)

\* First pass: classify an argument and count its bytes on the stack.
Classify(op) ==
  /\ pc = "count"
  /\ Len(args) < MaxArgs
  /\ args' = Append(args, op)
  /\ st' = After(st, op.type)
  /\ UNCHANGED <<ret, pc, i, popped, depth, ireg, xreg, stack, params, retregs, result>>

\* A mutation: the frame is taken to be all there is on the stack.
AlignPadFrameOnly == IF FrameSize % 16 # 0 THEN 16 - (FrameSize % 16) ELSE 0

\* align_pad: rsp is to be 16-aligned when the callee is entered.
AlignPad ==
  LET used == (FrameSize + st.stack) % 16
  IN  IF used # 0 THEN 16 - used ELSE 0

EndClassify ==
  /\ pc = "count"
  /\ pc' = "push"
  /\ i' = Len(args)
  /\ popped' = st.stack + AlignPad
  /\ depth' = AlignPad
  /\ UNCHANGED <<ret, args, st, ireg, xreg, stack, params, retregs, result>>

ArgTypes == [k \in DOMAIN args |-> args[k].type]

\* A mutation: the simulation forgets the hidden result pointer.
SimulatedNoSret(k) == Before(ArgTypes, k, [int |-> 0, sse |-> 0, stack |-> 0])

\* The second pass goes backwards and re-simulates the arguments before k.
Simulated(k) == Before(ArgTypes, k, [int |-> IntAtStart, sse |-> 0, stack |-> 0])

\* An aggregate is copied byte for byte; a scalar is moved through rax, where
\* a floating constant is never loaded (load_reg clears the register).
PushedWords(k) ==
  LET ty == args[k].type
  IN  [w \in 1 .. Cardinality(Words(ty)) |->
         IF ty.agg THEN Word(k, w - 1, Held(ty, w - 1))
         ELSE IF w = 1 /\ ~args[k].fconst THEN Word(k, 0, 8)
         ELSE Junk]

PushOn(k) == PushedWords(k) \o stack

\* Second pass: what does not travel in registers is pushed, last to first.
PushArg ==
  /\ pc = "push"
  /\ i > 0
  /\ IF InRegisters(Simulated(i), args[i].type)
     THEN UNCHANGED <<stack, depth>>
     ELSE /\ stack' = PushOn(i)
          /\ depth' = depth + AlignUp(Bytes(args[i].type.size), 8)
  /\ i' = i - 1
  /\ UNCHANGED <<ret, args, pc, st, popped, ireg, xreg, params, retregs, result>>

EndPush ==
  /\ pc = "push"
  /\ i = 0
  /\ pc' = "load"
  /\ i' = 1
  /\ st' = [st EXCEPT !.int = IntAtStart, !.sse = 0]
  /\ UNCHANGED <<ret, args, popped, depth, ireg, xreg, stack, params, retregs, result>>

\* Third pass, an argument on the stack: skipped.
SkipArg ==
  /\ pc = "load"
  /\ i <= Len(args)
  /\ ~InRegisters(st, args[i].type)
  /\ i' = i + 1
  /\ UNCHANGED <<ret, args, pc, st, popped, depth, ireg, xreg, stack, params, retregs, result>>

\* Third pass, a struct or union: one register per eightbyte.
LoadAggregate ==
  /\ pc = "load"
  /\ i <= Len(args)
  /\ LET ty == args[i].type
         c  == abi_classify(ty)
     IN  /\ ty.agg
         /\ InRegisters(st, ty)
         /\ ireg' = Load(ireg, st.int, c, "INTEGER",
                         [e \in DOMAIN c |-> Word(i, e, IntWidth(Remaining(ty, e)))])
         /\ xreg' = Load(xreg, st.sse, c, "SSE",
                         [e \in DOMAIN c |-> Word(i, e, SseWidth(Remaining(ty, e)))])
         /\ st' = [st EXCEPT !.int = @ + Count(ty, "INTEGER"), !.sse = @ + Count(ty, "SSE")]
  /\ i' = i + 1
  /\ UNCHANGED <<ret, args, pc, popped, depth, stack, params, retregs, result>>

\* Third pass, float or double.
LoadSse ==
  /\ pc = "load"
  /\ i <= Len(args)
  /\ LET ty == args[i].type
     IN  /\ ~ty.agg
         /\ InRegisters(st, ty)
         /\ abi_classify(ty) = [e \in {0} |-> "SSE"]
         /\ xreg' = [xreg EXCEPT ![st.sse] = Word(i, 0, SseWidth(ty.size))]
  /\ st' = [st EXCEPT !.sse = @ + 1]
  /\ i' = i + 1
  /\ UNCHANGED <<ret, args, pc, popped, depth, ireg, stack, params, retregs, result>>

\* Third pass, every other scalar, whatever its class: the next integer
\* register gets its slot.  Past the last one the register's name is read
\* from beyond param_regs; it is no argument register.
LoadInt ==
  /\ pc = "load"
  /\ i <= Len(args)
  /\ LET ty == args[i].type
     IN  /\ ~ty.agg
         /\ InRegisters(st, ty)
         /\ abi_classify(ty) # [e \in {0} |-> "SSE"]
  /\ ireg' = IF st.int < NInt THEN [ireg EXCEPT ![st.int] = Word(i, 0, 8)] ELSE ireg
  /\ st' = [st EXCEPT !.int = @ + 1]
  /\ i' = i + 1
  /\ UNCHANGED <<ret, args, pc, popped, depth, xreg, stack, params, retregs, result>>

\* The result's address into rdi, and the call.
Call ==
  /\ pc = "load"
  /\ i = Len(args) + 1
  /\ pc' = "callee"
  /\ i' = 1
  /\ ireg' = IF call_sret THEN [ireg EXCEPT ![0] = Sret] ELSE ireg
  /\ UNCHANGED <<ret, args, st, popped, depth, xreg, stack, params, retregs, result>>

-----------------------------------------------------------------------------
(* The callee *)

ParamTypes == [k \in DOMAIN args |-> args[k].param]

\* What the parameters before k have taken; stack arguments begin 16 bytes
\* above rbp.
compute_arg_state(k) ==
  Before(ParamTypes, k, [int |-> IntAtStart, sse |-> 0, stack |-> 16])

ReadReg(regs, r) == IF r \in DOMAIN regs THEN regs[r] ELSE Junk

FromRegisters(k) ==
  LET ty == args[k].param
      s  == compute_arg_state(k)
      c  == abi_classify(ty)
  IN  [e \in DOMAIN c |->
         IF c[e] = "INTEGER"
         THEN Clip(ReadReg(ireg, s.int + Rank(c, e)), IntWidth(Remaining(ty, e)))
         ELSE IF c[e] = "SSE"
         THEN Clip(ReadReg(xreg, s.sse + Rank(c, e)), SseWidth(Remaining(ty, e)))
         ELSE Junk]

FromStack(k) ==
  LET ty    == args[k].param
      first == (compute_arg_state(k).stack - 16) \div 8
  IN  [e \in Words(ty) |->
         IF first + e + 1 \in DOMAIN stack
         THEN Clip(stack[first + e + 1], Remaining(ty, e))
         ELSE Junk]

Captured(k) ==
  IF InRegisters(compute_arg_state(k), args[k].param) THEN FromRegisters(k) ELSE FromStack(k)

\* A named parameter is captured before the body runs; all captures come
\* before the stores that would reuse xmm0.
CaptureParam ==
  /\ pc = "callee"
  /\ i <= Len(args)
  /\ params' = Append(params, Captured(i))
  /\ i' = i + 1
  /\ UNCHANGED <<ret, args, pc, st, popped, depth, ireg, xreg, stack, retregs, result>>

\* An unnamed parameter keeps its position but is not captured.
UnnamedParam ==
  /\ pc = "callee"
  /\ i <= Len(args)
  /\ params' = Append(params, << >>)
  /\ i' = i + 1
  /\ UNCHANGED <<ret, args, pc, st, popped, depth, ireg, xreg, stack, retregs, result>>

Body ==
  /\ pc = "callee"
  /\ i = Len(args) + 1
  /\ pc' = "return"
  /\ UNCHANGED <<ret, args, i, st, popped, depth, ireg, xreg, stack, params, retregs, result>>

-----------------------------------------------------------------------------
(* The way back *)

\* A store of n bytes of a word.
Stored(w, n) == [word |-> Clip(w, n), stored |-> n]

\* IR_RET: through the hidden pointer, or in rax, rdx, xmm0, xmm1.
IrRet ==
  /\ pc = "return"
  /\ pc' = "result"
  /\ LET c == abi_classify(ret)
     IN  IF call_sret
         THEN /\ result' = IF ireg[0] = Sret
                           THEN [e \in Words(ret) |->
                                   Stored(Word(Result, e, 8), Held(ret, e))]
                           ELSE [e \in {} |-> Junk]
              /\ UNCHANGED retregs
         ELSE /\ retregs' =
                   [int |-> Load(retregs.int, 0, c, "INTEGER",
                                 [e \in DOMAIN c |->
                                    Word(Result, e,
                                      IF ret.agg THEN IntWidth(Remaining(ret, e)) ELSE 8)]),
                    sse |-> Load(retregs.sse, 0, c, "SSE",
                                 [e \in DOMAIN c |->
                                    Word(Result, e, SseWidth(Remaining(ret, e)))])]
              /\ UNCHANGED result
  /\ UNCHANGED <<ret, args, i, st, popped, depth, ireg, xreg, stack, params>>

\* A mutation: both eightbytes of a struct are taken from the first register.
ReturnRankFirst(c, e) == 0

\* The register of its class an eightbyte of the result is taken from.
ReturnRank(c, e) == Rank(c, e)

\* The rest of IR_CALL: rsp restored, the result stored.
TakeResult ==
  /\ pc = "result"
  /\ pc' = "done"
  /\ depth' = depth - popped
  /\ LET c == abi_classify(ret)
     IN  IF call_sret THEN UNCHANGED result
         ELSE result' =
                [e \in DOMAIN c |->
                   IF c[e] = "INTEGER"
                   THEN Stored(retregs.int[ReturnRank(c, e)], IntWidth(Remaining(ret, e)))
                   ELSE IF c[e] = "SSE"
                   THEN Stored(retregs.sse[ReturnRank(c, e)],
                               IF ret.agg THEN 8 ELSE SseWidth(ret.size))
                   ELSE Stored(Junk, 0)]
  /\ UNCHANGED <<ret, args, i, st, popped, ireg, xreg, stack, params, retregs>>

Next ==
  \/ \E op \in Operands : Classify(op)
  \/ EndClassify
  \/ PushArg \/ EndPush
  \/ SkipArg \/ LoadAggregate \/ LoadSse \/ LoadInt \/ Call
  \/ CaptureParam \/ UnnamedParam \/ Body
  \/ IrRet \/ TakeResult

Spec == Init /\ [][Next]_vars

-----------------------------------------------------------------------------
(* Properties *)

WordType == [arg : -2 .. MaxArgs, eb : Nat, bytes : 0 .. 8]

\* Registers and stack hold words of this call; counters are byte counts.
TypeOK ==
  /\ ret \in RetTypes /\ args \in Seq(Operands)
  /\ pc \in {"count", "push", "load", "callee", "return", "result", "done"}
  /\ i \in 0 .. MaxArgs + 1
  /\ st \in [int : Nat, sse : Nat, stack : Nat]
  /\ popped \in Nat /\ depth \in Nat
  /\ ireg \in [0 .. NInt - 1 -> WordType] /\ xreg \in [0 .. NSse - 1 -> WordType]
  /\ stack \in Seq(WordType)

\* Every parameter the callee reads is, byte for byte, the argument the caller
\* passed in its place: the four register assignments agree, the pushes are in
\* the order the callee's offsets assume, and no move is narrower than the data.
ArgumentsArrive ==
  \A k \in DOMAIN params :
    params[k] # << >> =>
      \A e \in Words(args[k].param) :
        /\ params[k][e].arg = k
        /\ params[k][e].eb = e
        /\ params[k][e].bytes >= Held(args[k].param, e)

\* rsp is a multiple of 16 when the callee is entered, although the padding is
\* computed before, and apart from, the pushes; after the call rsp is back.
StackBalanced ==
  /\ pc = "callee" => (FrameSize + depth) % 16 = 0
  /\ pc = "done" => depth = 0

\* The caller's object receives the whole result, from the registers (or
\* through the pointer) the callee put it in, and no store reaches beyond it
\* into what the frame keeps above.
ResultArrives ==
  pc = "done" =>
    /\ \A e \in Words(ret) :
         /\ e \in DOMAIN result
         /\ result[e].word.arg = Result /\ result[e].word.eb = e
         /\ result[e].word.bytes >= Held(ret, e)
    /\ ret.agg => \A e \in DOMAIN result : result[e].stored <= Remaining(ret, e)
=============================================================================
