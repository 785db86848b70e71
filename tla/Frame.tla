-------------------------------- MODULE Frame --------------------------------
(***************************************************************************)
(* The stack frame of one function: the IR generator numbers temporaries   *)
(* (ir_new_temp) and asks for storage (gen_alloca_value), then             *)
(* regalloc_run gives every temporary an 8-byte slot and every IR_ALLOCA a *)
(* region below the slots, and rounds the frame to 16 bytes.  All generated *)
(* code addresses memory through these offsets from a 16-aligned rbp.      *)
(***************************************************************************)
EXTENDS Integers, Sequences, Align

CONSTANTS
  Types,      \* types a variable may be declared with: [size, align, vla, need]
              \* size = type_sizeof (-1: incomplete), vla = array without a
              \* constant bound, need = bytes the program stores in the object
  VLA_BYTES,  \* storage of a VLA: 4096
  MaxTemps    \* bound: temporaries of one function

ASSUME FrameConstants ==
  /\ VLA_BYTES \in Nat \ {0} /\ VLA_BYTES % 16 = 0
  /\ MaxTemps \in Nat
  /\ \A t \in Types : /\ t.size \in Nat \union {-1}
                      /\ t.align \in Nat \ {0} /\ 16 % t.align = 0
                      /\ t.vla \in BOOLEAN /\ t.need \in Nat

VARIABLES
  phase,       \* "irgen" | "allocas" | "done"
  next_temp,   \* IRFunc.next_temp: the next temporary to hand out
  allocas,     \* the IR_ALLOCA instructions emitted: <<[temp, size, align, type], ...>>
  pos,         \* allocas placed so far
  alloca_cur,  \* bytes used below rbp
  slot,        \* slot[t], a negative offset from rbp
  alloca_off,  \* alloca_off[t], 0 = no storage
  frame_size

frame_vars == <<phase, next_temp, allocas, pos, alloca_cur, slot, alloca_off, frame_size>>

FrameInit ==
  /\ phase = "irgen"
  /\ next_temp = 1
  /\ allocas = << >>
  /\ pos = 0
  /\ alloca_cur = 0
  /\ slot = << >>
  /\ alloca_off = << >>
  /\ frame_size = 0

-----------------------------------------------------------------------------
(* IR generation *)

\* Any instruction with a result: a fresh temporary.
ir_new_temp ==
  /\ phase = "irgen"
  /\ next_temp < MaxTemps
  /\ next_temp' = next_temp + 1
  /\ UNCHANGED <<phase, allocas, pos, alloca_cur, slot, alloca_off, frame_size>>

\* A mutation: type_sizeof's -1 is taken as a size.
StorageRaw(t) == t.size

\* Bytes requested for a variable of type t.
StorageFor(t) ==
  IF t.size > 0 THEN t.size ELSE IF t.vla THEN VLA_BYTES ELSE 8

\* A mutation: the address of the storage reuses the last temporary.
AllocaTempReused == IF next_temp > 1 THEN next_temp - 1 ELSE next_temp

\* The temporary that receives the address.
AllocaTemp == next_temp

\* gen_alloca_value: a temporary for the address, an IR_ALLOCA defining it.
gen_alloca_value(t) ==
  /\ phase = "irgen"
  /\ next_temp < MaxTemps
  /\ next_temp' = next_temp + 1
  /\ allocas' = Append(allocas, [temp |-> AllocaTemp, size |-> StorageFor(t),
                                 align |-> t.align, type |-> t])
  /\ UNCHANGED <<phase, pos, alloca_cur, slot, alloca_off, frame_size>>

-----------------------------------------------------------------------------
(* regalloc_run *)

Temps == 1 .. next_temp - 1

\* The slots of temporaries 1 .. next_temp-1, and room for temporary 0.
TempArea == 8 * next_temp

\* Phase 1: slots; the alloca area starts below them.
AssignSlots ==
  /\ phase = "irgen"
  /\ phase' = "allocas"
  /\ slot' = [t \in Temps |-> -8 * t]
  /\ alloca_off' = [t \in Temps |-> 0]
  /\ alloca_cur' = TempArea
  /\ UNCHANGED <<next_temp, allocas, pos, frame_size>>

\* The lower end of the next region, as a distance below rbp.
Bottom(a) == AlignUp(alloca_cur, a.align) + a.size

\* Phase 2: one IR_ALLOCA in program order.
PlaceAlloca ==
  /\ phase = "allocas"
  /\ pos < Len(allocas)
  /\ LET a == allocas[pos + 1]
     IN  /\ alloca_cur' = Bottom(a)
         /\ alloca_off' = [alloca_off EXCEPT ![a.temp] = -Bottom(a)]
  /\ pos' = pos + 1
  /\ UNCHANGED <<phase, next_temp, allocas, slot, frame_size>>

\* A mutation: the frame is not rounded.
FrameSizeRaw == alloca_cur

FrameSize == IF alloca_cur = 0 THEN 16 ELSE AlignUp(alloca_cur, 16)

Finish ==
  /\ phase = "allocas"
  /\ pos = Len(allocas)
  /\ phase' = "done"
  /\ frame_size' = FrameSize
  /\ UNCHANGED <<next_temp, allocas, pos, alloca_cur, slot, alloca_off>>

FrameNext ==
  \/ ir_new_temp
  \/ \E t \in Types : gen_alloca_value(t)
  \/ AssignSlots
  \/ PlaceAlloca
  \/ Finish

FrameSpec == FrameInit /\ [][FrameNext]_frame_vars

-----------------------------------------------------------------------------
(* Properties *)

AllocaRec == [temp : Nat \ {0}, size : Nat \ {0}, align : Nat \ {0}, type : Types]

\* Variables have the types their C declarations give them.
FrameTypeOK ==
  /\ phase \in {"irgen", "allocas", "done"}
  /\ next_temp \in Nat \ {0}
  /\ allocas \in Seq(AllocaRec)
  /\ pos \in 0 .. Len(allocas)
  /\ alloca_cur \in Nat /\ frame_size \in Nat
  /\ phase # "irgen" => /\ slot \in [Temps -> Int]
                        /\ alloca_off \in [Temps -> Int]

\* The storage of the k-th alloca is [Low(k), High(k)) relative to rbp.
Low(k)  == alloca_off[allocas[k].temp]
High(k) == Low(k) + allocas[k].size

\* No byte of the frame has two owners: storage regions are disjoint from
\* each other and from the value slots of all temporaries, so a store to one
\* C variable never changes another variable or a computed value.
StorageDisjoint ==
  /\ \A k \in 1 .. pos : \A t \in Temps : High(k) <= slot[t]
  /\ \A k, l \in 1 .. pos : k < l => High(l) <= Low(k)
  /\ phase # "irgen" => \A t, u \in Temps : t < u => slot[u] + 8 <= slot[t]

\* Everything lies between rbp and rsp, and rsp stays 16-aligned: a signal or
\* a callee below rsp never touches the frame, and IR_CALL may rely on
\* frame_size % 16 = 0 when it aligns the stack (codegen.c:732-737).
InFrame ==
  phase = "done" =>
    /\ frame_size % 16 = 0 /\ frame_size > 0
    /\ \A t \in Temps : -frame_size <= slot[t] /\ slot[t] + 8 <= 0
    /\ \A k \in 1 .. pos : -frame_size <= Low(k)

\* A variable of complete type is aligned as its type requires.
CompleteAligned ==
  \A k \in 1 .. pos :
    allocas[k].size % allocas[k].align = 0 => (-Low(k)) % allocas[k].align = 0

\* README.md:88 lists local aggregate initializers as validated: the storage
\* holds what the initializer stores.
StorageSuffices ==
  \A k \in 1 .. pos : ~allocas[k].type.vla => allocas[k].type.need <= allocas[k].size
=============================================================================
