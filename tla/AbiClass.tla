------------------------------- MODULE AbiClass -------------------------------
(***************************************************************************)
(* src/src/abi_classify.c: the System V class of each eightbyte of a type.  *)
(* Caller, callee and return path all ask this one function where a value  *)
(* travels.                                                                 *)
(*                                                                         *)
(* A type is [size, agg, leaves]: agg = struct or union; leaves = what       *)
(* classify_range reaches in it, in order: its scalars, every element of an *)
(* array at its own offset ("X87": a long double), and after the scalars of *)
(* a nested struct or union its "END", where classify_range runs the        *)
(* post-merger of that aggregate.  type_sizeof of void, functions and       *)
(* incomplete types is -1.  The branches for a nested aggregate of more     *)
(* than two eightbytes and for a misaligned field cannot be reached below   *)
(* an aggregate of two eightbytes that type_seal_struct laid out.           *)
(***************************************************************************)
EXTENDS Integers, Sequences

Scalars == [off : Nat, cls : {"INTEGER", "SSE", "X87", "END"}]
AbiTypes == [size : Int, agg : BOOLEAN, leaves : Seq(Scalars)]

MAX_EIGHTBYTES == 2

\* The class of an eightbyte two scalars share.
merge_class(a, b) ==
  IF a = b \/ b = "NONE" THEN a
  ELSE IF a = "NONE" THEN b
  ELSE IF "MEMORY" \in {a, b} THEN "MEMORY"
  ELSE IF "INTEGER" \in {a, b} THEN "INTEGER"
  ELSE IF {a, b} \cap {"X87", "X87UP"} # {} THEN "MEMORY"
  ELSE "SSE"

\* One eightbyte in memory, or an X87UP without its X87: all of it is.
PostMerger(classes) ==
  IF \E e \in DOMAIN classes :
       \/ classes[e] = "MEMORY"
       \/ classes[e] = "X87UP" /\ (e = 0 \/ classes[e - 1] # "X87")
  THEN [e \in DOMAIN classes |-> "MEMORY"]
  ELSE classes

\* One scalar merged into the eightbyte at its offset.
Share(classes, eb, cls) ==
  [e \in DOMAIN classes |->
     IF e = eb THEN merge_class(classes[e], cls)
     ELSE IF cls = "X87" /\ e = eb + 1 THEN merge_class(classes[e], "X87UP")
     ELSE classes[e]]

\* The post-merger of a nested aggregate sees all that was merged so far.
classify_range(classes, leaf) ==
  LET eb == leaf.off \div 8
  IN  IF eb \notin DOMAIN classes THEN classes
      ELSE IF leaf.cls = "END" THEN PostMerger(classes)
      ELSE Share(classes, eb, leaf.cls)

Eightbytes(size) == (size + 7) \div 8

\* The classes of n eightbytes after each number of leaves.
ClassesAfter(leaves, n) ==
  LET classes[j \in 0 .. Len(leaves)] ==
        IF j = 0 THEN [e \in 0 .. n - 1 |-> "NONE"]
        ELSE classify_range(classes[j - 1], leaves[j])
  IN  classes

\* The classes of eightbytes 0, 1, ...; none for a type without a size.
abi_classify(ty) ==
  LET n       == Eightbytes(ty.size)
      classes == ClassesAfter(ty.leaves, n)[Len(ty.leaves)]
  IN  IF ty.size <= 0 THEN [e \in {} |-> "NONE"]
      ELSE IF n > MAX_EIGHTBYTES THEN [e \in {0} |-> "MEMORY"]
      ELSE IF ty.agg THEN PostMerger(classes)
      ELSE classes

abi_in_memory(classes) == \E e \in DOMAIN classes : classes[e] = "MEMORY"
=============================================================================
