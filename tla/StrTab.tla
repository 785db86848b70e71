------------------------------- MODULE StrTab --------------------------------
(***************************************************************************)
(* The string interning table of src/src/strtab.c: three parallel arrays   *)
(* (entries, lengths, hashes), modelled as one array of records, searched  *)
(* linearly and doubled when full.  Strings are byte sequences, NUL bytes  *)
(* included: the table compares (hash, length, bytes), never C strings.    *)
(***************************************************************************)
EXTENDS Integers, Sequences

CONSTANTS
  Bytes,        \* the alphabet
  Strings,      \* the strings the lexer may hand over
  Hash,         \* fnv1a, any function at all: collisions are allowed
  INITIAL_CAP,  \* STRTAB_INITIAL_CAP
  MaxCap,       \* bound: largest capacity reached
  UNINIT        \* contents of calloc'ed or freshly realloc'ed memory

ASSUME StrTabConstants ==
  /\ Strings \subseteq Seq(Bytes)
  /\ Hash \in [Strings -> Nat]
  /\ INITIAL_CAP \in Nat \ {0}
  /\ MaxCap \in Nat

VARIABLES
  tab_status,  \* "open" | "freed" | "exited"
  entries,     \* [0 .. cap-1 -> Entry \union {UNINIT}]
  count,
  cap,
  result       \* the last answer, with what was asked: <<"index", i, s>>,
               \* <<"string", s, i>>, Nothing

tab_vars == <<tab_status, entries, count, cap, result>>

Nothing == <<"none">>

Entry == [str : Strings, len : Nat, hash : Nat]

fnv1a(s) == Hash[s]

\* strtab_init: calloc clears the arrays.
TabInit ==
  /\ tab_status = "open"
  /\ cap = INITIAL_CAP
  /\ entries = [i \in 0 .. INITIAL_CAP - 1 |-> UNINIT]
  /\ count = 0
  /\ result = Nothing

\* A mutation: the length test is dropped.
MatchesPrefix(i, s) ==
  /\ entries[i].hash = fnv1a(s)
  /\ Len(s) <= entries[i].len
  /\ SubSeq(entries[i].str, 1, Len(s)) = s

\* hashes[i] == h && lengths[i] == len && memcmp(entries[i], s, len) == 0
Matches(i, s) ==
  /\ entries[i].hash = fnv1a(s)
  /\ entries[i].len = Len(s)
  /\ SubSeq(entries[i].str, 1, Len(s)) = SubSeq(s, 1, Len(s))

\* A mutation: the scan stops one entry early.
LastScannedEarly == count - 2

\* find_slot looks at entries 0 .. count-1 ...
LastScanned == count - 1

\* ... and returns the first that matches.
find_slot(i, s) ==
  /\ i \in 0 .. LastScanned
  /\ Matches(i, s)
  /\ \A j \in 0 .. i - 1 : ~Matches(j, s)

NotFound(s) == \A i \in 0 .. LastScanned : ~Matches(i, s)

\* A mutation: the table grows one entry too late.
FullLate == count > cap

Full == count >= cap

\* grow_if_needed: the capacity and the arrays after the call.
GrownCap == IF Full THEN cap * 2 ELSE cap
Grown ==
  [i \in 0 .. GrownCap - 1 |-> IF i < cap THEN entries[i] ELSE UNINIT]

\* A store through the array, in bounds or not.
Store(f, i, v) == [j \in DOMAIN f \union {i} |-> IF j = i THEN v ELSE f[j]]

InternExisting(s) ==
  \E i \in 0 .. count - 1 :
    /\ find_slot(i, s)
    /\ result' = <<"index", i, s>>
    /\ UNCHANGED <<tab_status, entries, count, cap>>

InternNew(s) ==
  /\ NotFound(s)
  /\ GrownCap <= MaxCap
  /\ cap' = GrownCap
  /\ entries' = Store(Grown, count,
                      [str |-> s, len |-> Len(s), hash |-> fnv1a(s)])
  /\ count' = count + 1
  /\ result' = <<"index", count, s>>
  /\ tab_status' = tab_status

\* realloc, or malloc in arena_strdup, fails: the program exits.
InternOutOfMemory(s) ==
  /\ NotFound(s)
  /\ tab_status' = "exited"
  /\ result' = Nothing
  /\ UNCHANGED <<entries, count, cap>>

strtab_intern(s) ==
  /\ tab_status = "open"
  /\ InternExisting(s) \/ InternNew(s) \/ InternOutOfMemory(s)

strtab_get(i) ==
  /\ tab_status = "open"
  /\ result' = IF i < 0 \/ i >= count THEN Nothing
               ELSE <<"string", entries[i].str, i>>
  /\ UNCHANGED <<tab_status, entries, count, cap>>

strtab_free ==
  /\ tab_status = "open"
  /\ tab_status' = "freed"
  /\ entries' = << >>
  /\ count' = 0
  /\ cap' = 0
  /\ result' = Nothing

TabNext ==
  \/ \E s \in Strings : strtab_intern(s)
  \/ \E i \in -1 .. MaxCap : strtab_get(i)
  \/ strtab_free

TabSpec == TabInit /\ [][TabNext]_tab_vars

-----------------------------------------------------------------------------
(* Properties *)

\* The arrays have exactly cap elements: no entry was ever stored past the
\* end, and the entries below count hold strings.
TabTypeOK ==
  /\ tab_status \in {"open", "freed", "exited"}
  /\ cap \in Nat
  /\ count \in 0 .. cap
  /\ DOMAIN entries = 0 .. cap - 1
  /\ \A i \in 0 .. count - 1 : entries[i] \in Entry
  /\ \/ result = Nothing
     \/ result[1] = "index" /\ result[2] \in Nat
     \/ result[1] = "string" /\ result[2] \in Strings

\* The cached length and hash of an entry are those of its string.  A stale
\* one would make the string unfindable, and intern it a second time.
CacheCoherent ==
  \A i \in 0 .. count - 1 :
    /\ entries[i].len = Len(entries[i].str)
    /\ entries[i].hash = fnv1a(entries[i].str)

\* One index per string, whatever collides: the lexer and the parser compare
\* identifiers by index or by the pointer behind it.
Injective ==
  \A i, j \in 0 .. count - 1 : entries[i].str = entries[j].str => i = j

\* What a client sees of the table.
AbsTable ==
  IF tab_status = "exited" THEN << >>
  ELSE [i \in 1 .. count |-> entries[i - 1].str]

Abs == INSTANCE Interner WITH table <- AbsTable

\* The concrete table implements the abstract one: collisions, growth and
\* the moving arrays of strtab.c are invisible to its clients.
Implements == Abs!Spec
=============================================================================
