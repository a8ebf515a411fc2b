------------------------------ MODULE Collector ------------------------------
(***************************************************************************)
(* The mark-and-sweep collector (gc.c) and the allocation functions on it  *)
(* (alloc.c).  The side table is a sequence whose entries are removed by   *)
(* moving the last one into the hole.  Marking follows the pointers the    *)
(* type information names; its recursion is a set of pointers still to be  *)
(* visited, in any order.                                                  *)
(*                                                                         *)
(* The mutator keeps the rule compiled code is built on: a pointer it uses *)
(* is in a root slot or in an object that is reachable from one.           *)
(***************************************************************************)
EXTENDS Integers, Sequences, FiniteSetsExt, SequencesExt

CONSTANTS
  Object,    \* addresses sn_alloc may return
  Literal,   \* pointers that are in no table: string literals, null
  Global,    \* global root slots and the pending exception's slot
  Opaque,    \* addresses of objects whose pointers the collector does not follow
  Size,      \* bytes of an object at an address
  MaxSlots,  \* bound: root slots on the shadow stack
  MaxFields  \* bound: pointers stored in one object

ASSUME LiteralAssumption == Literal # {} /\ Object \cap Literal = {}
ASSUME BoundAssumption == MaxSlots \in Nat /\ MaxFields \in Nat /\ Opaque \subseteq Object
ASSUME SizeAssumption == Size \in [Object -> Nat]

Pointer == Object \cup Literal

VARIABLES
  table,    \* heap[0 .. heap_len-1]: the objects the collector knows
  marked,   \* objects whose mark bit is set
  field,    \* the objects an object's memory holds the addresses of
  slot,     \* contents of the slots on the shadow stack, oldest first
  global,   \* contents of the global slots
  bytes,    \* bytes_allocated
  phase,    \* "run", or inside sn_gc_collect "mark" or "sweep"
  todo,     \* "mark": pointers mark_object has still to visit
  at        \* "sweep": index of the entry looked at

heap == <<table, bytes>>
program == <<slot, global>>
vars == <<table, marked, field, slot, global, bytes, phase, todo, at>>

TypeOK ==
  /\ table \in Seq(Object)
  /\ marked \in SUBSET Object
  /\ field \in [Object -> SUBSET Object]
  /\ slot \in Seq(Pointer)
  /\ global \in [Global -> Pointer]
  /\ bytes \in Int
  /\ phase \in {"run", "mark", "sweep"}
  /\ todo \in SUBSET Pointer
  /\ at \in Nat \ {0}

-----------------------------------------------------------------------------
Known == ToSet(table)
Roots == ToSet(slot) \cup {global[g] : g \in Global}

\* The pointers mark_object finds in an object.
Scan(o) == IF o \in Opaque THEN {} ELSE field[o]

\* S holds the objects in root slots and whatever its own objects point to.
Closed(S) == Roots \cap Object \subseteq S /\ \A o \in S : Scan(o) \subseteq S

Reachable == {o \in Object : \A S \in SUBSET Object : Closed(S) => o \in S}

\* heap[i] = heap[heap_len - 1], heap_len -= 1.
SwapRemove(s, i) == SubSeq([s EXCEPT ![i] = s[Len(s)]], 1, Len(s) - 1)

IndexIn(o) == CHOOSE i \in DOMAIN table : table[i] = o

\* The contents of freed memory are gone.
Forget(o) == field' = [field EXCEPT ![o] = {}]

\* bytes_allocated never goes below zero.
Less(n) == IF bytes < n THEN 0 ELSE bytes - n

Init ==
  /\ table = <<>> /\ marked = {}
  /\ field = [o \in Object |-> {}]
  /\ slot = <<>>
  /\ global \in [Global -> Literal]
  /\ bytes = 0 /\ phase = "run" /\ todo = {} /\ at = 1

-----------------------------------------------------------------------------
(* The mutator. *)

Idle == phase = "run" /\ UNCHANGED <<marked, phase, todo, at>>

\* sn_alloc; the caller keeps the result in a root slot.
Alloc(o) ==
  /\ Idle
  /\ o \notin Known /\ Len(slot) < MaxSlots
  /\ table' = Append(table, o)
  /\ bytes' = bytes + Size[o]
  /\ slot' = Append(slot, o)
  /\ UNCHANGED <<field, global>>

\* Mutant: the size of the block that moved is not taken off the account.
ReallocAdds(o, p, n) ==
  /\ Idle
  /\ o \in Reachable /\ p \in field[o] /\ o # p
  /\ n \notin Known /\ (n \in Opaque <=> p \in Opaque)
  /\ p \in Known /\ p \notin Roots /\ \A x \in Object \ {o} : p \notin field[x]
  /\ table' = [table EXCEPT ![IndexIn(p)] = n]
  /\ bytes' = bytes + Size[n]
  /\ field' = [field EXCEPT ![o] = (@ \ {p}) \cup {n}, ![n] = field[p], ![p] = {}]
  /\ UNCHANGED <<slot, global>>

\* sn_realloc of the buffer p that only o points to, moved to n.
Realloc(o, p, n) ==
  /\ Idle
  /\ o \in Reachable /\ p \in field[o] /\ o # p
  /\ n \notin Known /\ (n \in Opaque <=> p \in Opaque)
  /\ p \in Known /\ p \notin Roots /\ \A x \in Object \ {o} : p \notin field[x]
  /\ table' = [table EXCEPT ![IndexIn(p)] = n]
  /\ bytes' = bytes - Size[p] + Size[n]
  /\ field' = [field EXCEPT ![o] = (@ \ {p}) \cup {n}, ![n] = field[p], ![p] = {}]
  /\ UNCHANGED <<slot, global>>

\* sn_free of a temporary nobody points to.
Free(o) ==
  /\ Idle
  /\ o \in Known /\ o \notin Roots /\ \A x \in Object : o \notin field[x]
  /\ table' = SwapRemove(table, IndexIn(o))
  /\ bytes' = Less(Size[o])
  /\ Forget(o)
  /\ UNCHANGED <<slot, global>>

\* A pointer the program can reach is stored in an object it can reach.
Store(o, p) ==
  /\ Idle
  /\ {o, p} \subseteq Reachable
  /\ Cardinality(field[o] \cup {p}) <= MaxFields
  /\ field' = [field EXCEPT ![o] = @ \cup {p}]
  /\ UNCHANGED <<heap, program>>

Clear(o, p) ==
  /\ Idle
  /\ o \in Reachable /\ p \in field[o]
  /\ field' = [field EXCEPT ![o] = @ \ {p}]
  /\ UNCHANGED <<heap, program>>

\* sn_gc_root_push of a slot that holds p.
Push(p) ==
  /\ Idle
  /\ p \in Reachable \cup Literal /\ Len(slot) < MaxSlots
  /\ slot' = Append(slot, p)
  /\ UNCHANGED <<heap, field, global>>

\* sn_gc_root_restore at a return or in a throw.
Restore(n) ==
  /\ Idle
  /\ n < Len(slot)
  /\ slot' = SubSeq(slot, 1, n)
  /\ UNCHANGED <<heap, field, global>>

\* A global variable, or the pending exception, is set.
SetGlobal(g, p) ==
  /\ Idle
  /\ p \in Reachable \cup Literal
  /\ global' = [global EXCEPT ![g] = p]
  /\ UNCHANGED <<heap, field, slot>>

-----------------------------------------------------------------------------
(* sn_gc_collect, called by sn_alloc, sn_realloc or the program. *)

\* Mutant: global slots are not marked.
CollectSlotsOnly ==
  /\ phase = "run"
  /\ phase' = "mark"
  /\ marked' = {}
  /\ todo' = ToSet(slot)
  /\ UNCHANGED <<heap, field, program, at>>

Collect ==
  /\ phase = "run"
  /\ phase' = "mark"
  /\ marked' = {}
  /\ todo' = Roots
  /\ UNCHANGED <<heap, field, program, at>>

\* Mutant: the children of an object are not visited.
MarkShallow(p) ==
  /\ phase = "mark" /\ p \in todo
  /\ marked' = marked \cup ({p} \cap Known) /\ todo' = todo \ {p}
  /\ UNCHANGED <<heap, field, program, phase, at>>

\* Mutant: an object that is marked is visited again.
MarkAgain(p) ==
  /\ phase = "mark" /\ p \in todo
  /\ IF p \in Known
     THEN marked' = marked \cup {p} /\ todo' = (todo \ {p}) \cup Scan(p)
     ELSE marked' = marked /\ todo' = todo \ {p}
  /\ UNCHANGED <<heap, field, program, phase, at>>

\* mark_object(p).
Mark(p) ==
  /\ phase = "mark"
  /\ p \in todo
  /\ IF p \in Known \ marked
     THEN marked' = marked \cup {p} /\ todo' = (todo \ {p}) \cup Scan(p)
     ELSE marked' = marked /\ todo' = todo \ {p}
  /\ UNCHANGED <<heap, field, program, phase, at>>

\* Mutant: the sweep starts before the first entry.
MarkedFromZero ==
  /\ phase = "mark" /\ todo = {}
  /\ phase' = "sweep" /\ at' = 0
  /\ UNCHANGED <<heap, marked, field, program, todo>>

Marked ==
  /\ phase = "mark" /\ todo = {}
  /\ phase' = "sweep" /\ at' = 1
  /\ UNCHANGED <<heap, marked, field, program, todo>>

\* Mutant: the entry moved into the hole is skipped.
SweepSkips ==
  /\ phase = "sweep"
  /\ UNCHANGED <<slot, global, todo>>
  /\ IF at > Len(table)
     THEN phase' = "run" /\ at' = 1 /\ UNCHANGED <<heap, marked, field>>
     ELSE /\ phase' = phase /\ at' = at + 1
          /\ IF table[at] \in marked
             THEN marked' = marked \ {table[at]} /\ UNCHANGED <<heap, field>>
             ELSE /\ table' = SwapRemove(table, at)
                  /\ bytes' = Less(Size[table[at]])
                  /\ Forget(table[at])
                  /\ UNCHANGED marked

\* One turn of sweep's loop, or its end.
Sweep ==
  /\ phase = "sweep"
  /\ UNCHANGED <<slot, global, todo>>
  /\ IF at > Len(table)
     THEN phase' = "run" /\ at' = 1 /\ UNCHANGED <<heap, marked, field>>
     ELSE /\ phase' = phase
          /\ IF table[at] \in marked
             THEN /\ marked' = marked \ {table[at]} /\ at' = at + 1
                  /\ UNCHANGED <<heap, field>>
             ELSE /\ table' = SwapRemove(table, at)
                  /\ bytes' = Less(Size[table[at]])
                  /\ Forget(table[at])
                  /\ UNCHANGED <<marked, at>>

CollectorStep == (\E p \in todo : Mark(p)) \/ Marked \/ Sweep

Next ==
  \/ \E o \in Object : Alloc(o) \/ Free(o)
  \/ \E o, p, n \in Object : Realloc(o, p, n)
  \/ \E o, p \in Object : Store(o, p) \/ Clear(o, p)
  \/ \E p \in Pointer : Push(p) \/ \E g \in Global : SetGlobal(g, p)
  \/ \E n \in 0 .. MaxSlots : Restore(n)
  \/ Collect
  \/ CollectorStep

Spec == Init /\ [][Next]_vars
FairSpec == Spec /\ WF_vars(CollectorStep)

-----------------------------------------------------------------------------
(* Properties. *)

\* Between collections nothing the program can reach has been freed: every
\* pointer in a root slot or in an object of the table is to an object of the
\* table, and the table has no entry twice.
NoDangling ==
  /\ \A i, j \in DOMAIN table : table[i] = table[j] => i = j
  /\ phase = "run" =>
       /\ Roots \subseteq Known \cup Literal
       /\ \A o \in Known : Scan(o) \subseteq Known

\* bytes_allocated, which decides when to collect, is what the table holds.
BytesExact == bytes = MapThenSumSet(LAMBDA o : Size[o], Known)

\* A sweep frees an object only when nothing reachable points to it, whatever
\* moves the swaps make in the table.
FreesOnlyGarbage ==
  [][phase = "sweep" => \A o \in Known \ ToSet(table') : o \notin Reachable]_vars

\* When a collection ends every object left in the table is reachable: cycles
\* are freed, and so is an entry that was moved into a hole.
FreesAllGarbage ==
  [][phase = "sweep" /\ phase' = "run" => Known \subseteq Reachable]_vars

\* A collection comes to an end, also on a cyclic heap.
CollectionEnds == phase # "run" ~> phase = "run"

\* MEMORY_MODEL.md:594, "anything reachable from a GC root stays alive", also
\* for what a reachable object holds by an address the collector does not follow.
HeldStaysAlive == phase = "run" => \A o \in Reachable : field[o] \subseteq Known

=============================================================================
