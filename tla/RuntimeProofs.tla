--------------------------- MODULE RuntimeProofs ---------------------------
(***************************************************************************)
(* Proofs that the collector frees what no root reaches and nothing else,  *)
(* for every heap.                                                         *)
(*                                                                         *)
(* The inductive invariant adds to NoDangling what holds inside a          *)
(* collection: while it marks, the roots and the children of marked        *)
(* objects are marked or still to be visited, and only reachable objects   *)
(* are; while it sweeps, the objects that are kept (marked, or passed by   *)
(* the sweep) contain the roots, are closed under the pointers that are    *)
(* followed, and are reachable.                                            *)
(***************************************************************************)
EXTENDS Collector, TryCodegen, FiniteSetTheorems, SequenceTheorems, WellFoundedInduction, TLAPS

Distinct == \A i, j \in DOMAIN table : table[i] = table[j] => i = j

\* The contents of memory that is not allocated are nobody's.
FreshEmpty == \A o \in Object \ Known : field[o] = {}

Whole ==
  phase \in {"run", "mark"} =>
    /\ Roots \subseteq Known \cup Literal
    /\ \A o \in Known : Scan(o) \subseteq Known

Marking ==
  phase = "mark" =>
    /\ marked \subseteq Known
    /\ marked \subseteq Reachable
    /\ todo \subseteq Known \cup Literal
    /\ todo \cap Object \subseteq Reachable
    /\ Roots \cap Object \subseteq marked \cup todo
    /\ \A o \in marked : Scan(o) \subseteq marked \cup todo

Passed == {table[i] : i \in 1 .. at - 1}
Kept == marked \cup Passed

Sweeping ==
  phase = "sweep" =>
    /\ at <= Len(table) + 1
    /\ marked \subseteq Known
    /\ Roots \cap Object \subseteq Kept
    /\ \A o \in Kept : Scan(o) \subseteq Kept
    /\ Kept \subseteq Reachable

IInv == TypeOK /\ Distinct /\ FreshEmpty /\ Whole /\ Marking /\ Sweeping

-----------------------------------------------------------------------------
(* Facts about sequences and reachability. *)

\* Removing an entry by moving the last one into its place, as heap[i] =
\* heap[heap_len - 1] does: the other entries stay, once each, and those
\* before the place do not move.
LEMMA SwapRemoveFacts ==
  ASSUME NEW S, NEW s \in Seq(S), NEW i \in DOMAIN s,
         \A j, k \in DOMAIN s : s[j] = s[k] => j = k
  PROVE  LET t == SwapRemove(s, i) IN
         /\ t \in Seq(S)
         /\ Len(t) = Len(s) - 1
         /\ ToSet(t) = ToSet(s) \ {s[i]}
         /\ \A j, k \in DOMAIN t : t[j] = t[k] => j = k
         /\ \A j \in 1 .. i - 1 : t[j] = s[j]
<1> DEFINE n == Len(s)
           t == SwapRemove(s, i)
           u == [s EXCEPT ![i] = s[n]]
<1>1. n \in Nat /\ DOMAIN s = 1 .. n /\ i \in 1 .. n /\ n \in 1 .. n
  OBVIOUS
<1>2. u \in Seq(S) /\ Len(u) = n /\ \A j \in 1 .. n : u[j] = IF j = i THEN s[n] ELSE s[j]
  BY <1>1
<1>3. /\ t \in Seq(S) /\ Len(t) = n - 1 /\ DOMAIN t = 1 .. n - 1
      /\ \A j \in 1 .. n - 1 : t[j] = u[j]
  BY <1>1, <1>2 DEF SwapRemove
<1>4. \A j \in 1 .. n - 1 : t[j] = IF j = i THEN s[n] ELSE s[j]
  BY <1>1, <1>2, <1>3
<1> HIDE DEF n
<1>a. n \in Nat
  BY <1>1
<1>5. \A j \in 1 .. n - 1 : j \in 1 .. n /\ j # n
  BY <1>a
<1>6. \A j \in 1 .. n : j = n \/ j \in 1 .. n - 1
  BY <1>a
<1>7. \A j, k \in 1 .. n : s[j] = s[k] => j = k
  BY <1>1
<1>8. ToSet(s) = {s[j] : j \in 1 .. n} /\ ToSet(t) = {t[j] : j \in 1 .. n - 1}
  BY <1>1, <1>3 DEF ToSet
<1>9. \A j \in 1 .. i - 1 : j \in 1 .. n - 1 /\ j # i
  BY <1>1
<1> HIDE DEF t, u
<1>10. \A j, k \in DOMAIN t : t[j] = t[k] => j = k
  <2> SUFFICES ASSUME NEW j \in 1 .. n - 1, NEW k \in 1 .. n - 1, t[j] = t[k]
               PROVE  j = k
    BY <1>3
  <2>1. /\ t[j] = (IF j = i THEN s[n] ELSE s[j]) /\ t[k] = (IF k = i THEN s[n] ELSE s[k])
        /\ j \in 1 .. n /\ k \in 1 .. n /\ j # n /\ k # n
    BY <1>4, <1>5
  <2> QED BY <2>1, <1>1, <1>7
<1>11. ToSet(t) = ToSet(s) \ {s[i]}
  <2>1. ASSUME NEW x \in ToSet(t) PROVE x \in ToSet(s) \ {s[i]}
    <3>1. PICK j \in 1 .. n - 1 : x = t[j]
      BY <1>8
    <3>2. t[j] = (IF j = i THEN s[n] ELSE s[j]) /\ j \in 1 .. n /\ j # n
      BY <1>4, <1>5
    <3> QED BY <3>1, <3>2, <1>1, <1>7, <1>8
  <2>2. ASSUME NEW x \in ToSet(s) \ {s[i]} PROVE x \in ToSet(t)
    <3>1. PICK j \in 1 .. n : x = s[j] /\ j # i
      BY <1>8
    <3>2. CASE j = n
      BY <3>1, <3>2, <1>1, <1>4, <1>6, <1>8
    <3>3. CASE j # n
      BY <3>1, <3>3, <1>4, <1>6, <1>8
    <3> QED BY <3>2, <3>3
  <2> QED BY <2>1, <2>2
<1>12. \A j \in 1 .. i - 1 : t[j] = s[j]
  BY <1>4, <1>9
<1> QED BY <1>3, <1>10, <1>11, <1>12 DEF n, t

\* What mark_object follows from an object is a set of objects.
LEMMA ScanObjects ==
  ASSUME TypeOK, NEW o \in Object
  PROVE  Scan(o) \subseteq Object
BY DEF TypeOK, Scan

\* A set that holds the roots and is closed holds every reachable object.
LEMMA ReachableLeast ==
  ASSUME NEW S \in SUBSET Object, Closed(S)
  PROVE  Reachable \subseteq S
BY DEF Reachable

\* The reachable objects hold the roots and are closed themselves.
LEMMA ReachableClosed ==
  ASSUME TypeOK
  PROVE  Reachable \subseteq Object /\ Closed(Reachable)
<1>1. Reachable \subseteq Object
  BY DEF Reachable
<1>2. Roots \cap Object \subseteq Reachable
  BY DEF Reachable, Closed
<1>3. ASSUME NEW o \in Reachable PROVE Scan(o) \subseteq Reachable
  <2>1. Scan(o) \subseteq Object
    BY <1>1, ScanObjects
  <2>2. ASSUME NEW S \in SUBSET Object, Closed(S) PROVE Scan(o) \subseteq S
    <3>1. o \in S
      BY <2>2 DEF Reachable
    <3> QED BY <3>1, <2>2 DEF Closed
  <2> QED BY <2>1, <2>2 DEF Reachable
<1> QED BY <1>1, <1>2, <1>3 DEF Closed

\* With whole pointers, what is reachable is in the table.
LEMMA ReachableKnown ==
  ASSUME TypeOK, Whole, phase \in {"run", "mark"}
  PROVE  Reachable \subseteq Known
<1>1. Known \subseteq Object
  BY DEF TypeOK, Known, ToSet
<1>2. Closed(Known)
  BY LiteralAssumption DEF Closed, Whole
<1> QED BY <1>1, <1>2, ReachableLeast

\* Clearing an object that is not reachable changes nothing that is.
LEMMA ForgetReachable ==
  ASSUME TypeOK, TypeOK', NEW g \in Object, g \notin Reachable, Forget(g),
         UNCHANGED <<slot, global>>
  PROVE  Reachable' = Reachable
<1>1. Roots' = Roots
  BY DEF Roots
<1>2. \A o \in Object : Scan(o)' = IF o = g THEN {} ELSE Scan(o)
  BY DEF Forget, Scan, TypeOK
<1>3. Closed(Reachable) /\ Reachable \subseteq Object
  BY ReachableClosed
<1>4. ASSUME NEW S \in SUBSET Object, Closed(S)' PROVE Reachable \subseteq S
  <2>1. Closed(S \cap Reachable)
    BY <1>1, <1>2, <1>3, <1>4 DEF Closed
  <2>2. S \cap Reachable \in SUBSET Object
    BY <1>3
  <2> QED BY <2>1, <2>2, ReachableLeast
<1>5. ASSUME NEW o \in Reachable PROVE o \in Reachable'
  BY <1>3, <1>4 DEF Reachable
<1>6. ASSUME NEW S \in SUBSET Object, Closed(S) PROVE Closed(S)'
  BY <1>1, <1>2, <1>6 DEF Closed
<1>7. Reachable' \subseteq Reachable
  BY <1>6 DEF Reachable
<1> QED BY <1>5, <1>7

\* Appending an entry that is not there keeps the others, once each.
LEMMA AppendFacts ==
  ASSUME NEW S, NEW s \in Seq(S), NEW x \in S
  PROVE  /\ Append(s, x) \in Seq(S)
         /\ ToSet(Append(s, x)) = ToSet(s) \cup {x}
         /\ (\A j, k \in DOMAIN s : s[j] = s[k] => j = k) /\ x \notin ToSet(s)
              => \A j, k \in DOMAIN Append(s, x) : Append(s, x)[j] = Append(s, x)[k] => j = k
<1> DEFINE n == Len(s)
           t == Append(s, x)
<1>1. /\ n \in Nat /\ DOMAIN s = 1 .. n /\ t \in Seq(S) /\ DOMAIN t = 1 .. n + 1
      /\ t[n + 1] = x /\ \A j \in 1 .. n : t[j] = s[j]
  OBVIOUS
<1>2. ToSet(s) = {s[j] : j \in 1 .. n} /\ ToSet(t) = {t[j] : j \in 1 .. n + 1}
  BY <1>1 DEF ToSet
<1> HIDE DEF n, t
<1>3. n \in Nat
  BY <1>1
<1>4. \A j \in 1 .. n + 1 : j \in 1 .. n \/ j = n + 1
  BY <1>3
<1>5. \A j \in 1 .. n : j \in 1 .. n + 1
  BY <1>3
<1>6. n + 1 \in 1 .. n + 1
  BY <1>3
<1>7. ToSet(t) = ToSet(s) \cup {x}
  <2>1. ASSUME NEW y \in ToSet(t) PROVE y \in ToSet(s) \cup {x}
    BY <1>1, <1>2, <1>4
  <2>2. ASSUME NEW y \in ToSet(s) PROVE y \in ToSet(t)
    BY <1>1, <1>2, <1>5
  <2>3. x \in ToSet(t)
    BY <1>1, <1>2, <1>6
  <2> QED BY <2>1, <2>2, <2>3
<1>8. ASSUME \A j, k \in DOMAIN s : s[j] = s[k] => j = k, x \notin ToSet(s),
             NEW j \in DOMAIN t, NEW k \in DOMAIN t, t[j] = t[k]
      PROVE  j = k
  <2>1. j \in 1 .. n \/ j = n + 1
    BY <1>1, <1>4
  <2>2. k \in 1 .. n \/ k = n + 1
    BY <1>1, <1>4
  <2>3. \A l \in 1 .. n : t[l] = s[l] /\ s[l] # x
    BY <1>1, <1>2, <1>8
  <2>4. t[n + 1] = x
    BY <1>1
  <2>5. \A l, m \in 1 .. n : s[l] = s[m] => l = m
    BY <1>1, <1>8
  <2> QED BY <2>1, <2>2, <2>3, <2>4, <2>5, <1>8
<1> QED BY <1>1, <1>7, <1>8 DEF t

\* heap_find returns the entry of an object that is in the table.
LEMMA IndexFacts ==
  ASSUME TypeOK, NEW o \in Known
  PROVE  IndexIn(o) \in DOMAIN table /\ table[IndexIn(o)] = o
<1>1. \E i \in DOMAIN table : table[i] = o
  BY DEF Known, ToSet
<1> QED BY <1>1 DEF IndexIn

-----------------------------------------------------------------------------
(* The steps keep the invariant. *)

\* Outside a collection the parts about marking and sweeping say nothing.
LEMMA RunInv ==
  ASSUME phase' = "run", TypeOK', Distinct', FreshEmpty', Whole'
  PROVE  IInv'
BY DEF IInv, Marking, Sweeping

\* The program starts with an empty table and an empty stack.
LEMMA InitInv ==
  ASSUME Init
  PROVE  IInv
<1>1. ToSet(table) = {} /\ ToSet(slot) = {}
  BY DEF Init, ToSet
<1>2. TypeOK
  BY DEF Init, TypeOK, Pointer
<1> QED BY <1>1, <1>2
        DEF Init, IInv, Distinct, FreshEmpty, Whole, Marking, Sweeping, Known, Roots

\* A new object is empty, and the only new pointer to it is in the slot.
LEMMA AllocInv ==
  ASSUME IInv, NEW o \in Object, Alloc(o)
  PROVE  IInv'
<1> USE DEF IInv
<1>1. /\ table \in Seq(Object) /\ slot \in Seq(Pointer) /\ o \in Pointer
      /\ table' = Append(table, o) /\ slot' = Append(slot, o)
  BY DEF Alloc, TypeOK, Pointer
<1>2. /\ table' \in Seq(Object) /\ Known' = Known \cup {o}
      /\ (\A j, k \in DOMAIN table : table[j] = table[k] => j = k) /\ o \notin ToSet(table)
           => \A j, k \in DOMAIN table' : table'[j] = table'[k] => j = k
  BY <1>1, AppendFacts DEF Known
<1>3. slot' \in Seq(Pointer) /\ ToSet(slot') = ToSet(slot) \cup {o}
  BY <1>1, AppendFacts
<1>4. TypeOK'
  <2>1. bytes' \in Int
    BY SizeAssumption DEF Alloc, TypeOK
  <2> QED BY <1>2, <1>3, <2>1 DEF Alloc, Idle, TypeOK
<1>5. Distinct'
  BY <1>2 DEF Alloc, Distinct, Known
<1>6. FreshEmpty'
  BY <1>2 DEF Alloc, FreshEmpty
<1>7. Roots' = Roots \cup {o} /\ \A x : Scan(x)' = Scan(x)
  BY <1>3 DEF Alloc, Roots, Scan
<1>8. Scan(o) = {}
  BY DEF Alloc, FreshEmpty, Scan
<1>9. Whole'
  BY <1>2, <1>7, <1>8 DEF Alloc, Idle, Whole
<1> QED BY <1>4, <1>5, <1>6, <1>9, RunInv DEF Alloc, Idle

\* The block moves, and with it the only pointer to it.
LEMMA ReallocInv ==
  ASSUME IInv, NEW o \in Object, NEW p \in Object, NEW n \in Object, Realloc(o, p, n)
  PROVE  IInv'
<1> USE DEF IInv
<1> DEFINE i == IndexIn(p)
<1>1. i \in DOMAIN table /\ table[i] = p /\ table \in Seq(Object)
  BY IndexFacts DEF Realloc, TypeOK
<1> HIDE DEF i
<1>2. table' = [table EXCEPT ![i] = n]
  BY DEF Realloc, i
<1>3. /\ table' \in Seq(Object) /\ DOMAIN table' = DOMAIN table
      /\ \A j \in DOMAIN table : table'[j] = IF j = i THEN n ELSE table[j]
  BY <1>1, <1>2
<1>4. n \notin Known /\ p \in Known /\ o \in Known /\ o # p /\ n # p /\ n # o
  BY ReachableKnown DEF Realloc, Idle
<1>5. Known' = (Known \ {p}) \cup {n}
  <2>1. Known = {table[j] : j \in DOMAIN table} /\ Known' = {table'[j] : j \in DOMAIN table}
    BY <1>3 DEF Known, ToSet
  <2>2. \A j \in DOMAIN table : table[j] = p => j = i
    BY <1>1 DEF Distinct
  <2> QED BY <1>1, <1>3, <2>1, <2>2
<1>6. Distinct'
  <2>1. \A j \in DOMAIN table : table[j] # n
    BY <1>4 DEF Known, ToSet
  <2> QED BY <1>3, <2>1 DEF Distinct
<1>7. /\ field' \in [Object -> SUBSET Object]
      /\ \A x \in Object : field'[x] = IF x = p THEN {} ELSE IF x = n THEN field[p]
                                     ELSE IF x = o THEN (field[o] \ {p}) \cup {n} ELSE field[x]
  BY <1>4 DEF Realloc, TypeOK
<1>8. TypeOK'
  <2>1. bytes' \in Int
    BY SizeAssumption DEF Realloc, TypeOK
  <2> QED BY <1>3, <1>7, <2>1 DEF Realloc, Idle, TypeOK
<1>9. FreshEmpty'
  BY <1>4, <1>5, <1>7 DEF FreshEmpty
<1>10. Whole'
  <2>1. Roots' = Roots /\ Roots \subseteq Known' \cup Literal
    BY <1>5 DEF Realloc, Idle, Roots, Whole
  <2>2. ASSUME NEW x \in Known' PROVE Scan(x)' \subseteq Known'
    <3>1. x \in Object
      BY <1>3 DEF Known, ToSet
    <3>2. \A y \in Object : y # o => p \notin field[y]
      BY DEF Realloc
    <3>3. \A y \in Known : y \notin Opaque => field[y] \subseteq Known
      BY DEF Realloc, Idle, Whole, Scan
    <3>4. CASE x = n
      <4>1. n \in Opaque \/ field[p] \subseteq Known \ {p}
        BY <1>4, <3>2, <3>3 DEF Realloc
      <4> QED BY <4>1, <3>4, <1>4, <1>5, <1>7 DEF Scan
    <3>5. CASE x = o
      BY <3>5, <1>4, <1>5, <1>7, <3>3 DEF Scan
    <3>6. CASE x # n /\ x # o
      <4>1. x \in Known /\ x # p /\ field'[x] = field[x] /\ p \notin field[x]
        BY <3>1, <3>2, <3>6, <1>4, <1>5, <1>7
      <4> QED BY <4>1, <3>3, <1>5 DEF Scan
    <3> QED BY <3>4, <3>5, <3>6
  <2> QED BY <2>1, <2>2 DEF Whole
<1> QED BY <1>6, <1>8, <1>9, <1>10, RunInv DEF Realloc, Idle

\* Nothing points to the object that is freed.
LEMMA FreeInv ==
  ASSUME IInv, NEW o \in Object, Free(o)
  PROVE  IInv'
<1> USE DEF IInv
<1> DEFINE i == IndexIn(o)
<1>1. i \in DOMAIN table /\ table[i] = o /\ table \in Seq(Object)
  BY IndexFacts DEF Free, TypeOK
<1> HIDE DEF i
<1>2. table' = SwapRemove(table, i)
  BY DEF Free, i
<1>3. table' \in Seq(Object) /\ Known' = Known \ {o} /\ Distinct'
  BY <1>1, <1>2, SwapRemoveFacts DEF Known, Distinct
<1>4. /\ field' \in [Object -> SUBSET Object]
      /\ \A x \in Object : field'[x] = IF x = o THEN {} ELSE field[x]
  BY DEF Free, Forget, TypeOK
<1>5. TypeOK'
  <2>1. bytes' \in Int
    BY SizeAssumption DEF Free, Less, TypeOK
  <2> QED BY <1>3, <1>4, <2>1 DEF Free, Idle, TypeOK
<1>6. FreshEmpty'
  BY <1>3, <1>4 DEF FreshEmpty
<1>7. Whole'
  <2>1. Roots' = Roots /\ Roots \subseteq Known' \cup Literal
    BY <1>3 DEF Free, Idle, Roots, Whole
  <2>2. ASSUME NEW x \in Known' PROVE Scan(x)' \subseteq Known'
    <3>1. x \in Object /\ x \in Known /\ x # o
      <4>1. x \in Known /\ x # o
        BY <1>3
      <4> QED BY <4>1 DEF TypeOK, Known, ToSet
    <3>2. Scan(x)' = Scan(x) /\ o \notin Scan(x)
      BY <1>4, <3>1 DEF Free, Scan
    <3>3. Scan(x) \subseteq Known
      BY <3>1 DEF Free, Idle, Whole
    <3> QED BY <1>3, <3>2, <3>3
  <2> QED BY <2>1, <2>2 DEF Whole
<1> QED BY <1>3, <1>5, <1>6, <1>7, RunInv DEF Free, Idle

\* What is stored can be reached, so it is in the table.
LEMMA StoreInv ==
  ASSUME IInv, NEW o \in Object, NEW p \in Object, Store(o, p)
  PROVE  IInv'
<1> USE DEF IInv
<1>1. o \in Known /\ p \in Known
  BY ReachableKnown DEF Store, Idle
<1>2. /\ field' \in [Object -> SUBSET Object]
      /\ \A x \in Object : field'[x] = IF x = o THEN field[o] \cup {p} ELSE field[x]
  BY DEF Store, TypeOK
<1>3. Known' = Known /\ Roots' = Roots /\ Known \subseteq Object
  BY DEF Store, Idle, heap, program, Known, Roots, TypeOK, ToSet
<1>4. TypeOK' /\ Distinct'
  BY <1>2 DEF Store, Idle, heap, program, TypeOK, Distinct
<1>5. FreshEmpty'
  BY <1>1, <1>2, <1>3 DEF FreshEmpty
<1>6. Whole'
  <2>1. \A x \in Object : Scan(x)' \subseteq Scan(x) \cup {p}
    BY <1>2 DEF Store, Scan
  <2> QED BY <1>1, <1>3, <2>1 DEF Store, Idle, Whole
<1> QED BY <1>4, <1>5, <1>6, RunInv DEF Store, Idle

\* Taking a pointer away leaves the others whole.
LEMMA ClearInv ==
  ASSUME IInv, NEW o \in Object, NEW p \in Object, Clear(o, p)
  PROVE  IInv'
<1> USE DEF IInv
<1>1. /\ field' \in [Object -> SUBSET Object]
      /\ \A x \in Object : field'[x] = IF x = o THEN field[o] \ {p} ELSE field[x]
  BY DEF Clear, TypeOK
<1>2. Known' = Known /\ Roots' = Roots /\ Known \subseteq Object
  BY DEF Clear, Idle, heap, program, Known, Roots, TypeOK, ToSet
<1>3. TypeOK' /\ Distinct'
  BY <1>1 DEF Clear, Idle, heap, program, TypeOK, Distinct
<1>4. FreshEmpty'
  BY <1>1, <1>2 DEF FreshEmpty
<1>5. Whole'
  <2>1. \A x \in Object : Scan(x)' \subseteq Scan(x)
    BY <1>1 DEF Scan
  <2> QED BY <1>2, <2>1 DEF Clear, Idle, Whole
<1> QED BY <1>3, <1>4, <1>5, RunInv DEF Clear, Idle

\* A step that changes root slots only, to what is in the table already.
LEMMA RootsInv ==
  ASSUME IInv, Idle, UNCHANGED <<table, field, bytes>>,
         slot' \in Seq(Pointer), global' \in [Global -> Pointer],
         Roots' \subseteq Known \cup Literal
  PROVE  IInv'
<1> USE DEF IInv
<1>1. Known' = Known /\ \A x : Scan(x)' = Scan(x)
  BY DEF Known, Scan
<1>2. TypeOK' /\ Distinct'
  BY DEF Idle, TypeOK, Distinct
<1>3. FreshEmpty' /\ Whole'
  BY <1>1 DEF Idle, FreshEmpty, Whole
<1> QED BY <1>2, <1>3, RunInv DEF Idle

\* A slot is pushed for something the program can reach.
LEMMA PushInv ==
  ASSUME IInv, NEW p \in Pointer, Push(p)
  PROVE  IInv'
<1> USE DEF IInv
<1>1. slot' \in Seq(Pointer) /\ ToSet(slot') = ToSet(slot) \cup {p}
  BY AppendFacts DEF Push, TypeOK
<1>2. Roots \cup {p} \subseteq Known \cup Literal
  BY ReachableKnown DEF Push, Idle, Whole
<1>3. Roots' \subseteq Known \cup Literal
  BY <1>1, <1>2 DEF Push, Roots
<1> QED BY <1>1, <1>3, RootsInv DEF Push, heap, TypeOK

\* Slots are taken off the stack.
LEMMA RestoreInv ==
  ASSUME IInv, NEW n \in 0 .. MaxSlots, Restore(n)
  PROVE  IInv'
<1> USE DEF IInv
<1>1. slot \in Seq(Pointer) /\ n \in Nat /\ n < Len(slot) /\ slot' = SubSeq(slot, 1, n)
  BY BoundAssumption DEF Restore, TypeOK
<1>2. /\ slot' \in Seq(Pointer) /\ DOMAIN slot' \subseteq DOMAIN slot
      /\ \A j \in DOMAIN slot' : slot'[j] = slot[j]
  BY <1>1
<1>3. ToSet(slot') \subseteq ToSet(slot)
  BY <1>2 DEF ToSet
<1>4. Roots' \subseteq Known \cup Literal
  BY <1>3 DEF Restore, Idle, Roots, Whole
<1> QED BY <1>2, <1>4, RootsInv DEF Restore, heap, TypeOK

\* A global slot is set to something the program can reach.
LEMMA SetGlobalInv ==
  ASSUME IInv, NEW g \in Global, NEW p \in Pointer, SetGlobal(g, p)
  PROVE  IInv'
<1> USE DEF IInv
<1>1. /\ global' \in [Global -> Pointer]
      /\ \A h \in Global : global'[h] = IF h = g THEN p ELSE global[h]
  BY DEF SetGlobal, TypeOK
<1>2. Roots \cup {p} \subseteq Known \cup Literal
  BY ReachableKnown DEF SetGlobal, Idle, Whole
<1>3. Roots' \subseteq Known \cup Literal
  BY <1>1, <1>2 DEF SetGlobal, Roots
<1> QED BY <1>1, <1>3, RootsInv DEF SetGlobal, heap, TypeOK

\* Marking starts with the roots.
LEMMA CollectInv ==
  ASSUME IInv, Collect
  PROVE  IInv'
<1> USE DEF IInv
<1>1. Known' = Known /\ Roots' = Roots /\ Reachable' = Reachable /\ \A x : Scan(x)' = Scan(x)
  BY DEF Collect, heap, program, Known, Roots, Reachable, Closed, Scan
<1>2. Roots \subseteq Pointer
  BY DEF TypeOK, Roots, ToSet
<1>3. TypeOK' /\ Distinct'
  BY <1>2 DEF Collect, heap, program, TypeOK, Distinct
<1>4. FreshEmpty' /\ Whole'
  BY <1>1 DEF Collect, heap, program, FreshEmpty, Whole
<1>5. Marking'
  <2>1. Roots \cap Object \subseteq Reachable
    BY ReachableClosed DEF Closed
  <2> QED BY <1>1, <2>1 DEF Collect, Marking, Whole
<1>6. Sweeping'
  BY DEF Collect, Sweeping
<1> QED BY <1>3, <1>4, <1>5, <1>6

\* mark_object marks a reachable object and leaves its children to be visited.
LEMMA MarkInv ==
  ASSUME IInv, NEW p \in todo, Mark(p)
  PROVE  IInv'
<1> USE DEF IInv
<1>1. Known' = Known /\ Roots' = Roots /\ Reachable' = Reachable /\ \A x : Scan(x)' = Scan(x)
  BY DEF Mark, heap, program, Known, Roots, Reachable, Closed, Scan
<1>2. Known \subseteq Object
  BY DEF TypeOK, Known, ToSet
<1>3. Distinct' /\ FreshEmpty' /\ Whole' /\ Sweeping'
  BY <1>1 DEF Mark, heap, program, Distinct, FreshEmpty, Whole, Sweeping
<1>4. CASE p \in Known \ marked
  <2>1. /\ p \in Object /\ p \in Known /\ p \in Reachable /\ Scan(p) \subseteq Object
        /\ Scan(p) \subseteq Known /\ Scan(p) \subseteq Reachable
    BY <1>2, <1>4, ScanObjects, ReachableClosed DEF Mark, Marking, Whole, Closed
  <2>2. marked' = marked \cup {p} /\ todo' = (todo \ {p}) \cup Scan(p)
    BY <1>4 DEF Mark
  <2>3. TypeOK'
    BY <2>1, <2>2 DEF Mark, heap, program, TypeOK, Pointer
  <2>4. Marking'
    BY <1>1, <2>1, <2>2 DEF Mark, Marking
  <2> QED BY <1>3, <2>3, <2>4
<1>5. CASE p \notin Known \ marked
  <2>1. marked' = marked /\ todo' = todo \ {p} /\ (p \in marked \/ p \notin Object)
    BY <1>5, LiteralAssumption DEF Mark, Marking
  <2>2. TypeOK'
    BY <2>1 DEF Mark, heap, program, TypeOK
  <2>3. Marking'
    <3>1. \A x \in marked : Scan(x) \subseteq Object
      BY ScanObjects DEF TypeOK
    <3> QED BY <1>1, <2>1, <3>1 DEF Mark, Marking
  <2> QED BY <1>3, <2>2, <2>3
<1> QED BY <1>4, <1>5

\* When nothing is left to visit the marked objects hold the roots and are
\* closed: the sweep starts from them.
LEMMA MarkedInv ==
  ASSUME IInv, Marked
  PROVE  IInv'
<1> USE DEF IInv
<1>1. Known' = Known /\ Roots' = Roots /\ Reachable' = Reachable /\ \A x : Scan(x)' = Scan(x)
  BY DEF Marked, heap, program, Known, Roots, Reachable, Closed, Scan
<1>2. TypeOK' /\ Distinct' /\ FreshEmpty' /\ Whole' /\ Marking'
  BY <1>1 DEF Marked, heap, program, TypeOK, Distinct, FreshEmpty, Whole, Marking
<1>3. Kept' = marked
  BY DEF Marked, Kept, Passed
<1>4. at' <= Len(table') + 1
  <2>1. Len(table') \in Nat
    BY <1>2 DEF TypeOK
  <2> QED BY <2>1 DEF Marked
<1>5. Sweeping'
  BY <1>1, <1>3, <1>4 DEF Marked, Marking, Sweeping
<1> QED BY <1>2, <1>5

\* What is reachable is kept.
LEMMA ReachableKept ==
  ASSUME IInv, phase = "sweep"
  PROVE  Reachable \subseteq Kept
<1>1. Kept \subseteq Object
  BY DEF IInv, Sweeping, Reachable
<1>2. Closed(Kept)
  BY DEF IInv, Sweeping, Closed
<1> QED BY <1>1, <1>2, ReachableLeast

\* Once every entry has been passed, the table is what is kept.
LEMMA PassedAll ==
  ASSUME IInv, phase = "sweep", at > Len(table)
  PROVE  Kept = Known
<1>1. /\ table \in Seq(Object) /\ DOMAIN table = 1 .. Len(table) /\ Len(table) \in Nat
      /\ at \in Nat /\ at <= Len(table) + 1
  BY DEF IInv, TypeOK, Sweeping
<1>2. 1 .. at - 1 = DOMAIN table
  BY <1>1
<1>3. Passed = Known
  BY <1>2 DEF Passed, Known, ToSet
<1> QED BY <1>3 DEF IInv, Sweeping, Kept

\* The sweep ends with every root in the table.
LEMMA SweepEndInv ==
  ASSUME IInv, Sweep, at > Len(table)
  PROVE  IInv'
<1> USE DEF IInv
<1>1. phase = "sweep" /\ phase' = "run" /\ at' = 1
      /\ UNCHANGED <<table, bytes, marked, field, slot, global, todo>>
  BY DEF Sweep, heap
<1>2. TypeOK' /\ Distinct' /\ FreshEmpty'
  BY <1>1 DEF TypeOK, Distinct, FreshEmpty, Known
<1>3. Whole'
  <2>1. Roots \subseteq Known \cup Literal
    BY <1>1, PassedAll DEF Sweeping, Roots, TypeOK, Pointer, ToSet
  <2>2. \A o \in Known : Scan(o) \subseteq Known
    BY <1>1, PassedAll DEF Sweeping
  <2>3. Known' = Known /\ Roots' = Roots /\ \A x : Scan(x)' = Scan(x)
    BY <1>1 DEF Known, Roots, Scan
  <2> QED BY <2>1, <2>2, <2>3 DEF Whole
<1> QED BY <1>1, <1>2, <1>3, RunInv

\* The sweep passes a marked entry: its mark goes, it stays kept.
LEMMA SweepKeepInv ==
  ASSUME IInv, Sweep, ~ (at > Len(table)), table[at] \in marked
  PROVE  IInv'
<1> USE DEF IInv
<1>1. /\ phase = "sweep" /\ phase' = "sweep" /\ at' = at + 1
      /\ marked' = marked \ {table[at]}
      /\ UNCHANGED <<table, bytes, field, slot, global, todo>>
  BY DEF Sweep, heap
<1>2. at \in Nat \ {0} /\ Len(table) \in Nat /\ at <= Len(table)
  BY DEF TypeOK
<1>3. TypeOK' /\ Distinct' /\ FreshEmpty' /\ Whole' /\ Marking'
  BY <1>1, <1>2 DEF TypeOK, Distinct, FreshEmpty, Whole, Marking, Known
<1>4. Kept' = Kept
  <2>1. 1 .. at' - 1 = (1 .. at - 1) \cup {at}
    BY <1>1, <1>2
  <2>2. Passed' = Passed \cup {table[at]}
    BY <1>1, <2>1 DEF Passed
  <2> QED BY <1>1, <2>2 DEF Kept
<1>5. /\ Known' = Known /\ Roots' = Roots /\ Reachable' = Reachable
      /\ \A x : Scan(x)' = Scan(x)
  BY <1>1 DEF Known, Roots, Reachable, Closed, Scan
<1>6. at' <= Len(table') + 1
  BY <1>1, <1>2
<1>7. Sweeping'
  BY <1>1, <1>4, <1>5, <1>6 DEF Sweeping
<1> QED BY <1>3, <1>7

\* The entry the sweep frees is not kept, so it is not reachable.
LEMMA SweepVictim ==
  ASSUME IInv, phase = "sweep", ~ (at > Len(table)), table[at] \notin marked
  PROVE  /\ at \in DOMAIN table /\ table[at] \in Object
         /\ table[at] \notin Kept /\ table[at] \notin Reachable
<1>1. /\ table \in Seq(Object) /\ DOMAIN table = 1 .. Len(table) /\ Len(table) \in Nat
      /\ at \in Nat \ {0} /\ at <= Len(table)
  BY DEF IInv, TypeOK
<1>2. at \in DOMAIN table /\ table[at] \in Object
  BY <1>1
<1>3. \A i \in 1 .. at - 1 : i \in DOMAIN table /\ i # at
  BY <1>1
<1>4. table[at] \notin Passed
  BY <1>2, <1>3 DEF IInv, Distinct, Passed
<1> QED BY <1>2, <1>4, ReachableKept DEF Kept

\* The sweep frees an entry that is not kept, and the last one takes its place.
LEMMA SweepFreeInv ==
  ASSUME IInv, Sweep, ~ (at > Len(table)), table[at] \notin marked
  PROVE  IInv'
<1> USE DEF IInv
<1> DEFINE g == table[at]
<1>1. /\ phase = "sweep" /\ phase' = "sweep" /\ at' = at /\ marked' = marked
      /\ table' = SwapRemove(table, at) /\ bytes' = Less(Size[g]) /\ Forget(g)
      /\ UNCHANGED <<slot, global, todo>>
  BY DEF Sweep
<1>2. /\ table \in Seq(Object) /\ at \in DOMAIN table /\ g \in Object
      /\ g \notin Kept /\ g \notin Reachable
  BY <1>1, SweepVictim DEF TypeOK
<1>3. /\ table' \in Seq(Object) /\ Len(table') = Len(table) - 1
      /\ Known' = Known \ {g} /\ Distinct'
      /\ \A i \in 1 .. at - 1 : table'[i] = table[i]
  BY <1>1, <1>2, SwapRemoveFacts DEF Known, Distinct
<1> HIDE DEF g
<1>4. /\ field' \in [Object -> SUBSET Object]
      /\ \A x \in Object : field'[x] = IF x = g THEN {} ELSE field[x]
  BY <1>1 DEF Forget, TypeOK
<1>5. TypeOK'
  <2>1. bytes' \in Int
    BY <1>1, <1>2, SizeAssumption DEF Less, TypeOK
  <2> QED BY <1>1, <1>3, <1>4, <2>1 DEF TypeOK
<1>6. FreshEmpty'
  BY <1>3, <1>4 DEF FreshEmpty
<1>7. Whole' /\ Marking'
  BY <1>1 DEF Whole, Marking
<1>8. Reachable' = Reachable /\ Roots' = Roots
  BY <1>1, <1>2, <1>5, ForgetReachable DEF Roots
<1>9. Kept' = Kept
  <2>1. Passed' = Passed
    BY <1>1, <1>3 DEF Passed
  <2> QED BY <1>1, <2>1 DEF Kept
<1>10. Sweeping'
  <2>1. at' <= Len(table') + 1
    BY <1>1, <1>2, <1>3 DEF TypeOK
  <2>2. marked' \subseteq Known'
    BY <1>1, <1>2, <1>3 DEF Sweeping, Kept
  <2>3. \A o \in Kept : Scan(o)' = Scan(o)
    BY <1>1, <1>2, <1>4 DEF Sweeping, Scan, Reachable
  <2> QED BY <1>1, <1>8, <1>9, <2>1, <2>2, <2>3 DEF Sweeping
<1> QED BY <1>3, <1>5, <1>6, <1>7, <1>10

\* Every step keeps the invariant.
LEMMA NextInv ==
  ASSUME IInv, [Next]_vars
  PROVE  IInv'
<1>1. ASSUME NEW o \in Object, Alloc(o) \/ Free(o) PROVE IInv'
  BY <1>1, AllocInv, FreeInv
<1>2. ASSUME NEW o \in Object, NEW p \in Object, NEW n \in Object, Realloc(o, p, n)
      PROVE  IInv'
  BY <1>2, ReallocInv
<1>3. ASSUME NEW o \in Object, NEW p \in Object, Store(o, p) \/ Clear(o, p) PROVE IInv'
  BY <1>3, StoreInv, ClearInv
<1>4. ASSUME NEW p \in Pointer, Push(p) \/ \E g \in Global : SetGlobal(g, p) PROVE IInv'
  BY <1>4, PushInv, SetGlobalInv
<1>5. ASSUME NEW n \in 0 .. MaxSlots, Restore(n) PROVE IInv'
  BY <1>5, RestoreInv
<1>6. CASE Collect
  BY <1>6, CollectInv
<1>7. CASE CollectorStep
  <2>1. CASE \E p \in todo : Mark(p)
    BY <2>1, MarkInv
  <2>2. CASE Marked
    BY <2>2, MarkedInv
  <2>3. CASE Sweep
    BY <2>3, SweepEndInv, SweepKeepInv, SweepFreeInv
  <2> QED BY <1>7, <2>1, <2>2, <2>3 DEF CollectorStep
<1>8. CASE UNCHANGED vars
  <2>1. UNCHANGED <<table, marked, field, slot, global, bytes, phase, todo, at>>
    BY <1>8 DEF vars
  <2>2. Known' = Known /\ Roots' = Roots /\ Reachable' = Reachable /\ Kept' = Kept
        /\ \A x : Scan(x)' = Scan(x)
    BY <2>1 DEF Known, Roots, Reachable, Closed, Scan, Kept, Passed
  <2> QED BY <2>1, <2>2
          DEF IInv, TypeOK, Distinct, FreshEmpty, Whole, Marking, Sweeping
<1> QED BY <1>1, <1>2, <1>3, <1>4, <1>5, <1>6, <1>7, <1>8 DEF Next

-----------------------------------------------------------------------------
(* The theorems. *)

\* The invariant holds in every state of the program.
LEMMA Invariance == Spec => []IInv
BY InitInv, NextInv, PTL DEF Spec

\* The table, the marks, the roots and the pointers have their types.
THEOREM TypeCorrect == Spec => []TypeOK
<1>1. IInv => TypeOK
  BY DEF IInv
<1> QED BY <1>1, Invariance, PTL

\* sn_gc_collect never leaves a pointer to a freed object in a root slot or in
\* an object of the table, on any heap (gc.c:414-461).
THEOREM NoDanglingPointer == Spec => []NoDangling
<1>1. IInv => NoDangling
  BY DEF IInv, Distinct, Whole, NoDangling
<1> QED BY <1>1, Invariance, PTL

\* sweep frees an entry only if no root reaches it (gc.c:421-439).
THEOREM OnlyGarbage == Spec => FreesOnlyGarbage
<1>1. ASSUME IInv, [Next]_vars, phase = "sweep", NEW o \in Known, o \notin ToSet(table')
      PROVE  o \notin Reachable
  <2>1. table' # table /\ Sweep
    <3>1. table' # table
      BY <1>1 DEF Known
    <3> QED BY <1>1, <3>1
            DEF Next, vars, Alloc, Free, Realloc, Store, Clear, Push, SetGlobal, Restore,
                Idle, Collect, CollectorStep, Mark, Marked
  <2>2. ~ (at > Len(table)) /\ table[at] \notin marked /\ table' = SwapRemove(table, at)
    BY <2>1 DEF Sweep, heap
  <2>3. /\ at \in DOMAIN table /\ table[at] \notin Reachable
        /\ table \in Seq(Object) /\ Distinct
    BY <1>1, <2>2, SweepVictim DEF IInv, TypeOK
  <2>4. ToSet(table') = ToSet(table) \ {table[at]}
    BY <2>2, <2>3, SwapRemoveFacts DEF Distinct
  <2> QED BY <1>1, <2>3, <2>4 DEF Known
<1>2. IInv /\ [Next]_vars => [phase = "sweep" => \A o \in Known \ ToSet(table') : o \notin Reachable]_vars
  BY <1>1
<1> QED BY <1>2, Invariance, PTL DEF Spec, FreesOnlyGarbage

\* When sweep returns, every object in the table is reachable from a root
\* (gc.c:421-461).
THEOREM AllGarbage == Spec => FreesAllGarbage
<1>1. ASSUME IInv, [Next]_vars, phase = "sweep", phase' = "run"
      PROVE  Known \subseteq Reachable
  <2>1. Sweep
    BY <1>1 DEF Next, vars, Alloc, Free, Realloc, Store, Clear, Push, SetGlobal, Restore,
                Idle, Collect, CollectorStep, Mark, Marked
  <2>2. at > Len(table)
    BY <1>1, <2>1 DEF Sweep
  <2> QED BY <1>1, <2>2, PassedAll DEF IInv, Sweeping
<1>2. IInv /\ [Next]_vars => [phase = "sweep" /\ phase' = "run" => Known \subseteq Reachable]_vars
  BY <1>1
<1> QED BY <1>2, Invariance, PTL DEF Spec, FreesAllGarbage

-----------------------------------------------------------------------------
(* Naturals, sequences and recursive functions. *)

LEMMA FrontFacts ==
  ASSUME NEW S, NEW c \in Seq(S), c # <<>>
  PROVE  /\ Len(c) \in Nat \ {0} /\ c[Len(c)] \in S /\ Last(c) = c[Len(c)]
         /\ Front(c) \in Seq(S) /\ Len(Front(c)) = Len(c) - 1
         /\ \A i \in 1 .. Len(c) - 1 : Front(c)[i] = c[i]
<1>1. PICK n \in Nat : n = Len(c)
  OBVIOUS
<1>2. n > 0 /\ c[n] \in S /\ Last(c) = c[n] /\ Front(c) = SubSeq(c, 1, n - 1)
  BY <1>1 DEF Last, Front
<1>3. PICK m \in Nat : m = n - 1
  BY <1>2
<1>4. SubSeq(c, 1, m) \in Seq(S) /\ Len(SubSeq(c, 1, m)) = m
      /\ \A i \in 1 .. m : SubSeq(c, 1, m)[i] = c[i]
  BY <1>1, <1>3
<1> QED BY <1>1, <1>2, <1>3, <1>4

LEMMA LeastIndex ==
  ASSUME NEW T, T \subseteq Nat, T # {}
  PROVE  \E i \in T : \A j \in T : ~ (j < i)
<1>1. PICK i \in T : \A j \in T : ~ (<<j, i>> \in OpToRel(<, Nat))
  BY Zenon, NatLessThanWellFounded, WFMin
<1> QED BY Zenon, <1>1 DEF OpToRel

LEMMA MaxFacts ==
  ASSUME NEW N \in Nat, NEW S \in SUBSET (0 .. N), S # {}
  PROVE  Max(S) \in S /\ \A x \in S : x <= Max(S)
<1> DEFINE T == {N - x : x \in S}
<1>1. T \subseteq Nat /\ T # {}
  <2>1. \A x \in S : N - x \in Nat
    OBVIOUS
  <2> QED BY Zenon, <2>1
<1>2. PICK i \in T : \A j \in T : ~ (j < i)
  <2> HIDE DEF T
  <2> QED BY Zenon, <1>1, LeastIndex
<1>3. PICK m \in S : i = N - m
  BY <1>2
<1>4. \A x \in S : m >= x
  <2> TAKE x \in S
  <2>1. N - x \in T
    OBVIOUS
  <2>2. ~ (N - x < i)
    BY <2>1, <1>2
  <2> QED BY <2>2, <1>3
<1>5. \E y \in S : \A x \in S : y >= x
  BY <1>4
<1>6. Max(S) \in S /\ \A x \in S : Max(S) >= x
  BY Zenon, <1>5 DEF Max
<1> QED BY <1>6

\* g is a way from one value to the next, f the values it goes through.
IsStep(g, N, S) == \A k \in 1 .. N : \A s \in S : g[<<k, s>>] \in S
Steps(f, g, N, S, a) == f \in [0 .. N -> S] /\ f[0] = a /\ \A k \in 1 .. N : f[k] = g[<<k, f[k - 1]>>]

\* A function on 0 .. N that is defined from its value one step before exists.
LEMMA StepwiseExists ==
  ASSUME NEW N \in Nat, NEW S, NEW a \in S, NEW g, IsStep(g, N, S)
  PROVE  \E f : Steps(f, g, N, S, a)
<1> USE DEF IsStep
<1> DEFINE Good(m, f) == f \in [0 .. m -> S] /\ f[0] = a /\ \A k \in 1 .. m : f[k] = g[<<k, f[k - 1]>>]
           T == {m \in 0 .. N : ~ \E f : Good(m, f)}
<1>1. T = {}
  <2> SUFFICES ASSUME T # {} PROVE FALSE
    OBVIOUS
  <2>1. PICK m \in T : \A j \in T : ~ (j < m)
    <3>1. T \subseteq Nat
      OBVIOUS
    <3> HIDE DEF T
    <3> QED BY Zenon, <3>1, LeastIndex
  <2>2. m # 0
    <3>1. Good(0, [k \in 0 .. 0 |-> a])
      OBVIOUS
    <3> QED BY Zenon, <3>1, <2>1
  <2>3. m - 1 \in 0 .. N /\ m - 1 \notin T
    <3>1. m \in 0 .. N
      BY <2>1
    <3>2. m - 1 \in 0 .. N /\ m - 1 < m
      BY <2>2, <3>1
    <3> HIDE DEF T
    <3> QED BY <2>1, <3>2
  <2>4. PICK f : Good(m - 1, f)
    BY <2>3
  <2> DEFINE h == [k \in 0 .. m |-> IF k = m THEN g[<<m, f[m - 1]>>] ELSE f[k]]
  <2>5. f[m - 1] \in S /\ m \in 1 .. N
    BY <2>1, <2>2, <2>4
  <2>6. h \in [0 .. m -> S]
    BY <2>4, <2>5
  <2>7. h[0] = a /\ \A k \in 1 .. m : h[k] = g[<<k, h[k - 1]>>]
    <3>1. h[0] = a
      BY <2>5, <2>4
    <3>2. ASSUME NEW k \in 1 .. m PROVE h[k] = g[<<k, h[k - 1]>>]
      <4>1. CASE k = m
        <5>1. m \in 0 .. m /\ m - 1 \in 0 .. m /\ m - 1 # m
          BY <2>5
        <5>2. h[m] = g[<<m, f[m - 1]>>] /\ h[m - 1] = f[m - 1]
          BY <5>1
        <5> QED BY <4>1, <5>2
      <4>2. CASE k # m
        <5>1. k \in 1 .. m - 1 /\ k - 1 \in 0 .. m /\ k - 1 # m /\ k \in 0 .. m
          BY <4>2, <2>5
        <5>2. h[k] = f[k] /\ h[k - 1] = f[k - 1]
          BY <5>1, <4>2
        <5> QED BY <5>1, <5>2, <2>4
      <4> QED BY <4>1, <4>2
    <3> QED BY Zenon, <3>1, <3>2
  <2>8. Good(m, h)
    <3> HIDE DEF h
    <3> QED BY <2>6, <2>7
  <2> QED BY Zenon, <2>8, <2>1
<1>2. PICK f : Good(N, f)
  BY <1>1
<1> QED BY <1>2 DEF Steps

LEMMA AtPlacesUpto ==
  ASSUME NEW c \in Seq(Activation), NEW P
  PROVE  \E f \in [0 .. Len(c) -> Seq(Activation)] :
           /\ f[0] = <<>>
           /\ \A j \in 1 .. Len(c) : f[j] = IF c[j].at \in P THEN Append(f[j - 1], c[j]) ELSE f[j - 1]
           /\ AtPlaces(c, P) = f[Len(c)]
<1> DEFINE N == Len(c)
           g == [x \in (1 .. N) \X Seq(Activation) |->
                   IF c[x[1]].at \in P THEN Append(x[2], c[x[1]]) ELSE x[2]]
           Rec(f) == f = [j \in 0 .. Len(c) |-> IF j = 0 THEN <<>>
                                          ELSE IF c[j].at \in P THEN Append(f[j - 1], c[j])
                                          ELSE f[j - 1]]
<1>1. \A k \in 1 .. N : \A s \in Seq(Activation) :
        /\ g[<<k, s>>] = IF c[k].at \in P THEN Append(s, c[k]) ELSE s
        /\ g[<<k, s>>] \in Seq(Activation)
  OBVIOUS
<1>2. PICK f : Steps(f, g, N, Seq(Activation), <<>>)
  <2>1. IsStep(g, N, Seq(Activation))
    BY Zenon, <1>1 DEF IsStep
  <2>2. N \in Nat /\ <<>> \in Seq(Activation)
    OBVIOUS
  <2> HIDE DEF g, N
  <2> QED BY Zenon, <2>1, <2>2, StepwiseExists
<1> HIDE DEF g
<1>3. /\ f[0] = <<>>
      /\ \A j \in 1 .. N : f[j] = IF c[j].at \in P THEN Append(f[j - 1], c[j]) ELSE f[j - 1]
  <2>1. f[0] = <<>>
    BY <1>2 DEF Steps
  <2>2. ASSUME NEW j \in 1 .. N PROVE f[j] = IF c[j].at \in P THEN Append(f[j - 1], c[j]) ELSE f[j - 1]
    <3>1. f[j - 1] \in Seq(Activation)
      BY <1>2 DEF Steps
    <3>2. f[j] = g[<<j, f[j - 1]>>]
      BY <1>2 DEF Steps
    <3> QED BY <3>1, <3>2, <1>1
  <2> QED BY <2>1, <2>2
<1>4. Rec(f)
  <2> DEFINE h == [j \in 0 .. N |-> IF j = 0 THEN <<>> ELSE IF c[j].at \in P THEN Append(f[j - 1], c[j]) ELSE f[j - 1]]
  <2>1. ASSUME NEW j \in 0 .. N PROVE f[j] = h[j]
    <3>1. CASE j = 0
      BY <3>1, <1>3
    <3>2. CASE j # 0
      <4>1. j \in 1 .. N
        BY <3>2
      <4> QED BY <4>1, <1>3
    <3> QED BY <3>1, <3>2
  <2>2. f = [j \in 0 .. N |-> f[j]]
    BY <1>2 DEF Steps
  <2> QED BY <2>1, <2>2
<1> DEFINE u == CHOOSE w : Rec(w)
<1>5. Rec(u)
  <2> HIDE DEF Rec
  <2> QED BY <1>4
<1>6. AtPlaces(c, P) = u[Len(c)]
  BY DEF AtPlaces
<1> HIDE DEF u
<1>7. \A j \in 0 .. N : j \in Nat /\ f[j] = u[j]
  <2> DEFINE T == {j \in 0 .. N : f[j] # u[j]}
  <2> SUFFICES ASSUME T # {} PROVE FALSE
    OBVIOUS
  <2>1. PICK m \in T : \A j \in T : ~ (j < m)
    <3>1. T \subseteq Nat
      OBVIOUS
    <3> HIDE DEF T
    <3> QED BY Zenon, <3>1, LeastIndex
  <2>2. m \in 0 .. N /\ m # 0
    BY <2>1, <1>3, <1>5
  <2>3. m - 1 \in 0 .. N /\ m - 1 < m
    BY <2>2
  <2>4. f[m - 1] = u[m - 1]
    BY <2>1, <2>3
  <2>5. f[m] = u[m]
    <3>1. m \in 1 .. N
      BY <2>2
    <3>2. u[m] = IF c[m].at \in P THEN Append(u[m - 1], c[m]) ELSE u[m - 1]
      <4>1. m # 0 /\ m \in 0 .. Len(c)
        BY <3>1
      <4> HIDE DEF u
      <4> QED BY Zenon, <4>1, <1>5
    <3> QED BY <3>1, <3>2, <2>4, <1>3
  <2> QED BY <2>5, <2>1
<1>8. AtPlaces(c, P) = f[Len(c)]
  <2>1. Len(c) \in 0 .. N
    OBVIOUS
  <2> QED BY <2>1, <1>6, <1>7
<1> QED BY <1>2, <1>3, <1>8 DEF Steps

Rising(s) == \A i, j \in DOMAIN s : i < j => s[i].n < s[j].n

\* s lists the activations among the first m of c that are at one of the places.
Picks(s, c, P, m) ==
  /\ \A k \in DOMAIN s : \E i \in 1 .. m : c[i].at \in P /\ s[k] = c[i]
  /\ \A i \in 1 .. m : c[i].at \in P => \E k \in DOMAIN s : s[k] = c[i]
  /\ Rising(s)

LEMMA PicksStep ==
  ASSUME NEW c \in Seq(Activation), Rising(c), NEW P, NEW m \in 1 .. Len(c),
         NEW s \in Seq(Activation), Picks(s, c, P, m - 1)
  PROVE  Picks(IF c[m].at \in P THEN Append(s, c[m]) ELSE s, c, P, m)
<1>0. m \in 1 .. m /\ m \in DOMAIN c /\ \A i \in 1 .. m - 1 : i \in 1 .. m /\ i \in DOMAIN c /\ i < m
  OBVIOUS
<1>1. CASE c[m].at \notin P
  <2>1. \A i \in 1 .. m : i = m \/ i \in 1 .. m - 1
    OBVIOUS
  <2> QED BY <1>0, <1>1, <2>1 DEF Picks
<1>2. CASE c[m].at \in P
  <2> DEFINE t == Append(s, c[m])
  <2>1. /\ DOMAIN t = 1 .. Len(s) + 1 /\ DOMAIN s = 1 .. Len(s) /\ t[Len(s) + 1] = c[m]
        /\ \A k \in DOMAIN s : t[k] = s[k] /\ k \in DOMAIN t
        /\ Len(s) + 1 \in DOMAIN t
    BY <1>0
  <2>2. \A k \in DOMAIN t : k \in DOMAIN s \/ k = Len(s) + 1
    BY <2>1
  <2> HIDE DEF t
  <2>3. \A k \in DOMAIN t : \E i \in 1 .. m : c[i].at \in P /\ t[k] = c[i]
    <3> TAKE k \in DOMAIN t
    <3>1. CASE k \in DOMAIN s
      <4>1. PICK i \in 1 .. m - 1 : c[i].at \in P /\ s[k] = c[i]
        BY Zenon, <3>1 DEF Picks
      <4> QED BY Zenon, <1>0, <2>1, <3>1, <4>1
    <3>2. CASE k = Len(s) + 1
      BY Zenon, <1>0, <1>2, <2>1, <3>2
    <3> QED BY Zenon, <2>2, <3>1, <3>2
  <2>4. \A i \in 1 .. m : c[i].at \in P => \E k \in DOMAIN t : t[k] = c[i]
    <3> TAKE i \in 1 .. m
    <3>1. CASE i = m
      BY <3>1, <2>1
    <3>2. CASE i \in 1 .. m - 1
      BY <3>2, <2>1 DEF Picks
    <3> QED BY <3>1, <3>2
  <2>5. Rising(t)
    <3> SUFFICES ASSUME NEW i \in DOMAIN t, NEW j \in DOMAIN t, i < j PROVE t[i].n < t[j].n
      BY DEF Rising
    <3>1. i \in DOMAIN s
      BY <2>1, <2>2
    <3>2. CASE j \in DOMAIN s
      BY <3>1, <3>2, <2>1 DEF Picks, Rising
    <3>3. CASE j = Len(s) + 1
      <4>1. PICK k \in 1 .. m - 1 : s[i] = c[k]
        BY <3>1 DEF Picks
      <4> QED BY <4>1, <3>1, <3>3, <2>1, <1>0 DEF Rising
    <3> QED BY <3>2, <3>3, <2>2
  <2> QED BY Zenon, <1>2, <2>3, <2>4, <2>5 DEF Picks, t
<1> QED BY <1>1, <1>2

LEMMA AtPlacesFacts ==
  ASSUME NEW c \in Seq(Activation), Rising(c), NEW P
  PROVE  AtPlaces(c, P) \in Seq(Activation) /\ Picks(AtPlaces(c, P), c, P, Len(c))
<1> DEFINE N == Len(c)
<1>1. PICK f \in [0 .. N -> Seq(Activation)] :
        /\ f[0] = <<>>
        /\ \A j \in 1 .. N : f[j] = IF c[j].at \in P THEN Append(f[j - 1], c[j]) ELSE f[j - 1]
        /\ AtPlaces(c, P) = f[N]
  BY Zenon, AtPlacesUpto
<1> DEFINE T == {m \in 0 .. N : ~ Picks(f[m], c, P, m)}
<1>2. T = {}
  <2> SUFFICES ASSUME T # {} PROVE FALSE
    OBVIOUS
  <2>1. PICK m \in T : \A j \in T : ~ (j < m)
    <3>1. T \subseteq Nat
      OBVIOUS
    <3> HIDE DEF T
    <3> QED BY Zenon, <3>1, LeastIndex
  <2>2. m # 0
    <3>1. Picks(<<>>, c, P, 0)
      BY DEF Picks, Rising
    <3> QED BY <3>1, <1>1, <2>1
  <2>3. m \in 1 .. N /\ m - 1 \in 0 .. N /\ m - 1 < m
    BY <2>1, <2>2
  <2>4. Picks(f[m - 1], c, P, m - 1) /\ f[m - 1] \in Seq(Activation)
    BY Zenon, <1>1, <2>1, <2>3
  <2>5. Picks(f[m], c, P, m)
    <3>1. PICK x \in Seq(Activation) : x = f[m - 1]
      BY <2>4
    <3>2. f[m] = IF c[m].at \in P THEN Append(x, c[m]) ELSE x
      BY Zenon, <3>1, <2>3, <1>1
    <3>3. Picks(x, c, P, m - 1)
      BY <2>4, <3>1
    <3> QED BY <2>3, <3>2, <3>3, PicksStep
  <2> QED BY <2>1, <2>5
<1>3. N \in 0 .. N
  OBVIOUS
<1> QED BY <1>1, <1>2, <1>3

\* Two lists of the same numbers in rising order have the same length and order.
LEMMA SameOrder ==
  ASSUME NEW s \in Seq(Nat), NEW t \in Seq(Nat),
         \A i, j \in DOMAIN s : i < j => s[i] < s[j],
         \A i, j \in DOMAIN t : i < j => t[i] < t[j],
         \A k \in DOMAIN s : \E l \in DOMAIN t : s[k] = t[l],
         \A l \in DOMAIN t : \E k \in DOMAIN s : t[l] = s[k]
  PROVE  Len(s) <= Len(t) /\ \A k \in DOMAIN s : k \in DOMAIN t /\ s[k] = t[k]
<1> DEFINE T == {k \in DOMAIN s : ~ (k \in DOMAIN t /\ s[k] = t[k])}
<1>0. DOMAIN s = 1 .. Len(s) /\ DOMAIN t = 1 .. Len(t) /\ Len(s) \in Nat /\ Len(t) \in Nat
      /\ (\A k \in DOMAIN s : k \in Nat /\ s[k] \in Nat) /\ (\A k \in DOMAIN t : k \in Nat /\ t[k] \in Nat)
  <2>1. s \in [1 .. Len(s) -> Nat] /\ Len(s) \in Nat
    OBVIOUS
  <2>2. t \in [1 .. Len(t) -> Nat] /\ Len(t) \in Nat
    OBVIOUS
  <2>3. \A k \in DOMAIN s : k \in Nat /\ s[k] \in Nat
    BY <2>1
  <2>4. \A k \in DOMAIN t : k \in Nat /\ t[k] \in Nat
    BY <2>2
  <2> QED BY <2>1, <2>2, <2>3, <2>4
<1>1. T = {}
  <2> SUFFICES ASSUME T # {} PROVE FALSE
    OBVIOUS
  <2>1. PICK m \in T : \A j \in T : ~ (j < m)
    <3>1. T \subseteq Nat
      BY <1>0
    <3> HIDE DEF T
    <3> QED BY Zenon, <3>1, LeastIndex
  <2>2. \A j \in DOMAIN s : j < m => j \in DOMAIN t /\ s[j] = t[j]
    BY <2>1
  <2>3. PICK l \in DOMAIN t : s[m] = t[l]
    BY <2>1
  <2>4. m <= l
    <3> SUFFICES ASSUME l < m PROVE FALSE
      BY <1>0
    <3>1. l \in DOMAIN s
      BY <1>0, <2>1
    <3>2. s[l] = s[m] /\ m \in DOMAIN s
      BY <3>1, <2>1, <2>2, <2>3
    <3>3. s[l] < s[m]
      BY <3>1, <3>2
    <3> QED BY <3>1, <3>2, <3>3, <1>0
  <2>5. m \in DOMAIN t
    BY <1>0, <2>1, <2>4
  <2>6. PICK k \in DOMAIN s : t[m] = s[k]
    BY <2>5
  <2>7. m <= k
    <3> SUFFICES ASSUME k < m PROVE FALSE
      BY <1>0
    <3>1. k \in DOMAIN t /\ s[k] = t[k]
      BY <2>2
    <3>2. t[k] < t[m] /\ t[k] = t[m]
      BY <3>1, <2>5, <2>6
    <3> QED BY <3>1, <3>2, <2>5, <1>0
  <2>8. s[m] = t[m]
    <3>1. t[m] <= t[l] /\ s[m] <= s[k]
      <4>1. m = l \/ m < l
        BY <1>0, <2>4
      <4>2. m = k \/ m < k
        BY <1>0, <2>7, <2>1
      <4>3. m \in DOMAIN s
        BY <2>1
      <4>4. m < l => t[m] < t[l]
        BY <2>5, <2>3
      <4>5. m < k => s[m] < s[k]
        BY <4>3, <2>6
      <4>6. t[m] \in Nat /\ t[l] \in Nat /\ s[m] \in Nat /\ s[k] \in Nat
        BY <4>3, <2>5, <2>3, <2>6, <1>0
      <4>7. t[m] = t[l] \/ t[m] < t[l]
        BY Zenon, <4>1, <4>4
      <4>8. s[m] = s[k] \/ s[m] < s[k]
        BY <4>2, <4>5
      <4>9. \A a, b \in Nat : a = b \/ a < b => a <= b
        OBVIOUS
      <4> QED BY <4>6, <4>7, <4>8, <4>9, Zenon
    <3>2. s[m] \in Nat /\ t[m] \in Nat
      BY <2>1, <2>5, <1>0
    <3> QED BY <3>1, <3>2, <2>3, <2>6
  <2> QED BY <2>1, <2>5, <2>8
<1>2. \A k \in DOMAIN s : k \in DOMAIN t /\ s[k] = t[k]
  BY <1>1
<1>3. Len(s) <= Len(t)
  <2>1. CASE Len(s) = 0
    BY <2>1, <1>0
  <2>2. CASE Len(s) # 0
    <3>1. Len(s) \in DOMAIN s
      BY <2>2, <1>0
    <3>2. Len(s) \in DOMAIN t
      BY <3>1, <1>2
    <3>3. Len(s) \in 1 .. Len(t)
      BY <3>2, <1>0
    <3> QED BY <3>3, <1>0
  <2> QED BY <2>1, <2>2
<1> QED BY <1>2, <1>3

-----------------------------------------------------------------------------
(* Functions that follow the parents of a statement.                       *)

\* f looks its value up at the parent unless i is in D.
Climb(f, S, D, v, q) == f = [i \in S |-> IF i \in D THEN v[i] ELSE f[q[i]]]

LEMMA ClimbExists ==
  ASSUME NEW lo \in Nat, NEW N \in Nat, NEW D, NEW v, NEW q,
         \A i \in lo .. N : i \notin D => q[i] \in lo .. i - 1
  PROVE  \E f : Climb(f, lo .. N, D, v, q)
<1> DEFINE T == {m \in Nat : m <= N /\ ~ \E f : Climb(f, lo .. m, D, v, q)}
<1>1. T = {}
  <2> SUFFICES ASSUME T # {} PROVE FALSE
    OBVIOUS
  <2>1. PICK m \in T : \A j \in T : ~ (j < m)
    <3>1. T \subseteq Nat
      OBVIOUS
    <3> HIDE DEF T
    <3> QED BY Zenon, <3>1, LeastIndex
  <2>2. m \in Nat /\ m <= N /\ ~ \E f : Climb(f, lo .. m, D, v, q)
    BY <2>1
  <2>3. \E g : \A i \in lo .. m - 1 : g[i] = IF i \in D THEN v[i] ELSE g[q[i]]
    <3>1. CASE m = 0
      BY <2>2, <3>1
    <3>2. CASE m # 0
      <4>1. m - 1 \in Nat /\ m - 1 <= N /\ m - 1 < m
        BY <2>2, <3>2
      <4>2. PICK g : Climb(g, lo .. m - 1, D, v, q)
        BY <4>1, <2>1
      <4> QED BY <4>2 DEF Climb
    <3> QED BY <3>1, <3>2
  <2>4. PICK g : \A i \in lo .. m - 1 : g[i] = IF i \in D THEN v[i] ELSE g[q[i]]
    BY <2>3
  <2> DEFINE h == [i \in lo .. m |-> IF i \in D THEN v[i] ELSE g[q[i]]]
             k == [i \in lo .. m |-> IF i \in D THEN v[i] ELSE h[q[i]]]
  <2>5. ASSUME NEW i \in lo .. m, i \notin D PROVE g[q[i]] = h[q[i]]
    <3>1. i \in lo .. N
      BY <2>2
    <3>2. q[i] \in lo .. m - 1
      BY <2>5, <3>1, <2>2
    <3> DEFINE j == q[i]
    <3>3. j \in lo .. m - 1 /\ j \in lo .. m
      BY <3>2, <2>2
    <3> HIDE DEF j
    <3>4. h[j] = IF j \in D THEN v[j] ELSE g[q[j]]
      BY <3>3
    <3>5. g[j] = h[j]
      <4> HIDE DEF h
      <4> QED BY <3>3, <3>4, <2>4
    <3> QED BY <3>5 DEF j
  <2>6. ASSUME NEW i \in lo .. m PROVE h[i] = k[i]
    <3>1. CASE i \in D
      BY <3>1
    <3>2. CASE i \notin D
      <4>1. g[q[i]] = h[q[i]]
        BY <3>2, <2>5
      <4>2. h[i] = g[q[i]]
        BY <3>2
      <4>3. k[i] = h[q[i]]
        <5> HIDE DEF h
        <5> QED BY <3>2
      <4> HIDE DEF h, k
      <4> QED BY <4>1, <4>2, <4>3
    <3> QED BY <3>1, <3>2
  <2>7. h = k
    <3>1. h = [i \in lo .. m |-> h[i]]
      OBVIOUS
    <3>2. k = [i \in lo .. m |-> k[i]]
      OBVIOUS
    <3> HIDE DEF h, k
    <3> QED BY <3>1, <3>2, <2>6
  <2>8. Climb(h, lo .. m, D, v, q)
    <3>1. h = k
      BY <2>7
    <3> HIDE DEF h
    <3> QED BY <3>1 DEF Climb
  <2> QED BY <2>2, <2>8
<1>2. N \in Nat /\ N <= N
  OBVIOUS
<1> QED BY <1>1, <1>2

LEMMA StatementFacts ==
  ASSUME NEW p \in Programs
  PROVE  /\ p.async \in BOOLEAN /\ p.stmts \in Seq(TryStatement) /\ Len(p.stmts) \in Nat
         /\ DOMAIN p.stmts = 1 .. Len(p.stmts)
         /\ \A i \in DOMAIN p.stmts :
              /\ i \in Nat \ {0} /\ p.stmts[i].parent \in 0 .. i - 1
              /\ p.stmts[i].where = "body" <=> p.stmts[i].parent = 0
              /\ p.stmts[i].where \in Region \cup {"body"}
              /\ p.stmts[i].where = "finally" => IsCall(p, i)
              /\ IsCall(p, i) \in BOOLEAN /\ HasCatch(p, i) \in BOOLEAN /\ HasFinally(p, i) \in BOOLEAN
              /\ HasCatch(p, i) \/ HasFinally(p, i)
              /\ "return" \notin Exits(p, i, "finally")
<1>1. /\ p.async \in BOOLEAN /\ p.stmts \in Seq(TryStatement)
      /\ \A i \in DOMAIN p.stmts :
           LET s == p.stmts[i] IN
           /\ s.parent \in 0 .. i - 1
           /\ s.where = "body" <=> s.parent = 0
           /\ s.catch \/ s.finally
           /\ "return" \notin s.exits["finally"]
           /\ s.where = "finally" => s.call
  BY ProgramsAssumption
<1>2. Len(p.stmts) \in Nat /\ DOMAIN p.stmts = 1 .. Len(p.stmts)
      /\ \A i \in DOMAIN p.stmts : p.stmts[i] \in TryStatement
  BY <1>1
<1>3. ASSUME NEW i \in DOMAIN p.stmts
      PROVE  /\ i \in Nat \ {0} /\ p.stmts[i].parent \in 0 .. i - 1
             /\ p.stmts[i].where = "body" <=> p.stmts[i].parent = 0
             /\ p.stmts[i].where \in Region \cup {"body"}
             /\ p.stmts[i].where = "finally" => IsCall(p, i)
             /\ IsCall(p, i) \in BOOLEAN /\ HasCatch(p, i) \in BOOLEAN /\ HasFinally(p, i) \in BOOLEAN
             /\ HasCatch(p, i) \/ HasFinally(p, i)
             /\ "return" \notin Exits(p, i, "finally")
  <2>1. i \in Nat \ {0}
    BY <1>2
  <2>2. p.stmts[i] \in TryStatement
    BY <1>2
  <2>3. /\ p.stmts[i].where \in Region \cup {"body"} /\ p.stmts[i].call \in BOOLEAN
        /\ p.stmts[i].catch \in BOOLEAN /\ p.stmts[i].finally \in BOOLEAN
    BY <2>2 DEF TryStatement
  <2> QED BY <1>1, <2>1, <2>3 DEF IsCall, HasCatch, HasFinally, Exits
<1> QED BY <1>1, <1>2, <1>3

LEMMA FinallyAroundFacts ==
  ASSUME NEW p \in Programs
  PROVE  \A i \in DOMAIN p.stmts :
           FinallyAround(p)[i] = IF HasFinally(p, i) THEN i
                                 ELSE IF IsCall(p, i) \/ p.stmts[i].parent = 0 THEN 0
                                 ELSE FinallyAround(p)[p.stmts[i].parent]
<1> DEFINE N == Len(p.stmts)
           D == {i \in 1 .. N : HasFinally(p, i) \/ IsCall(p, i) \/ p.stmts[i].parent = 0}
           v == [i \in 1 .. N |-> IF HasFinally(p, i) THEN i ELSE 0]
           q == [i \in 1 .. N |-> p.stmts[i].parent]
           Rec(f) == f = [i \in DOMAIN p.stmts |-> IF HasFinally(p, i) THEN i
                                                   ELSE IF IsCall(p, i) \/ p.stmts[i].parent = 0 THEN 0
                                                   ELSE f[p.stmts[i].parent]]
<1>1. \A i \in 1 .. N : i \notin D => q[i] \in 1 .. i - 1
  BY StatementFacts
<1>2. PICK f : Climb(f, 1 .. N, D, v, q)
  <2>1. N \in Nat
    BY StatementFacts
  <2> HIDE DEF N, D, v, q
  <2> QED BY Zenon, <1>1, <2>1, ClimbExists
<1>3. Rec(f)
  <2> DEFINE h == [i \in DOMAIN p.stmts |-> IF HasFinally(p, i) THEN i
                                            ELSE IF IsCall(p, i) \/ p.stmts[i].parent = 0 THEN 0
                                            ELSE f[p.stmts[i].parent]]
  <2>1. f = [i \in 1 .. N |-> f[i]] /\ \A i \in 1 .. N : f[i] = IF i \in D THEN v[i] ELSE f[q[i]]
    <3> HIDE DEF D, v, q
    <3> QED BY <1>2 DEF Climb
  <2>2. DOMAIN p.stmts = 1 .. N
    BY StatementFacts
  <2>3. ASSUME NEW i \in 1 .. N PROVE f[i] = h[i]
    BY Zenon, <2>1, <2>2
  <2> QED BY Zenon, <2>1, <2>2, <2>3
<1> DEFINE u == CHOOSE w : Rec(w)
<1>4. Rec(u)
  <2> HIDE DEF Rec
  <2> QED BY <1>3
<1>5. FinallyAround(p) = u
  BY DEF FinallyAround
<1> QED BY Zenon, <1>4, <1>5

LEMMA FunctionOfFacts ==
  ASSUME NEW p \in Programs
  PROVE  \A i \in 0 .. Len(p.stmts) :
           /\ FunctionOf(p)[i] = IF i = 0 \/ IsCall(p, i) THEN i ELSE FunctionOf(p)[p.stmts[i].parent]
           /\ FunctionOf(p)[i] \in 0 .. i
<1> DEFINE N == Len(p.stmts)
           D == {i \in 0 .. N : i = 0 \/ IsCall(p, i)}
           v == [i \in 0 .. N |-> i]
           q == [i \in 0 .. N |-> p.stmts[i].parent]
           Rec(f) == f = [i \in 0 .. Len(p.stmts) |-> IF i = 0 \/ IsCall(p, i) THEN i ELSE f[p.stmts[i].parent]]
<1>0. N \in Nat /\ \A i \in 1 .. N : p.stmts[i].parent \in 0 .. i - 1
  BY StatementFacts
<1>1. \A i \in 0 .. N : i \notin D => q[i] \in 0 .. i - 1
  BY <1>0
<1>2. PICK f : Climb(f, 0 .. N, D, v, q)
  <2> HIDE DEF N, D, v, q
  <2> QED BY Zenon, <1>1, <1>0, ClimbExists
<1>3. Rec(f)
  <2> DEFINE h == [i \in 0 .. Len(p.stmts) |-> IF i = 0 \/ IsCall(p, i) THEN i ELSE f[p.stmts[i].parent]]
  <2>1. f = [i \in 0 .. N |-> f[i]] /\ \A i \in 0 .. N : f[i] = IF i \in D THEN v[i] ELSE f[q[i]]
    <3> HIDE DEF D, v, q
    <3> QED BY <1>2 DEF Climb
  <2>3. ASSUME NEW i \in 0 .. N PROVE f[i] = h[i]
    BY <2>1
  <2> QED BY <2>1, <2>3
<1> DEFINE u == CHOOSE w : Rec(w)
<1>4. Rec(u)
  <2> HIDE DEF Rec
  <2> QED BY <1>3
<1>5. FunctionOf(p) = u
  BY DEF FunctionOf
<1> DEFINE T == {i \in 0 .. N : u[i] \notin 0 .. i}
<1>6. \A i \in 0 .. N : u[i] = IF i = 0 \/ IsCall(p, i) THEN i ELSE u[p.stmts[i].parent]
  <2> HIDE DEF u
  <2> QED BY <1>4
<1> HIDE DEF u
<1>7. T = {}
  <2> SUFFICES ASSUME T # {} PROVE FALSE
    OBVIOUS
  <2>1. PICK m \in T : \A j \in T : ~ (j < m)
    <3>1. T \subseteq Nat
      OBVIOUS
    <3> HIDE DEF T
    <3> QED BY Zenon, <3>1, LeastIndex
  <2>2. m \in 1 .. N /\ ~ IsCall(p, m) /\ u[m] = u[p.stmts[m].parent]
    BY <2>1, <1>6, <1>0
  <2>3. p.stmts[m].parent \in 0 .. N /\ p.stmts[m].parent < m /\ p.stmts[m].parent \in 0 .. m
    BY <2>2, <1>0
  <2>4. u[p.stmts[m].parent] \in 0 .. p.stmts[m].parent
    BY <2>1, <2>3
  <2> QED BY <2>1, <2>2, <2>3, <2>4
<1> QED BY <1>5, <1>6, <1>7

-----------------------------------------------------------------------------
(* The order of emission. *)

Item == (Region \cup {"return"}) \X Nat

\* The statements whose code is part of the code of region r of statement i.
Parts(p, i, r) == {j \in DOMAIN p.stmts : j \in Children(p, i, r) /\ ~ IsCall(p, j)}

LEMMA PartFacts ==
  ASSUME NEW p \in Programs, NEW i \in Nat, NEW r
  PROVE  \A j \in Parts(p, i, r) : j \in i + 1 .. Len(p.stmts) /\ p.stmts[j].parent = i
<1> TAKE j \in Parts(p, i, r)
<1>1. j \in DOMAIN p.stmts /\ p.stmts[j].parent = i
  BY DEF Parts, Children
<1>2. j \in 1 .. Len(p.stmts) /\ p.stmts[j].parent \in 0 .. j - 1 /\ Len(p.stmts) \in Nat
  BY <1>1, StatementFacts
<1> QED BY <1>1, <1>2

Emitted(p, f, i, r) == \A j \in Parts(p, i, r) : f[j] \in Seq(Item)

LEMMA InnerUpto ==
  ASSUME NEW p \in Programs, NEW i \in Nat, NEW r, NEW f, Emitted(p, f, i, r)
  PROVE  \E u \in [0 .. Len(p.stmts) -> Seq(Item)] :
           /\ u[0] = <<>>
           /\ \A j \in 1 .. Len(p.stmts) : u[j] = IF j \in Parts(p, i, r) THEN u[j - 1] \o f[j] ELSE u[j - 1]
           /\ Inner(p, f, i, r) = u[Len(p.stmts)]
<1> DEFINE N == Len(p.stmts)
           C == Parts(p, i, r)
           g == [x \in (1 .. N) \X Seq(Item) |-> IF x[1] \in C THEN x[2] \o f[x[1]] ELSE x[2]]
           Rec(u) == u = [j \in 0 .. Len(p.stmts) |->
                            IF j = 0 THEN <<>>
                            ELSE IF j \in Children(p, i, r) /\ ~ IsCall(p, j) THEN u[j - 1] \o f[j]
                            ELSE u[j - 1]]
<1>0. N \in Nat /\ \A j \in 1 .. N : j \in C <=> j \in Children(p, i, r) /\ ~ IsCall(p, j)
  BY StatementFacts DEF Parts
<1>1. \A k \in 1 .. N : \A s \in Seq(Item) :
        /\ g[<<k, s>>] = IF k \in C THEN s \o f[k] ELSE s
        /\ g[<<k, s>>] \in Seq(Item)
  <2> TAKE k \in 1 .. N
  <2> TAKE s \in Seq(Item)
  <2>1. g[<<k, s>>] = IF k \in C THEN s \o f[k] ELSE s
    OBVIOUS
  <2>2. k \in C => s \o f[k] \in Seq(Item)
    <3> HAVE k \in C
    <3>1. f[k] \in Seq(Item)
      BY DEF Emitted
    <3> HIDE DEF g, C, N
    <3> QED BY <3>1
  <2> HIDE DEF g, C
  <2> QED BY <2>1, <2>2
<1>2. PICK u : Steps(u, g, N, Seq(Item), <<>>)
  <2>1. IsStep(g, N, Seq(Item))
    BY Zenon, <1>1 DEF IsStep
  <2>2. <<>> \in Seq(Item)
    OBVIOUS
  <2> HIDE DEF g, N
  <2> QED BY Zenon, <2>1, <2>2, <1>0, StepwiseExists
<1> HIDE DEF g
<1>3. /\ u \in [0 .. N -> Seq(Item)] /\ u[0] = <<>>
      /\ \A j \in 1 .. N : u[j] = IF j \in C THEN u[j - 1] \o f[j] ELSE u[j - 1]
  <2>1. u \in [0 .. N -> Seq(Item)] /\ u[0] = <<>>
    BY <1>2 DEF Steps
  <2>2. ASSUME NEW j \in 1 .. N PROVE u[j] = IF j \in C THEN u[j - 1] \o f[j] ELSE u[j - 1]
    <3>1. u[j - 1] \in Seq(Item)
      BY <2>1
    <3>2. u[j] = g[<<j, u[j - 1]>>]
      BY <1>2 DEF Steps
    <3> HIDE DEF C
    <3> QED BY <3>1, <3>2, <1>1
  <2> QED BY <2>1, <2>2
<1> HIDE DEF C
<1>4. Rec(u)
  <2> DEFINE h == [j \in 0 .. Len(p.stmts) |->
                            IF j = 0 THEN <<>>
                            ELSE IF j \in Children(p, i, r) /\ ~ IsCall(p, j) THEN u[j - 1] \o f[j]
                            ELSE u[j - 1]]
  <2>1. ASSUME NEW j \in 0 .. N PROVE u[j] = h[j]
    <3>1. CASE j = 0
      BY <3>1, <1>3
    <3>2. CASE j # 0
      <4>1. j \in 1 .. N
        BY <3>2
      <4> QED BY <4>1, <1>3, <1>0
    <3> QED BY <3>1, <3>2
  <2>2. u = [j \in 0 .. N |-> u[j]]
    BY <1>3
  <2> QED BY Zenon, <2>1, <2>2
<1> DEFINE w == CHOOSE x : Rec(x)
<1>5. Rec(w)
  <2> HIDE DEF Rec
  <2> QED BY <1>4
<1>6. Inner(p, f, i, r) = w[N]
  BY DEF Inner
<1> HIDE DEF w
<1> DEFINE T == {j \in 0 .. N : u[j] # w[j]}
<1>7. T = {}
  <2> SUFFICES ASSUME T # {} PROVE FALSE
    OBVIOUS
  <2>1. PICK m \in T : \A j \in T : ~ (j < m)
    <3>1. T \subseteq Nat
      OBVIOUS
    <3> HIDE DEF T
    <3> QED BY Zenon, <3>1, LeastIndex
  <2>2. m \in 0 .. N /\ m # 0
    BY <2>1, <1>3, <1>5
  <2>3. m - 1 \in 0 .. N /\ m - 1 < m /\ m \in 1 .. N
    BY <2>2
  <2>4. u[m - 1] = w[m - 1]
    BY <2>1, <2>3
  <2>5. w[m] = IF m \in Children(p, i, r) /\ ~ IsCall(p, m) THEN w[m - 1] \o f[m] ELSE w[m - 1]
    BY Zenon, <2>2, <1>5
  <2>6. u[m] = w[m]
    BY <2>3, <2>4, <2>5, <1>3, <1>0
  <2> QED BY <2>6, <2>1
<1>8. u[N] = w[N]
  BY <1>0, <1>7
<1> QED BY <1>3, <1>6, <1>8 DEF C

LEMMA InnerSame ==
  ASSUME NEW p \in Programs, NEW i \in Nat, NEW r, NEW f, NEW h,
         \A j \in Parts(p, i, r) : f[j] \in Seq(Item) /\ h[j] = f[j]
  PROVE  Inner(p, f, i, r) = Inner(p, h, i, r) /\ Inner(p, f, i, r) \in Seq(Item)
<1> DEFINE N == Len(p.stmts)
<1>0. N \in Nat
  BY StatementFacts
<1>1. PICK u \in [0 .. N -> Seq(Item)] :
           /\ u[0] = <<>>
           /\ \A j \in 1 .. N : u[j] = IF j \in Parts(p, i, r) THEN u[j - 1] \o f[j] ELSE u[j - 1]
           /\ Inner(p, f, i, r) = u[N]
  <2>1. Emitted(p, f, i, r)
    BY DEF Emitted
  <2> QED BY <2>1, InnerUpto
<1>2. PICK w \in [0 .. N -> Seq(Item)] :
           /\ w[0] = <<>>
           /\ \A j \in 1 .. N : w[j] = IF j \in Parts(p, i, r) THEN w[j - 1] \o h[j] ELSE w[j - 1]
           /\ Inner(p, h, i, r) = w[N]
  <2>1. Emitted(p, h, i, r)
    BY DEF Emitted
  <2> QED BY <2>1, InnerUpto
<1> DEFINE T == {j \in 0 .. N : u[j] # w[j]}
<1>3. T = {}
  <2> SUFFICES ASSUME T # {} PROVE FALSE
    OBVIOUS
  <2>1. PICK m \in T : \A j \in T : ~ (j < m)
    <3>1. T \subseteq Nat
      OBVIOUS
    <3> HIDE DEF T
    <3> QED BY <3>1, LeastIndex
  <2>2. m \in 0 .. N /\ m # 0
    BY <2>1, <1>1, <1>2
  <2>3. m - 1 \in 0 .. N /\ m - 1 < m /\ m \in 1 .. N
    BY <2>2
  <2>4. u[m - 1] = w[m - 1]
    BY <2>1, <2>3
  <2>6. u[m] = w[m]
    BY <2>3, <2>4, <1>1, <1>2
  <2> QED BY <2>6, <2>1
<1>4. u[N] = w[N]
  BY <1>0, <1>3
<1>5. u[N] \in Seq(Item)
  <2>1. N \in 0 .. N
    BY <1>0
  <2> HIDE DEF N
  <2> QED BY <2>1
<1> HIDE DEF N, T
<1> QED BY <1>1, <1>2, <1>4, <1>5

CodeOf(p, f, i) ==
  IF i = 0 THEN Inner(p, f, 0, "body")
  ELSE Inner(p, f, i, "try") \o Returned(p, i, "try") \o Block(p, i, "try")
         \o (IF HasCatch(p, i)
             THEN Inner(p, f, i, "catch") \o Returned(p, i, "catch") \o Block(p, i, "catch")
             ELSE <<>>)

LEMMA ItemFacts ==
  ASSUME NEW p \in Programs, NEW i \in Nat, NEW r \in Region
  PROVE  Returned(p, i, r) \in Seq(Item) /\ Block(p, i, r) \in Seq(Item)
<1>1. <<"return", i>> \in Item /\ <<r, i>> \in Item
  BY DEF Item, Region
<1>2. <<<<"return", i>>>> \in Seq(Item) /\ <<<<r, i>>>> \in Seq(Item) /\ <<>> \in Seq(Item)
  BY <1>1
<1> QED BY <1>2 DEF Returned, Block

LEMMA CodeSame ==
  ASSUME NEW p \in Programs, NEW i \in 0 .. Len(p.stmts), NEW f, NEW h,
         \A j \in i + 1 .. Len(p.stmts) : f[j] \in Seq(Item) /\ h[j] = f[j]
  PROVE  CodeOf(p, f, i) = CodeOf(p, h, i) /\ CodeOf(p, f, i) \in Seq(Item)
<1>1. ASSUME NEW r PROVE Inner(p, f, i, r) = Inner(p, h, i, r) /\ Inner(p, f, i, r) \in Seq(Item)
  <2>1. i \in Nat
    BY StatementFacts
  <2>2. \A j \in Parts(p, i, r) : f[j] \in Seq(Item) /\ h[j] = f[j]
    BY <2>1, PartFacts
  <2> QED BY <2>1, <2>2, InnerSame
<1>2. CodeOf(p, f, i) = CodeOf(p, h, i)
  BY <1>1 DEF CodeOf
<1>3. CASE i = 0
  BY <1>1, <1>2, <1>3 DEF CodeOf
<1>4. CASE i # 0
  <2>1. i \in Nat
    BY StatementFacts
  <2>2. /\ Returned(p, i, "try") \in Seq(Item) /\ Block(p, i, "try") \in Seq(Item)
        /\ Returned(p, i, "catch") \in Seq(Item) /\ Block(p, i, "catch") \in Seq(Item)
    BY <2>1, ItemFacts DEF Region
  <2>3. Inner(p, f, i, "try") \in Seq(Item) /\ Inner(p, f, i, "catch") \in Seq(Item)
    BY <1>1
  <2>4. \A a, b, c \in Seq(Item) : a \o b \o c \in Seq(Item)
    OBVIOUS
  <2>5. \A a, b, c, d \in Seq(Item) : a \o b \o c \o d \in Seq(Item)
    OBVIOUS
  <2>6. <<>> \in Seq(Item)
    OBVIOUS
  <2>7. CodeOf(p, f, i) \in Seq(Item)
    <3>1. CASE HasCatch(p, i)
      <4>1. Inner(p, f, i, "catch") \o Returned(p, i, "catch") \o Block(p, i, "catch") \in Seq(Item)
        BY <2>2, <2>3, <2>4
      <4> QED BY <4>1, <3>1, <1>4, <2>2, <2>3, <2>5 DEF CodeOf
    <3>2. CASE ~ HasCatch(p, i)
      BY <3>2, <1>4, <2>2, <2>3, <2>5, <2>6 DEF CodeOf
    <3> QED BY <3>1, <3>2
  <2> QED BY <1>2, <2>7
<1> QED BY <1>3, <1>4

LEMMA EmissionFacts ==
  ASSUME NEW p \in Programs
  PROVE  \A i \in 0 .. Len(p.stmts) :
           Emission(p)[i] = CodeOf(p, Emission(p), i) /\ Emission(p)[i] \in Seq(Item)
<1> DEFINE N == Len(p.stmts)
           Good(g, m) == \A i \in m .. N : g[i] = CodeOf(p, g, i) /\ g[i] \in Seq(Item)
           T == {d \in 0 .. N + 1 : ~ \E g : Good(g, N + 1 - d)}
<1>0. N \in Nat
  BY StatementFacts
<1>1. T = {}
  <2> SUFFICES ASSUME T # {} PROVE FALSE
    OBVIOUS
  <2>1. PICK d \in T : \A j \in T : ~ (j < d)
    <3>1. T \subseteq Nat
      BY <1>0
    <3> HIDE DEF T
    <3> QED BY Zenon, <3>1, LeastIndex
  <2>2. d \in 0 .. N + 1 /\ ~ \E g : Good(g, N + 1 - d)
    BY <2>1
  <2>3. d # 0
    <3>1. Good(<<>>, N + 1)
      BY <1>0
    <3>2. ASSUME d = 0 PROVE Good(<<>>, N + 1 - d)
      <4>1. N + 1 - d = N + 1
        BY <3>2, <1>0
      <4> HIDE DEF Good
      <4> QED BY <3>1, <4>1
    <3> HIDE DEF Good
    <3> QED BY <3>2, <2>2
  <2> DEFINE m == N + 1 - d
  <2>4. m \in 0 .. N /\ d - 1 \in 0 .. N + 1 /\ d - 1 < d /\ N + 1 - (d - 1) = m + 1
    BY <2>2, <2>3, <1>0
  <2>5. PICK g : Good(g, m + 1)
    <3>1. d - 1 \notin T
      BY Zenon, <2>1, <2>4
    <3>2. \E g : Good(g, N + 1 - (d - 1))
      BY <3>1, <2>4
    <3>3. N + 1 - (d - 1) = m + 1
      BY <2>4
    <3> HIDE DEF Good, m
    <3> QED BY <3>2, <3>3
  <2> HIDE DEF m
  <2> DEFINE h == [i \in m .. N |-> IF i = m THEN CodeOf(p, g, m) ELSE g[i]]
  <2>6. \A i \in m + 1 .. N : h[i] = g[i] /\ g[i] \in Seq(Item)
    <3> TAKE i \in m + 1 .. N
    <3>1. i \in m .. N /\ i # m
      BY <2>4, <1>0
    <3>2. g[i] \in Seq(Item)
      BY <2>5
    <3> QED BY <3>1, <3>2
  <2>7. h[m] = CodeOf(p, g, m)
    BY <2>4, <1>0
  <2> HIDE DEF h
  <2>8. Good(h, m)
    <3>1. ASSUME NEW i \in m .. N
          PROVE h[i] = CodeOf(p, h, i) /\ h[i] \in Seq(Item)
      <4>1. CodeOf(p, g, i) = CodeOf(p, h, i) /\ CodeOf(p, g, i) \in Seq(Item)
        <5>1. i \in 0 .. N
          BY <2>4, <1>0
        <5>2. \A j \in i + 1 .. N : g[j] \in Seq(Item) /\ h[j] = g[j]
          BY <2>6, <2>4, <1>0
        <5> QED BY Zenon, <5>1, <5>2, CodeSame
      <4>2. CASE i = m
        BY <4>1, <4>2, <2>7
      <4>3. CASE i # m
        <5>1. i \in m + 1 .. N
          BY <4>3, <2>4, <1>0
        <5>2. g[i] = CodeOf(p, g, i)
          BY <5>1, <2>5
        <5> QED BY Zenon, <5>1, <5>2, <4>1, <2>6
      <4> QED BY <4>2, <4>3
    <3> QED BY <3>1
  <2>9. \E x : Good(x, N + 1 - d)
    <3> HIDE DEF Good
    <3> QED BY <2>8 DEF m
  <2> HIDE DEF Good
  <2> QED BY <2>2, <2>9
<1>2. PICK g : Good(g, 0)
  <2>1. N + 1 \in 0 .. N + 1 /\ N + 1 - (N + 1) = 0
    BY <1>0
  <2>2. \E g : Good(g, N + 1 - (N + 1))
    BY <2>1, <1>1
  <2> HIDE DEF Good
  <2> QED BY <2>1, <2>2
<1> DEFINE Rec(c) == c = [i \in 0 .. Len(p.stmts) |-> CodeOf(p, c, i)]
           f == [i \in 0 .. N |-> g[i]]
           u == CHOOSE c : Rec(c)
<1>3. ASSUME NEW i \in 0 .. N PROVE f[i] = CodeOf(p, f, i) /\ f[i] \in Seq(Item)
  <2>1. \A j \in i + 1 .. N : g[j] \in Seq(Item) /\ f[j] = g[j]
    BY <1>0, <1>2
  <2>2. f[i] = g[i] /\ g[i] = CodeOf(p, g, i)
    BY <1>2
  <2> HIDE DEF f
  <2>3. CodeOf(p, g, i) = CodeOf(p, f, i) /\ CodeOf(p, g, i) \in Seq(Item)
    BY <2>1, CodeSame
  <2> QED BY <2>2, <2>3
<1>4. Rec(f)
  <2>1. f = [i \in 0 .. N |-> f[i]]
    OBVIOUS
  <2> HIDE DEF f
  <2> QED BY <2>1, <1>3
<1>5. Rec(u)
  <2> HIDE DEF Rec, f
  <2> QED BY <1>4
<1>6. Emission(p) = u
  BY DEF Emission, CodeOf
<1> HIDE DEF u
<1>7. \A i \in 0 .. N : u[i] = CodeOf(p, u, i)
  BY <1>5
<1> DEFINE W == {d \in 0 .. N : u[N - d] \notin Seq(Item)}
<1>8. W = {}
  <2> SUFFICES ASSUME W # {} PROVE FALSE
    OBVIOUS
  <2>1. PICK d \in W : \A j \in W : ~ (j < d)
    <3>1. W \subseteq Nat
      BY <1>0
    <3> HIDE DEF W
    <3> QED BY Zenon, <3>1, LeastIndex
  <2>2. d \in 0 .. N /\ N - d \in 0 .. N
    BY <2>1, <1>0
  <2>3. ASSUME NEW j \in (N - d) + 1 .. N PROVE u[j] \in Seq(Item)
    <3>1. N - j \in 0 .. N /\ N - j < d /\ N - (N - j) = j
      BY <2>2, <1>0
    <3>2. N - j \notin W
      BY Zenon, <3>1, <2>1
    <3> QED BY <3>1, <3>2
  <2>4. CodeOf(p, u, N - d) \in Seq(Item)
    BY Zenon, <2>2, <2>3, CodeSame
  <2> QED BY <2>1, <2>2, <2>4, <1>7
<1>9. ASSUME NEW i \in 0 .. N PROVE u[i] \in Seq(Item)
  <2>1. N - i \in 0 .. N /\ N - (N - i) = i
    BY <1>0
  <2> QED BY Zenon, <2>1, <1>8
<1> QED BY <1>6, <1>7, <1>9

\* Every return of the list is one of the try body of a statement with a finally
\* block, right before the leave block of that statement.
Paired(p, s) ==
  \A j \in DOMAIN s : s[j][1] = "return" =>
    /\ j + 1 \in DOMAIN s
    /\ \E i \in DOMAIN p.stmts :
         s[j] = <<"return", i>> /\ s[j + 1] = <<"try", i>> /\ HasFinally(p, i) /\ Returns(p, i, "try")

LEMMA PairedConcat ==
  ASSUME NEW p, NEW s \in Seq(Item), NEW t \in Seq(Item), Paired(p, s), Paired(p, t)
  PROVE  Paired(p, s \o t) /\ s \o t \in Seq(Item)
<1> DEFINE u == s \o t
<1>1. /\ DOMAIN s = 1 .. Len(s) /\ DOMAIN t = 1 .. Len(t) /\ DOMAIN u = 1 .. Len(s) + Len(t)
      /\ Len(s) \in Nat /\ Len(t) \in Nat /\ u \in Seq(Item)
      /\ \A j \in 1 .. Len(s) : u[j] = s[j]
      /\ \A j \in 1 .. Len(t) : u[Len(s) + j] = t[j]
  OBVIOUS
<1> HIDE DEF u
<1>2. ASSUME NEW j \in DOMAIN u, u[j][1] = "return"
      PROVE  /\ j + 1 \in DOMAIN u
             /\ \E i \in DOMAIN p.stmts :
                  u[j] = <<"return", i>> /\ u[j + 1] = <<"try", i>> /\ HasFinally(p, i) /\ Returns(p, i, "try")
  <2>1. CASE j \in 1 .. Len(s)
    <3>1. j \in DOMAIN s /\ s[j] = u[j]
      BY <2>1, <1>1
    <3>2. j + 1 \in DOMAIN s
      BY <3>1, <1>2 DEF Paired
    <3>3. PICK i \in DOMAIN p.stmts :
            s[j] = <<"return", i>> /\ s[j + 1] = <<"try", i>> /\ HasFinally(p, i) /\ Returns(p, i, "try")
      BY <3>1, <1>2 DEF Paired
    <3>4. u[j + 1] = s[j + 1] /\ j + 1 \in DOMAIN u
      BY <3>2, <1>1
    <3> QED BY <3>1, <3>3, <3>4
  <2>2. CASE j \notin 1 .. Len(s)
    <3> DEFINE k == j - Len(s)
    <3>1. k \in 1 .. Len(t) /\ Len(s) + k = j /\ Len(s) + (k + 1) = j + 1
      BY <2>2, <1>1
    <3> HIDE DEF k
    <3>2. k \in DOMAIN t /\ t[k] = u[j]
      BY <3>1, <1>1
    <3>3. k + 1 \in DOMAIN t
      BY <3>2, <1>2 DEF Paired
    <3>4. PICK i \in DOMAIN p.stmts :
            t[k] = <<"return", i>> /\ t[k + 1] = <<"try", i>> /\ HasFinally(p, i) /\ Returns(p, i, "try")
      BY <3>2, <1>2 DEF Paired
    <3>5. u[j + 1] = t[k + 1] /\ j + 1 \in DOMAIN u
      BY <3>1, <3>3, <1>1
    <3> QED BY <3>2, <3>4, <3>5
  <2> QED BY <2>1, <2>2
<1> QED BY <1>1, <1>2 DEF Paired, u

LEMMA PairedInner ==
  ASSUME NEW p \in Programs, NEW i \in Nat, NEW r, NEW f,
         \A j \in Parts(p, i, r) : f[j] \in Seq(Item) /\ Paired(p, f[j])
  PROVE  Inner(p, f, i, r) \in Seq(Item) /\ Paired(p, Inner(p, f, i, r))
<1> DEFINE N == Len(p.stmts)
<1>0. N \in Nat
  BY StatementFacts
<1>1. PICK u \in [0 .. N -> Seq(Item)] :
           /\ u[0] = <<>>
           /\ \A j \in 1 .. N : u[j] = IF j \in Parts(p, i, r) THEN u[j - 1] \o f[j] ELSE u[j - 1]
           /\ Inner(p, f, i, r) = u[N]
  <2>1. Emitted(p, f, i, r)
    BY DEF Emitted
  <2> QED BY <2>1, InnerUpto
<1> DEFINE T == {j \in 0 .. N : ~ Paired(p, u[j])}
<1>2. T = {}
  <2> SUFFICES ASSUME T # {} PROVE FALSE
    OBVIOUS
  <2>1. PICK m \in T : \A j \in T : ~ (j < m)
    <3>1. T \subseteq Nat
      OBVIOUS
    <3> HIDE DEF T
    <3> QED BY Zenon, <3>1, LeastIndex
  <2>2. m \in 0 .. N /\ m # 0
    <3>1. Paired(p, <<>>)
      BY DEF Paired
    <3> QED BY <2>1, <3>1, <1>1
  <2>3. m - 1 \in 0 .. N /\ m - 1 < m /\ m \in 1 .. N
    BY <2>2
  <2>4. PICK s \in Seq(Item) : s = u[m - 1]
    BY <2>3, <1>1
  <2>5. Paired(p, s)
    BY <2>1, <2>3, <2>4
  <2>6. CASE m \in Parts(p, i, r)
    <3>1. PICK t \in Seq(Item) : t = f[m] /\ Paired(p, t)
      BY <2>6
    <3>2. u[m] = s \o t
      BY Zenon, <3>1, <2>3, <2>4, <2>6, <1>1
    <3>3. Paired(p, s \o t)
      BY <3>1, <2>5, PairedConcat
    <3> QED BY Zenon, <3>2, <3>3, <2>1
  <2>7. CASE m \notin Parts(p, i, r)
    <3>1. u[m] = s
      BY <2>3, <2>4, <2>7, <1>1
    <3> QED BY <3>1, <2>5, <2>1
  <2> QED BY <2>6, <2>7
<1>3. N \in 0 .. N
  BY <1>0
<1> QED BY <1>1, <1>2, <1>3

LEMMA PairedCode ==
  ASSUME NEW p \in Programs, Supported(p), NEW i \in 0 .. Len(p.stmts), NEW f,
         \A j \in i + 1 .. Len(p.stmts) : f[j] \in Seq(Item) /\ Paired(p, f[j])
  PROVE  CodeOf(p, f, i) \in Seq(Item) /\ Paired(p, CodeOf(p, f, i))
<1>0. i \in Nat
  BY StatementFacts
<1>1. ASSUME NEW r PROVE Inner(p, f, i, r) \in Seq(Item) /\ Paired(p, Inner(p, f, i, r))
  BY <1>0, PartFacts, PairedInner
<1>2. CASE i = 0
  BY <1>1, <1>2 DEF CodeOf
<1>3. CASE i # 0
  <2>1. i \in DOMAIN p.stmts
    BY <1>3, StatementFacts
  <2> DEFINE B(r) == Block(p, i, r)
  <2>2. \A r \in {"try", "catch"} : Block(p, i, r) \in Seq(Item) /\ Paired(p, Block(p, i, r))
    <3> TAKE r \in {"try", "catch"}
    <3>1. Block(p, i, r) \in Seq(Item)
      BY Zenon, <1>0, ItemFacts DEF Region
    <3>2. \A j \in DOMAIN Block(p, i, r) : Block(p, i, r)[j][1] # "return"
      BY DEF Block
    <3> QED BY <3>1, <3>2 DEF Paired
  <2>3. Returned(p, i, "try") \o Block(p, i, "try") \in Seq(Item)
        /\ Paired(p, Returned(p, i, "try") \o Block(p, i, "try"))
    <3>1. CASE Returned(p, i, "try") = <<>>
      <4>1. <<>> \o Block(p, i, "try") = Block(p, i, "try")
        BY <2>2
      <4> QED BY Zenon, <3>1, <4>1, <2>2
    <3>2. CASE Returned(p, i, "try") # <<>>
      <4>1. Returns(p, i, "try") /\ FinallyAround(p)[i] # 0 /\ Returned(p, i, "try") = <<<<"return", i>>>>
        BY <3>2 DEF Returned, Returns
      <4>2. HasFinally(p, i)
        BY <4>1, <2>1 DEF Supported, PopsAll
      <4>3. Block(p, i, "try") = <<<<"try", i>>>>
        BY <4>2 DEF Block
      <4> DEFINE v == Returned(p, i, "try") \o Block(p, i, "try")
      <4>4. Returned(p, i, "try") \in Seq(Item) /\ Block(p, i, "try") \in Seq(Item)
        BY <1>0, ItemFacts DEF Region
      <4>5. v \in Seq(Item) /\ Len(v) = 2 /\ v[1] = <<"return", i>> /\ v[2] = <<"try", i>>
        BY <4>1, <4>3, <4>4
      <4> HIDE DEF v
      <4>6. DOMAIN v = 1 .. 2 /\ v[2][1] = "try"
        BY <4>5
      <4>7. ASSUME NEW j \in DOMAIN v, v[j][1] = "return" PROVE j = 1
        <5>1. j = 1 \/ j = 2
          BY <4>6
        <5> QED BY <5>1, <4>6, <4>7
      <4>8. Paired(p, v)
        BY <4>1, <4>2, <4>5, <4>6, <4>7, <2>1 DEF Paired
      <4> QED BY <4>5, <4>8 DEF v
    <3> QED BY <3>1, <3>2
  <2>4. (Inner(p, f, i, "try") \o Returned(p, i, "try")) \o Block(p, i, "try") \in Seq(Item)
        /\ Paired(p, (Inner(p, f, i, "try") \o Returned(p, i, "try")) \o Block(p, i, "try"))
    <3>1. Inner(p, f, i, "try") \o Returned(p, i, "try") \o Block(p, i, "try")
            = Inner(p, f, i, "try") \o (Returned(p, i, "try") \o Block(p, i, "try"))
      <4>1. Returned(p, i, "try") \in Seq(Item) /\ Block(p, i, "try") \in Seq(Item)
        BY <1>0, ItemFacts DEF Region
      <4>2. Inner(p, f, i, "try") \in Seq(Item)
        BY <1>1
      <4>3. PICK x \in Seq(Item), y \in Seq(Item), z \in Seq(Item) :
              x = Inner(p, f, i, "try") /\ y = Returned(p, i, "try") /\ z = Block(p, i, "try")
        BY <4>1, <4>2
      <4>4. (x \o y) \o z = x \o (y \o z)
        BY ConcatAssociative
      <4> QED BY <4>3, <4>4
    <3> QED BY Zenon, <3>1, <1>1, <2>3, PairedConcat
  <2>5. ASSUME HasCatch(p, i)
        PROVE  /\ Inner(p, f, i, "catch") \o Returned(p, i, "catch") \o Block(p, i, "catch") \in Seq(Item)
               /\ Paired(p, Inner(p, f, i, "catch") \o Returned(p, i, "catch") \o Block(p, i, "catch"))
    <3>1. Returned(p, i, "catch") = <<>>
      <4>1. SUFFICES ASSUME Returns(p, i, "catch"), FinallyAround(p)[i] # 0 PROVE FALSE
        BY DEF Returned, Returns
      <4>2. ~ HasFinally(p, i) /\ Outermost(p, i)
        BY <4>1, <2>1, <2>5 DEF Supported, PopsAll
      <4> QED BY <4>1, <4>2, <2>1, FinallyAroundFacts DEF Outermost
    <3>2. Inner(p, f, i, "catch") \o Returned(p, i, "catch") = Inner(p, f, i, "catch")
      BY <3>1, <1>1
    <3> QED BY Zenon, <3>2, <1>1, <2>2, PairedConcat
  <2>6. CASE HasCatch(p, i)
    BY Zenon, <2>4, <2>5, <2>6, <1>3, PairedConcat DEF CodeOf
  <2>7. CASE ~ HasCatch(p, i)
    <3>1. \A s \in Seq(Item) : s \o <<>> = s
      OBVIOUS
    <3> QED BY <3>1, <2>4, <2>7, <1>3 DEF CodeOf
  <2> QED BY <2>6, <2>7
<1> QED BY <1>2, <1>3

LEMMA PairedEmission ==
  ASSUME NEW p \in Programs, Supported(p)
  PROVE  \A i \in 0 .. Len(p.stmts) : Paired(p, Emission(p)[i])
<1> DEFINE N == Len(p.stmts)
           u == Emission(p)
           W == {d \in 0 .. N : ~ Paired(p, u[N - d])}
<1>0. N \in Nat
  BY StatementFacts
<1>7. \A i \in 0 .. N : u[i] = CodeOf(p, u, i) /\ u[i] \in Seq(Item)
  BY EmissionFacts
<1> HIDE DEF u
<1>8. W = {}
  <2> SUFFICES ASSUME W # {} PROVE FALSE
    OBVIOUS
  <2>1. PICK d \in W : \A j \in W : ~ (j < d)
    <3>1. W \subseteq Nat
      BY <1>0
    <3> HIDE DEF W
    <3> QED BY Zenon, <3>1, LeastIndex
  <2>2. d \in 0 .. N /\ N - d \in 0 .. N
    BY <2>1, <1>0
  <2>3. ASSUME NEW j \in (N - d) + 1 .. N PROVE u[j] \in Seq(Item) /\ Paired(p, u[j])
    <3>1. N - j \in 0 .. N /\ N - j < d /\ N - (N - j) = j
      BY <2>2, <1>0
    <3>2. N - j \notin W
      BY <3>1, <2>1
    <3>3. j \in 0 .. N
      BY <2>2, <1>0
    <3> QED BY <3>1, <3>2, <3>3, <1>7
  <2>4. PICK i \in 0 .. N : i = N - d
    BY <2>2
  <2>5. \A j \in i + 1 .. N : u[j] \in Seq(Item) /\ Paired(p, u[j])
    BY <2>3, <2>4
  <2>6. Paired(p, CodeOf(p, u, i))
    BY <2>5, PairedCode
  <2> QED BY <2>1, <2>4, <2>6, <1>7
<1>9. ASSUME NEW i \in 0 .. N PROVE Paired(p, u[i])
  <2>1. N - i \in 0 .. N /\ N - (N - i) = i
    BY <1>0
  <2> QED BY Zenon, <2>1, <1>8
<1> QED BY <1>9 DEF u

\* Only the leave block after the try body of a statement that is left for good
\* takes a pending return.
LEMMA LeaveFacts ==
  ASSUME NEW p \in Programs, Supported(p), NEW i \in DOMAIN p.stmts, NEW r, LeaveReturns(p, i, r)
  PROVE  /\ r = "try" /\ HasFinally(p, i) /\ Returns(p, i, "try")
         /\ Outermost(p, i) /\ "normal" \notin Exits(p, i, "try")
<1> DEFINE code == Emission(p)[FunctionOf(p)[i]]
<1>1. FunctionOf(p)[i] \in 0 .. Len(p.stmts)
  <2>1. i \in 0 .. Len(p.stmts) /\ Len(p.stmts) \in Nat
    BY StatementFacts
  <2>2. FunctionOf(p)[i] \in 0 .. i
    BY <2>1, FunctionOfFacts
  <2> QED BY <2>1, <2>2
<1>2. code \in Seq(Item) /\ Paired(p, code)
  BY <1>1, EmissionFacts, PairedEmission
<1>3. PICK j \in 2 .. Len(code) : code[j] = <<r, i>> /\ code[j - 1][1] = "return"
  BY DEF LeaveReturns
<1> HIDE DEF code
<1>4. j - 1 \in DOMAIN code /\ (j - 1) + 1 = j
  BY <1>2, <1>3
<1>5. PICK k \in DOMAIN p.stmts : code[j] = <<"try", k>> /\ HasFinally(p, k) /\ Returns(p, k, "try")
  BY <1>2, <1>3, <1>4 DEF Paired
<1>6. r = "try" /\ i = k
  BY <1>3, <1>5
<1>7. ~ PopsAll(p, i)
  <2>1. i # 0 /\ FinallyAround(p)[i] = i
    BY <1>5, <1>6, StatementFacts, FinallyAroundFacts
  <2> QED BY <2>1 DEF PopsAll
<1> QED BY <1>5, <1>6, <1>7 DEF Supported

-----------------------------------------------------------------------------
(* The inductive invariant. *)

\* The activations whose frame is on the handler stack, the calls among the
\* activations, and the frames above the async body's own.
Held == {i \in DOMAIN ctl : ctl[i].at \in {"try", "leave", "thunk"}}
Calls == {i \in DOMAIN ctl : IsCall(prog, ctl[i].try)}
Frames == {k \in DOMAIN eh : k > Len(Base)}

\* The activations are nested as the source is, numbered in the order of entry,
\* and each is in a block that was emitted for its statement.
Nested ==
  /\ \A i \in DOMAIN ctl :
       /\ ctl[i].n \in 1 .. entries
       /\ ctl[i].at \in {"catch", "leaveCatch"} => HasCatch(prog, ctl[i].try)
       /\ ctl[i].at \in {"leave", "leaveCatch", "thunk"} => HasFinally(prog, ctl[i].try)
       /\ i = 1 => ctl[i].try \in Children(prog, 0, "body")
       /\ i > 1 => ctl[i].try \in Children(prog, ctl[i - 1].try, SourceRegion(ctl[i - 1].at))
  /\ \A i, j \in DOMAIN ctl : i < j => ctl[i].n < ctl[j].n

\* Every held activation has a frame and every frame an activation, and the
\* frames are in the activations' order.
Framed ==
  /\ Len(Base) <= Len(eh) /\ \A k \in DOMAIN Base : eh[k] = Base[k]
  /\ \A k \in Frames : \E i \in Held : eh[k].try = ctl[i].try /\ eh[k].n = ctl[i].n
  /\ \A i \in Held : \E k \in Frames : eh[k].n = ctl[i].n
  /\ \A k, l \in Frames : k < l => eh[k].n < eh[l].n

\* The checkpoints of calls and frames rise with the nesting.
Checkpoints ==
  /\ \A i \in Calls : ctl[i].cp \in 0 .. Len(roots)
  /\ \A k \in Frames : eh[k].cp \in 0 .. Len(roots)
  /\ \A i, j \in Calls : i < j => ctl[i].cp <= ctl[j].cp
  /\ \A k, l \in Frames : k < l => eh[k].cp <= eh[l].cp
  /\ \A i \in Calls, k \in Frames :
       IF ctl[i].n <= eh[k].n THEN ctl[i].cp <= eh[k].cp ELSE eh[k].cp <= ctl[i].cp

\* What lies below a checkpoint belongs to the calls below it.
Owned ==
  \A r \in DOMAIN roots :
    /\ roots[r].fn = 0 \/ \E i \in Calls : ctl[i].n = roots[r].fn
    /\ \A i \in Calls : r <= ctl[i].cp => roots[r].fn < ctl[i].n
    /\ \A k \in Frames : r <= eh[k].cp => roots[r].fn <= eh[k].n

\* A block of the async body itself: its locals live in the async frame.
InFrame(i) == prog.async /\ \A j \in Calls : j > i

\* A rooted local's slot lies below the checkpoints of what its block entered.
Rooted ==
  \A i \in DOMAIN ctl : ctl[i].local /\ ~ InFrame(i) =>
    \E r \in DOMAIN roots :
      /\ roots[r].n = ctl[i].n /\ roots[r].at = ctl[i].at
      /\ \A j \in Calls : j > i => r <= ctl[j].cp
      /\ \A k \in Frames : eh[k].n > ctl[i].n => r <= eh[k].cp

Over == ctl = <<>> /\ eh = <<>> /\ roots = <<>>

TryInv ==
  /\ TryTypeOK /\ prog \in Programs
  /\ IF out = "running" THEN Nested /\ Framed /\ Checkpoints /\ Owned /\ Rooted ELSE Over

AllSupported == \A p \in Programs : Supported(p)

LEMMA StartFacts ==
  ASSUME NEW p, NEW c \in Seq(Activation)
  PROVE  /\ FunctionStart(p, c) \in 0 .. Len(c)
         /\ FunctionStart(p, c) > 0 => IsCall(p, c[FunctionStart(p, c)].try)
         /\ \A j \in DOMAIN c : IsCall(p, c[j].try) => j <= FunctionStart(p, c)
<1> DEFINE S == {0} \cup {j \in DOMAIN c : IsCall(p, c[j].try)}
<1>1. Len(c) \in Nat /\ DOMAIN c = 1 .. Len(c)
  OBVIOUS
<1>2. S \in SUBSET (0 .. Len(c)) /\ S # {}
  BY <1>1
<1>3. FunctionStart(p, c) = Max(S)
  BY DEF FunctionStart
<1>4. \A j \in S : j = 0 \/ IsCall(p, c[j].try)
  OBVIOUS
<1>5. \A j \in DOMAIN c : IsCall(p, c[j].try) => j \in S
  OBVIOUS
<1> HIDE DEF S
<1>6. Max(S) \in S /\ \A x \in S : x <= Max(S)
  BY Zenon, <1>1, <1>2, MaxFacts
<1>7. Max(S) \in 0 .. Len(c) /\ (Max(S) > 0 => IsCall(p, c[Max(S)].try))
  <2>1. PICK x : x = Max(S)
    OBVIOUS
  <2>2. x \in S
    BY <2>1, <1>6
  <2>3. x \in 0 .. Len(c) /\ (x = 0 \/ IsCall(p, c[x].try))
    BY <2>2, <1>2, <1>4
  <2> QED BY <2>1, <2>3
<1> QED BY <1>3, <1>5, <1>6, <1>7

LEMMA RunningFacts ==
  ASSUME TryInv, out = "running"
  PROVE  /\ prog \in Programs /\ entries \in Nat
         /\ ctl \in Seq(Activation) /\ DOMAIN ctl = 1 .. Len(ctl) /\ Len(ctl) \in Nat
         /\ eh \in Seq(Frame) /\ DOMAIN eh = 1 .. Len(eh) /\ Len(eh) \in Nat
         /\ roots \in Seq(Root) /\ DOMAIN roots = 1 .. Len(roots) /\ Len(roots) \in Nat
         /\ \A i \in DOMAIN ctl : /\ ctl[i] \in Activation /\ ctl[i].try \in DOMAIN prog.stmts
                                  /\ ctl[i].n \in Nat \ {0} /\ ctl[i].cp \in Nat /\ ctl[i].at \in Place
                                  /\ ctl[i].local \in BOOLEAN
         /\ \A k \in DOMAIN eh : eh[k] \in Frame /\ eh[k].n \in Nat /\ eh[k].cp \in Nat
         /\ \A r \in DOMAIN roots : roots[r] \in Root /\ roots[r].fn \in Nat /\ roots[r].n \in Nat
         /\ Base = (IF prog.async THEN <<AsyncRoot>> ELSE <<>>) /\ Len(Base) = (IF prog.async THEN 1 ELSE 0)
<1>1. /\ prog \in Programs /\ entries \in Nat /\ ctl \in Seq(Activation) /\ eh \in Seq(Frame) /\ roots \in Seq(Root)
  BY EntriesAssumption DEF TryInv, TryTypeOK
<1>2. /\ DOMAIN ctl = 1 .. Len(ctl) /\ Len(ctl) \in Nat
      /\ DOMAIN eh = 1 .. Len(eh) /\ Len(eh) \in Nat
      /\ DOMAIN roots = 1 .. Len(roots) /\ Len(roots) \in Nat
  BY <1>1
<1>3. ASSUME NEW i \in DOMAIN ctl
      PROVE  /\ ctl[i] \in Activation /\ ctl[i].try \in DOMAIN prog.stmts
             /\ ctl[i].n \in Nat \ {0} /\ ctl[i].cp \in Nat /\ ctl[i].at \in Place /\ ctl[i].local \in BOOLEAN
  <2>1. ctl[i] \in Activation
    BY <1>1
  <2>2. ctl[i].n \in 1 .. entries
    BY DEF TryInv, Nested
  <2>3. ctl[i].try \in DOMAIN prog.stmts
    <3>1. i = 1 \/ i > 1
      BY <1>2
    <3> QED BY <3>1 DEF TryInv, Nested, Children
  <2> QED BY <2>1, <2>2, <2>3, <1>1 DEF Activation
<1>4. \A k \in DOMAIN eh : eh[k] \in Frame /\ eh[k].n \in Nat /\ eh[k].cp \in Nat
  <2> TAKE k \in DOMAIN eh
  <2>1. eh[k] \in Frame
    BY <1>1
  <2> QED BY <2>1 DEF Frame
<1>5. \A r \in DOMAIN roots : roots[r] \in Root /\ roots[r].fn \in Nat /\ roots[r].n \in Nat
  <2> TAKE r \in DOMAIN roots
  <2>1. roots[r] \in Root
    BY <1>1
  <2> QED BY <2>1 DEF Root
<1>6. Base = (IF prog.async THEN <<AsyncRoot>> ELSE <<>>) /\ Len(Base) = (IF prog.async THEN 1 ELSE 0)
  BY DEF Base
<1> QED BY <1>1, <1>2, <1>3, <1>4, <1>5, <1>6

\* The innermost held activation is the one of the top frame.
LEMMA TopFrame ==
  ASSUME TryInv, out = "running", NEW i \in Held, \A j \in Held : j <= i
  PROVE  /\ Len(eh) \in Frames /\ Len(eh) > Len(Base) /\ eh[Len(eh)].n = ctl[i].n /\ eh[Len(eh)].try = ctl[i].try
         /\ \A k \in Frames : k < Len(eh) => eh[k].n < ctl[i].n
<1> USE RunningFacts
<1>0. Framed /\ Nested
  BY DEF TryInv
<1>1. PICK k \in Frames : eh[k].n = ctl[i].n
  BY <1>0 DEF Framed
<1>2. Len(eh) \in Frames /\ Len(eh) > Len(Base) /\ k <= Len(eh) /\ k \in DOMAIN eh
  BY <1>1 DEF Frames
<1>3. PICK j \in Held : eh[Len(eh)].try = ctl[j].try /\ eh[Len(eh)].n = ctl[j].n
  BY Zenon, <1>0, <1>2 DEF Framed
<1>4. i \in DOMAIN ctl /\ j \in DOMAIN ctl /\ j <= i
  BY DEF Held
<1>5. j = i
  <2> SUFFICES ASSUME j < i PROVE FALSE
    BY <1>4
  <2>1. ctl[j].n < ctl[i].n
    BY <1>0, <1>4 DEF Nested
  <2>2. k # Len(eh)
    BY <1>1, <1>3, <2>1, <1>4
  <2>3. eh[k].n < eh[Len(eh)].n
    <3>1. k < Len(eh)
      <4>1. k \in Nat /\ Len(eh) \in Nat /\ k <= Len(eh)
        BY <1>2
      <4>2. PICK q \in Nat : q = Len(eh)
        BY ONLY <4>1
      <4>3. k \in Nat /\ k <= q /\ k # q
        BY ONLY <4>1, <4>2, <2>2
      <4> HIDE RunningFacts
      <4>4. k < q
        BY ONLY <4>3
      <4> QED BY <4>2, <4>4
    <3>2. \A x, y \in Frames : x < y => eh[x].n < eh[y].n
      BY <1>0 DEF Framed
    <3> QED BY <1>2, <3>1, <3>2
  <2> QED BY <1>1, <1>3, <1>4, <2>1, <2>3
<1>6. \A l \in Frames : l < Len(eh) => eh[l].n < ctl[i].n
  BY Zenon, <1>0, <1>2, <1>3, <1>5 DEF Framed
<1> QED BY <1>2, <1>3, <1>5, <1>6

\* The top frame above the base belongs to the innermost held activation.
LEMMA FrameOwner ==
  ASSUME TryInv, out = "running", Len(eh) > Len(Base)
  PROVE  \E i \in Held : /\ \A j \in Held : j <= i
                         /\ eh[Len(eh)].n = ctl[i].n /\ eh[Len(eh)].try = ctl[i].try
<1> USE RunningFacts
<1>0. Framed /\ Nested
  BY DEF TryInv
<1>1. Len(eh) \in Frames
  BY DEF Frames
<1>2. PICK i \in Held : eh[Len(eh)].try = ctl[i].try /\ eh[Len(eh)].n = ctl[i].n
  BY <1>0, <1>1 DEF Framed
<1>3. ASSUME NEW j \in Held, ~ (j <= i) PROVE FALSE
  <2>1. i \in DOMAIN ctl /\ j \in DOMAIN ctl /\ i < j
    BY <1>3 DEF Held
  <2>2. ctl[i].n < ctl[j].n
    BY <2>1, <1>0 DEF Nested
  <2>3. PICK k \in Frames : eh[k].n = ctl[j].n
    BY <1>0 DEF Framed
  <2>4. k \in DOMAIN eh /\ (k = Len(eh) \/ k < Len(eh))
    BY <2>3 DEF Frames
  <2>5. CASE k = Len(eh)
    BY <2>1, <2>2, <2>3, <2>5, <1>2
  <2>6. CASE k < Len(eh)
    <3>1. eh[k].n < eh[Len(eh)].n
      BY <2>6, <1>0, <1>1 DEF Framed
    <3> QED BY <3>1, <2>1, <2>2, <2>3, <1>2
  <2> QED BY <2>4, <2>5, <2>6
<1> QED BY <1>2, <1>3

LEMMA MoveFacts ==
  ASSUME NEW c \in Seq(Activation), c # <<>>, NEW place \in Place
  PROVE  /\ MoveTo(c, place) \in Seq(Activation) /\ Len(MoveTo(c, place)) = Len(c) /\ Len(c) \in Nat \ {0}
         /\ \A i \in 1 .. Len(c) - 1 : MoveTo(c, place)[i] = c[i]
         /\ MoveTo(c, place)[Len(c)].try = c[Len(c)].try /\ MoveTo(c, place)[Len(c)].n = c[Len(c)].n
         /\ MoveTo(c, place)[Len(c)].cp = c[Len(c)].cp
         /\ MoveTo(c, place)[Len(c)].at = place /\ MoveTo(c, place)[Len(c)].local = FALSE
<1>1. Len(c) \in Nat \ {0} /\ c[Len(c)] \in Activation /\ Last(c) = c[Len(c)]
  BY FrontFacts
<1>2. Front(c) \in Seq(Activation) /\ Len(Front(c)) = Len(c) - 1 /\ \A i \in 1 .. Len(c) - 1 : Front(c)[i] = c[i]
  BY FrontFacts
<1> DEFINE a == [Last(c) EXCEPT !.at = place, !.local = FALSE]
<1>3. PICK b \in Activation : b = c[Len(c)]
  BY <1>1
<1>4. a \in Activation /\ a.try = b.try /\ a.n = b.n /\ a.cp = b.cp /\ a.at = place /\ a.local = FALSE
  BY Zenon, <1>1, <1>3 DEF Activation
<1>5. MoveTo(c, place) = Append(Front(c), a)
  BY DEF MoveTo
<1> HIDE DEF a
<1>6. /\ Append(Front(c), a) \in Seq(Activation) /\ Len(Append(Front(c), a)) = Len(c)
      /\ Append(Front(c), a)[Len(c)] = a
      /\ \A i \in 1 .. Len(c) - 1 : Append(Front(c), a)[i] = c[i]
  BY <1>1, <1>2, <1>4
<1> QED BY <1>1, <1>3, <1>4, <1>5, <1>6

\* The stacks are cut: the m outermost activations remain, l frames, b roots.
Cut(m, l, b) ==
  /\ ctl' \in Seq(Activation) /\ Len(ctl') = m
  /\ \A i \in 1 .. m :
       /\ ctl'[i].try = ctl[i].try /\ ctl'[i].n = ctl[i].n /\ ctl'[i].cp = ctl[i].cp
       /\ ctl'[i].local => ctl[i].local /\ ctl'[i].at = ctl[i].at
  /\ eh' = SubSeq(eh, 1, l) /\ roots' = SubSeq(roots, 1, b)
  /\ UNCHANGED <<prog, out, entries>>

LEMMA CutFacts ==
  ASSUME TryInv, out = "running", NEW m \in 0 .. Len(ctl), NEW l \in Len(Base) .. Len(eh),
         NEW b \in 0 .. Len(roots), Cut(m, l, b)
  PROVE  /\ DOMAIN ctl' = 1 .. m /\ m \in Nat
         /\ DOMAIN eh' = 1 .. l /\ Len(eh') = l /\ l \in Nat /\ eh' \in Seq(Frame)
         /\ DOMAIN roots' = 1 .. b /\ Len(roots') = b /\ b \in Nat /\ roots' \in Seq(Root)
         /\ \A k \in 1 .. l : k \in DOMAIN eh /\ eh'[k] = eh[k]
         /\ \A r \in 1 .. b : r \in DOMAIN roots /\ roots'[r] = roots[r]
         /\ \A i \in 1 .. m : i \in DOMAIN ctl
         /\ Calls' = {i \in Calls : i <= m}
         /\ Frames' = {k \in Frames : k <= l}
         /\ Base' = Base /\ TryTypeOK' /\ (prog \in Programs)' /\ out' = "running"
<1> USE RunningFacts
<1>1. DOMAIN ctl' = 1 .. m /\ m \in Nat
  BY DEF Cut
<1>2. /\ Len(SubSeq(eh, 1, l)) = l /\ l \in Nat /\ SubSeq(eh, 1, l) \in Seq(Frame)
      /\ \A k \in 1 .. l : k \in DOMAIN eh /\ SubSeq(eh, 1, l)[k] = eh[k]
  OBVIOUS
<1>3. /\ Len(SubSeq(roots, 1, b)) = b /\ b \in Nat /\ SubSeq(roots, 1, b) \in Seq(Root)
      /\ \A r \in 1 .. b : r \in DOMAIN roots /\ SubSeq(roots, 1, b)[r] = roots[r]
  OBVIOUS
<1>4. /\ DOMAIN eh' = 1 .. l /\ Len(eh') = l /\ l \in Nat /\ eh' \in Seq(Frame)
      /\ \A k \in 1 .. l : k \in DOMAIN eh /\ eh'[k] = eh[k]
  BY <1>2 DEF Cut
<1>5. /\ DOMAIN roots' = 1 .. b /\ Len(roots') = b /\ b \in Nat /\ roots' \in Seq(Root)
      /\ \A r \in 1 .. b : r \in DOMAIN roots /\ roots'[r] = roots[r]
  BY <1>3 DEF Cut
<1>6. \A i \in 1 .. m : i \in DOMAIN ctl
  OBVIOUS
<1>7. prog' = prog /\ out' = out /\ entries' = entries
  BY DEF Cut
<1>8. Base' = Base
  BY <1>7 DEF Base
<1>9. Calls' = {i \in Calls : i <= m}
  <2>1. ASSUME NEW i PROVE i \in Calls' <=> i \in Calls /\ i <= m
    <3>1. i \in Calls' <=> i \in 1 .. m /\ IsCall(prog, ctl[i].try)
      BY <1>1, <1>7 DEF Cut, Calls, IsCall
    <3>2. i \in Calls /\ i <= m <=> i \in 1 .. m /\ IsCall(prog, ctl[i].try)
      BY <1>1, <1>6 DEF Calls
    <3> QED BY <3>1, <3>2
  <2> QED BY <2>1
<1>10. Frames' = {k \in Frames : k <= l}
  BY <1>4, <1>8 DEF Frames
<1>11. TryTypeOK'
  BY <1>4, <1>5, <1>7 DEF TryTypeOK, Cut, TryInv
<1> QED BY <1>1, <1>4, <1>5, <1>6, <1>7, <1>8, <1>9, <1>10, <1>11

\* What remains fits: no checkpoint or local's slot is above the b roots.
Fits(m, l, b) ==
  /\ \A k \in Frames : k <= l => eh[k].cp <= b
  /\ \A i \in Calls : i <= m => ctl[i].cp <= b
  /\ \A r \in 1 .. b : roots[r].fn = 0 \/ \E i \in Calls : i <= m /\ ctl[i].n = roots[r].fn
  /\ \A i \in 1 .. m : ctl'[i].local /\ ~ InFrame(i) =>
       \E r \in 1 .. b : /\ roots[r].n = ctl[i].n /\ roots[r].at = ctl[i].at
                         /\ \A j \in Calls : j > i /\ j <= m => r <= ctl[j].cp
                         /\ \A k \in Frames : k <= l /\ eh[k].n > ctl[i].n => r <= eh[k].cp

LEMMA CutStacks ==
  ASSUME TryInv, out = "running", NEW m \in 0 .. Len(ctl), NEW l \in Len(Base) .. Len(eh),
         NEW b \in 0 .. Len(roots), Cut(m, l, b), Fits(m, l, b)
  PROVE  Checkpoints' /\ Owned' /\ Rooted'
<1> USE RunningFacts, CutFacts
<1>0. Checkpoints /\ Owned
  BY DEF TryInv
<1>1. \A i \in Calls' : i \in Calls /\ i \in DOMAIN ctl /\ i \in 1 .. m /\ i <= m
                        /\ ctl'[i].n = ctl[i].n /\ ctl'[i].cp = ctl[i].cp
  <2> TAKE i \in Calls'
  <2>1. i \in Calls /\ i <= m
    OBVIOUS
  <2>2. i \in DOMAIN ctl
    BY <2>1 DEF Calls
  <2>3. i \in 1 .. m
    BY <2>1, <2>2
  <2>4. ctl'[i].n = ctl[i].n /\ ctl'[i].cp = ctl[i].cp
    BY <2>3 DEF Cut
  <2> QED BY <2>1, <2>2, <2>3, <2>4
<1>2. \A k \in Frames' : k \in Frames /\ k \in DOMAIN eh /\ k <= l /\ eh'[k] = eh[k]
  <2> TAKE k \in Frames'
  <2>1. k \in Frames /\ k <= l
    OBVIOUS
  <2>2. k \in DOMAIN eh /\ k \in 1 .. l
    BY <2>1 DEF Frames
  <2> QED BY <2>1, <2>2
<1>3. Checkpoints'
  <2>1. \A i \in Calls' : ctl'[i].cp \in 0 .. Len(roots')
    <3> TAKE i \in Calls'
    <3>1. ctl[i].cp \in Nat /\ ctl[i].cp <= b /\ ctl'[i].cp = ctl[i].cp
      BY <1>1 DEF Fits
    <3> QED BY <3>1
  <2>2. \A k \in Frames' : eh'[k].cp \in 0 .. Len(roots')
    <3> TAKE k \in Frames'
    <3>1. eh[k].cp \in Nat /\ eh[k].cp <= b /\ eh'[k].cp = eh[k].cp
      BY <1>2 DEF Fits
    <3> QED BY <3>1
  <2>3. \A i, j \in Calls' : i < j => ctl'[i].cp <= ctl'[j].cp
    BY Zenon, <1>0, <1>1 DEF Checkpoints
  <2>4. \A k, n \in Frames' : k < n => eh'[k].cp <= eh'[n].cp
    BY <1>0, <1>2 DEF Checkpoints
  <2>5. \A i \in Calls', k \in Frames' :
          IF ctl'[i].n <= eh'[k].n THEN ctl'[i].cp <= eh'[k].cp ELSE eh'[k].cp <= ctl'[i].cp
    BY <1>0, <1>1, <1>2 DEF Checkpoints
  <2> QED BY <2>1, <2>2, <2>3, <2>4, <2>5 DEF Checkpoints
<1>4. Owned'
  <2>1. ASSUME NEW r \in DOMAIN roots'
        PROVE  /\ roots'[r].fn = 0 \/ \E i \in Calls' : ctl'[i].n = roots'[r].fn
               /\ \A i \in Calls' : r <= ctl'[i].cp => roots'[r].fn < ctl'[i].n
               /\ \A k \in Frames' : r <= eh'[k].cp => roots'[r].fn <= eh'[k].n
    <3>1. r \in 1 .. b /\ r \in DOMAIN roots /\ roots'[r] = roots[r]
      OBVIOUS
    <3>2. roots'[r].fn = 0 \/ \E i \in Calls' : ctl'[i].n = roots'[r].fn
      <4>1. CASE roots[r].fn = 0
        BY <3>1, <4>1
      <4>2. CASE \E i \in Calls : i <= m /\ ctl[i].n = roots[r].fn
        <5>1. PICK i \in Calls : i <= m /\ ctl[i].n = roots[r].fn
          BY <4>2
        <5>2. i \in Calls'
          BY <5>1
        <5> QED BY <5>1, <5>2, <3>1, <1>1
      <4> QED BY <4>1, <4>2, <3>1 DEF Fits
    <3>3. \A i \in Calls' : r <= ctl'[i].cp => roots'[r].fn < ctl'[i].n
      BY <3>1, <1>0, <1>1 DEF Owned
    <3>4. \A k \in Frames' : r <= eh'[k].cp => roots'[r].fn <= eh'[k].n
      BY <3>1, <1>0, <1>2 DEF Owned
    <3> QED BY <3>2, <3>3, <3>4
  <2> QED BY <2>1 DEF Owned
<1>6. DOMAIN roots' = 1 .. b /\ \A r \in 1 .. b : roots'[r] = roots[r]
  OBVIOUS
<1>5. Rooted'
  <2>1. ASSUME NEW i \in DOMAIN ctl', ctl'[i].local, ~ (prog'.async /\ \A j \in Calls' : j > i)
        PROVE  \E r \in DOMAIN roots' :
                 /\ roots'[r].n = ctl'[i].n /\ roots'[r].at = ctl'[i].at
                 /\ \A j \in Calls' : j > i => r <= ctl'[j].cp
                 /\ \A k \in Frames' : eh'[k].n > ctl'[i].n => r <= eh'[k].cp
    <3>1. i \in 1 .. m /\ i \in DOMAIN ctl /\ prog' = prog
      BY DEF Cut
    <3>2. ~ InFrame(i)
      BY <2>1, <3>1, <1>1 DEF InFrame
    <3>3. PICK r \in 1 .. b : /\ roots[r].n = ctl[i].n /\ roots[r].at = ctl[i].at
                              /\ \A j \in Calls : j > i /\ j <= m => r <= ctl[j].cp
                              /\ \A k \in Frames : k <= l /\ eh[k].n > ctl[i].n => r <= eh[k].cp
      BY Zenon, <2>1, <3>1, <3>2 DEF Fits
    <3>4. ctl'[i].n = ctl[i].n /\ ctl'[i].at = ctl[i].at
      BY <2>1, <3>1 DEF Cut
    <3>5. r \in DOMAIN roots' /\ roots'[r] = roots[r]
      BY <1>6
    <3>6. \A j \in Calls' : j > i => r <= ctl'[j].cp
      BY Zenon, <3>3, <1>1
    <3>7. \A k \in Frames' : eh'[k].n > ctl'[i].n => r <= eh'[k].cp
      BY <3>3, <3>4, <1>2
    <3>8. roots'[r].n = ctl'[i].n /\ roots'[r].at = ctl'[i].at
      BY <3>3, <3>4, <3>5
    <3>9. r \in DOMAIN roots'
      BY <3>5
    <3> WITNESS r \in DOMAIN roots'
    <3> QED BY <3>6, <3>7, <3>8
  <2> QED BY Zenon, <2>1 DEF Rooted, InFrame
<1> QED BY <1>3, <1>4, <1>5

HeldPlaces == {"try", "leave", "thunk"}

\* The innermost of m activations goes on in another block; its frame stays
\* if it is held there.
Moves(m, place, l, b) ==
  /\ ctl' = MoveTo(SubSeq(ctl, 1, m), place) /\ eh' = SubSeq(eh, 1, l) /\ roots' = SubSeq(roots, 1, b)
  /\ UNCHANGED <<prog, out, entries>>
  /\ place \in {"catch", "leaveCatch"} => HasCatch(prog, ctl[m].try)
  /\ place \in {"leave", "leaveCatch", "thunk"} => HasFinally(prog, ctl[m].try)
  /\ \A k \in Frames : k <= l => eh[k].n <= ctl[m].n
  /\ \A k \in Frames : eh[k].n < ctl[m].n => k <= l
  /\ place \in HeldPlaces => m \in Held /\ \A k \in Frames : eh[k].n = ctl[m].n => k <= l
  /\ place \notin HeldPlaces => \A k \in Frames : k <= l => eh[k].n < ctl[m].n
  /\ \/ m = Len(ctl) /\ b = Len(roots)
     \/ \E k \in Frames : b = eh[k].cp /\ eh[k].n = ctl[m].n

LEMMA MovedInv ==
  ASSUME TryInv, out = "running", NEW m \in DOMAIN ctl, NEW place \in Place,
         NEW l \in Len(Base) .. Len(eh), NEW b \in 0 .. Len(roots), Moves(m, place, l, b)
  PROVE  TryInv'
<1> USE RunningFacts
<1>0. Nested /\ Framed /\ Checkpoints /\ Owned /\ Rooted
  BY DEF TryInv
<1>1. /\ ctl' \in Seq(Activation) /\ Len(ctl') = m /\ DOMAIN ctl' = 1 .. m /\ m \in Nat \ {0}
      /\ \A i \in 1 .. m - 1 : ctl'[i] = ctl[i]
      /\ ctl'[m].try = ctl[m].try /\ ctl'[m].n = ctl[m].n /\ ctl'[m].cp = ctl[m].cp
      /\ ctl'[m].at = place /\ ctl'[m].local = FALSE
  <2> DEFINE c == SubSeq(ctl, 1, m)
  <2>1. c \in Seq(Activation) /\ Len(c) = m /\ c # <<>> /\ \A i \in 1 .. m : c[i] = ctl[i]
    OBVIOUS
  <2>2. ctl' = MoveTo(c, place)
    BY Zenon DEF Moves
  <2> HIDE DEF c
  <2>3. /\ MoveTo(c, place) \in Seq(Activation) /\ Len(MoveTo(c, place)) = Len(c) /\ Len(c) \in Nat \ {0}
        /\ \A i \in 1 .. Len(c) - 1 : MoveTo(c, place)[i] = c[i]
        /\ MoveTo(c, place)[Len(c)].try = c[Len(c)].try /\ MoveTo(c, place)[Len(c)].n = c[Len(c)].n
        /\ MoveTo(c, place)[Len(c)].cp = c[Len(c)].cp
        /\ MoveTo(c, place)[Len(c)].at = place /\ MoveTo(c, place)[Len(c)].local = FALSE
    BY Zenon, <2>1, MoveFacts
  <2>4. m \in 1 .. m /\ \A i \in 1 .. m - 1 : i \in 1 .. m
    OBVIOUS
  <2>5. DOMAIN ctl' = 1 .. m /\ m \in Nat \ {0}
    BY <2>1, <2>2, <2>3
  <2> QED BY <2>1, <2>2, <2>3, <2>4, <2>5
<1>2. \A i \in 1 .. m : /\ i \in DOMAIN ctl
                        /\ ctl'[i].try = ctl[i].try /\ ctl'[i].n = ctl[i].n /\ ctl'[i].cp = ctl[i].cp
                        /\ (i # m => i \in 1 .. m - 1 /\ ctl'[i] = ctl[i])
                        /\ ctl'[i].local => ctl[i].local /\ ctl'[i].at = ctl[i].at /\ i # m
  <2> TAKE i \in 1 .. m
  <2>1. i = m \/ i \in 1 .. m - 1
    OBVIOUS
  <2>2. i \in DOMAIN ctl
    OBVIOUS
  <2>3. i \in 1 .. m - 1 => i # m /\ i < m
    OBVIOUS
  <2> QED BY <2>1, <2>2, <2>3, <1>1
<1>3. Cut(m, l, b)
  BY Zenon, <1>1, <1>2 DEF Cut, Moves
<1>4. /\ Calls' = {i \in Calls : i <= m} /\ Frames' = {k \in Frames : k <= l}
      /\ Base' = Base /\ TryTypeOK' /\ (prog \in Programs)' /\ out' = "running"
      /\ DOMAIN eh' = 1 .. l /\ Len(eh') = l /\ \A k \in 1 .. l : k \in DOMAIN eh /\ eh'[k] = eh[k]
  BY <1>3, CutFacts
<1>5. prog' = prog /\ entries' = entries
  BY DEF Moves
<1>6. Nested'
  <2>1. ASSUME NEW i \in DOMAIN ctl'
        PROVE  /\ ctl'[i].n \in 1 .. entries
               /\ ctl'[i].at \in {"catch", "leaveCatch"} => HasCatch(prog, ctl'[i].try)
               /\ ctl'[i].at \in {"leave", "leaveCatch", "thunk"} => HasFinally(prog, ctl'[i].try)
               /\ i = 1 => ctl'[i].try \in Children(prog, 0, "body")
               /\ i > 1 => ctl'[i].try \in Children(prog, ctl'[i - 1].try, SourceRegion(ctl'[i - 1].at))
    <3>1. i \in 1 .. m /\ i \in DOMAIN ctl
      BY <1>1, <1>2
    <3>2. /\ ctl[i].n \in 1 .. entries
          /\ i = 1 => ctl[i].try \in Children(prog, 0, "body")
          /\ i > 1 => ctl[i].try \in Children(prog, ctl[i - 1].try, SourceRegion(ctl[i - 1].at))
      BY <3>1, <1>0 DEF Nested
    <3>3. i > 1 => ctl'[i - 1] = ctl[i - 1]
      <4>1. i > 1 => i - 1 \in 1 .. m - 1
        BY <3>1
      <4> QED BY <4>1, <1>1
    <3>4. /\ ctl'[i].at \in {"catch", "leaveCatch"} => HasCatch(prog, ctl'[i].try)
          /\ ctl'[i].at \in {"leave", "leaveCatch", "thunk"} => HasFinally(prog, ctl'[i].try)
      <4>1. CASE i = m
        BY Zenon, <4>1, <1>1 DEF Moves
      <4>2. CASE i # m
        BY <4>2, <3>1, <1>0, <1>2 DEF Nested
      <4> QED BY <4>1, <4>2
    <3> QED BY <3>1, <3>2, <3>3, <3>4, <1>2
  <2>2. \A i, j \in DOMAIN ctl' : i < j => ctl'[i].n < ctl'[j].n
    BY <1>0, <1>1, <1>2 DEF Nested
  <2> QED BY <2>1, <2>2, <1>5 DEF Nested
<1>7. \A i : i \in Held' <=> (i \in Held /\ i < m) \/ (place \in HeldPlaces /\ i = m)
  <2>1. ASSUME NEW i PROVE i \in Held' <=> (i \in Held /\ i < m) \/ (place \in HeldPlaces /\ i = m)
    <3>1. i \in Held' <=> i \in 1 .. m /\ ctl'[i].at \in {"try", "leave", "thunk"}
      BY <1>1 DEF Held
    <3>2. CASE i = m
      BY <3>1, <3>2, <1>1 DEF HeldPlaces
    <3>3. CASE i # m
      <4>1. i \in 1 .. m <=> i \in DOMAIN ctl /\ i < m
        BY <3>3, <1>1
      <4> QED BY <3>1, <3>3, <4>1, <1>2 DEF Held
    <3> QED BY <3>2, <3>3
  <2> QED BY <2>1
<1>8. Framed'
  <2>1. Len(Base') <= Len(eh') /\ \A k \in DOMAIN Base' : eh'[k] = Base'[k]
    <3>1. Len(Base) <= l /\ \A k \in DOMAIN Base : k \in 1 .. l /\ eh[k] = Base[k]
      BY <1>0 DEF Framed
    <3> QED BY <3>1, <1>4
  <2>2. ASSUME NEW k \in Frames'
        PROVE  \E i \in Held' : eh'[k].try = ctl'[i].try /\ eh'[k].n = ctl'[i].n
    <3>1. k \in Frames /\ k <= l /\ eh'[k] = eh[k]
      BY <1>4 DEF Frames
    <3>2. PICK i \in Held : eh[k].try = ctl[i].try /\ eh[k].n = ctl[i].n
      BY <3>1, <1>0 DEF Framed
    <3>3. i \in DOMAIN ctl
      BY DEF Held
    <3>4. i <= m
      <4> SUFFICES ASSUME m < i PROVE FALSE
        BY <3>3
      <4>1. ctl[m].n < ctl[i].n
        BY <3>3, <1>0 DEF Nested
      <4>2. eh[k].n <= ctl[m].n /\ k \in DOMAIN eh
        BY Zenon, <3>1 DEF Moves, Frames
      <4> QED BY <4>1, <4>2, <3>2, <3>3
    <3>5. i \in Held'
      <4>1. CASE i = m
        <5>1. ~ (eh[k].n < ctl[m].n)
          BY <4>1, <3>2, <3>3
        <5>2. place \in HeldPlaces
          BY Zenon, <5>1, <3>1 DEF Moves
        <5> QED BY <4>1, <5>2, <1>7
      <4>2. CASE i # m
        BY <4>2, <3>3, <3>4, <1>7
      <4> QED BY <4>1, <4>2
    <3>6. i \in 1 .. m
      BY <3>3, <3>4
    <3> QED BY <3>1, <3>2, <3>5, <3>6, <1>2
  <2>3. ASSUME NEW i \in Held' PROVE \E k \in Frames' : eh'[k].n = ctl'[i].n
    <3>1. i \in Held /\ i <= m /\ i \in 1 .. m
      <4>1. i \in 1 .. m
        BY <1>1 DEF Held
      <4>2. i \in Held
        <5>1. place \in HeldPlaces => m \in Held
          BY Zenon DEF Moves
        <5>2. (i \in Held /\ i < m) \/ (place \in HeldPlaces /\ i = m)
          BY <1>7
        <5> QED BY <5>1, <5>2
      <4> QED BY <4>1, <4>2
    <3>2. PICK k \in Frames : eh[k].n = ctl[i].n
      BY <3>1, <1>0 DEF Framed
    <3>3. k <= l
      <4>1. CASE i = m
        <5>1. place \in HeldPlaces
          BY <4>1, <1>7
        <5> QED BY Zenon, <4>1, <5>1, <3>2 DEF Moves
      <4>2. CASE i # m
        <5>1. i \in DOMAIN ctl /\ i < m
          BY <4>2, <3>1, <1>2
        <5>2. ctl[i].n < ctl[m].n
          BY <5>1, <1>0 DEF Nested
        <5> QED BY Zenon, <5>1, <5>2, <3>2 DEF Moves
      <4> QED BY <4>1, <4>2
    <3>4. k \in Frames' /\ eh'[k] = eh[k]
      BY <3>2, <3>3, <1>4 DEF Frames
    <3> QED BY <3>1, <3>2, <3>4, <1>2
  <2>4. \A k, n \in Frames' : k < n => eh'[k].n < eh'[n].n
    <3>1. \A k \in Frames' : k \in Frames /\ eh'[k] = eh[k]
      BY <1>4 DEF Frames
    <3> QED BY <3>1, <1>0 DEF Framed
  <2> QED BY <2>1, <2>2, <2>3, <2>4 DEF Framed
<1>9. Checkpoints' /\ Owned' /\ Rooted'
  <2>1. CASE m = Len(ctl) /\ b = Len(roots)
    <3>1. \A k \in Frames : k <= l => eh[k].cp <= b
      BY <2>1, <1>0 DEF Checkpoints
    <3>2. \A i \in Calls : i <= m => ctl[i].cp <= b
      BY <2>1, <1>0 DEF Checkpoints
    <3>3. \A r \in 1 .. b : roots[r].fn = 0 \/ \E i \in Calls : i <= m /\ ctl[i].n = roots[r].fn
      BY <2>1, <1>0 DEF Owned, Calls
    <3>4. ASSUME NEW i \in 1 .. m, ctl'[i].local /\ ~ InFrame(i)
          PROVE  \E r \in 1 .. b : /\ roots[r].n = ctl[i].n /\ roots[r].at = ctl[i].at
                                   /\ \A j \in Calls : j > i /\ j <= m => r <= ctl[j].cp
                                   /\ \A k \in Frames : k <= l /\ eh[k].n > ctl[i].n => r <= eh[k].cp
      BY Zenon, <2>1, <3>4, <1>0, <1>2 DEF Rooted
    <3>5. Fits(m, l, b)
      BY Zenon, <3>1, <3>2, <3>3, <3>4 DEF Fits
    <3>6. m \in 0 .. Len(ctl)
      OBVIOUS
    <3> QED BY <3>5, <3>6, <1>3, CutStacks
  <2>2. CASE \E k \in Frames : b = eh[k].cp /\ eh[k].n = ctl[m].n
    <3>1. PICK f \in Frames : b = eh[f].cp /\ eh[f].n = ctl[m].n
      BY <2>2
    <3>2. ASSUME NEW k \in Frames, k <= l PROVE eh[k].cp <= b
      <4>1. k \in DOMAIN eh /\ f \in DOMAIN eh
        BY <3>1 DEF Frames
      <4>2. eh[k].n <= eh[f].n
        BY <3>1, <3>2, <4>1 DEF Moves
      <4>3. ~ (f < k)
        BY <4>1, <4>2, <1>0 DEF Framed
      <4>4. k = f \/ k < f
        BY <4>1, <4>3
      <4> QED BY <4>1, <4>4, <3>1, <1>0 DEF Checkpoints
    <3>3. ASSUME NEW i \in Calls, i <= m PROVE ctl[i].cp <= b
      <4>1. i \in DOMAIN ctl /\ f \in DOMAIN eh
        BY <3>1 DEF Calls, Frames
      <4>2. i = m \/ i < m
        BY <3>3, <4>1
      <4>3. ctl[i].n <= eh[f].n
        BY <4>1, <4>2, <3>1, <1>0 DEF Nested
      <4> QED BY <4>1, <4>3, <3>1, <1>0 DEF Checkpoints
    <3>4. ASSUME NEW r \in 1 .. b
          PROVE  roots[r].fn = 0 \/ \E i \in Calls : i <= m /\ ctl[i].n = roots[r].fn
      <4>1. r \in DOMAIN roots /\ r <= eh[f].cp
        BY <3>1
      <4>2. roots[r].fn <= ctl[m].n
        BY <4>1, <3>1, <1>0 DEF Owned
      <4>3. CASE roots[r].fn = 0
        BY <4>3
      <4>4. CASE roots[r].fn # 0
        <5>1. PICK i \in Calls : ctl[i].n = roots[r].fn
          BY <4>1, <4>4, <1>0 DEF Owned
        <5>2. i \in DOMAIN ctl
          BY DEF Calls
        <5>3. ~ (m < i)
          <6>1. m < i => ctl[m].n < ctl[i].n
            BY <5>2, <1>0 DEF Nested
          <6> QED BY <6>1, <5>1, <5>2, <4>1, <4>2
        <5>4. i <= m
          BY <5>2, <5>3
        <5> QED BY <5>1, <5>4
      <4> QED BY <4>3, <4>4
    <3>5. ASSUME NEW i \in 1 .. m, ctl'[i].local /\ ~ InFrame(i)
          PROVE  \E r \in 1 .. b : /\ roots[r].n = ctl[i].n /\ roots[r].at = ctl[i].at
                                   /\ \A j \in Calls : j > i /\ j <= m => r <= ctl[j].cp
                                   /\ \A k \in Frames : k <= l /\ eh[k].n > ctl[i].n => r <= eh[k].cp
      <4>1. i \in DOMAIN ctl /\ ctl[i].local /\ i < m
        BY <3>5, <1>2
      <4>2. PICK r \in DOMAIN roots :
              /\ roots[r].n = ctl[i].n /\ roots[r].at = ctl[i].at
              /\ \A j \in Calls : j > i => r <= ctl[j].cp
              /\ \A k \in Frames : eh[k].n > ctl[i].n => r <= eh[k].cp
        BY Zenon, <3>5, <4>1, <1>0 DEF Rooted
      <4>3. ctl[i].n < ctl[m].n
        BY <4>1, <1>0 DEF Nested
      <4>4. eh[f].n > ctl[i].n
        BY <4>1, <4>3, <3>1
      <4>5. r <= b
        BY <4>2, <4>4, <3>1
      <4>6. r \in 1 .. b
        BY <4>5
      <4> QED BY Zenon, <4>2, <4>6
    <3>6. Fits(m, l, b)
      BY <3>2, <3>3, <3>4, <3>5 DEF Fits
    <3>7. m \in 0 .. Len(ctl)
      OBVIOUS
    <3> QED BY <3>6, <3>7, <1>3, CutStacks
  <2> QED BY Zenon, <2>1, <2>2 DEF Moves
<1> QED BY <1>4, <1>6, <1>8, <1>9 DEF TryInv

\* The innermost activation is over.
Drops ==
  LET m == Len(ctl) IN
  /\ ctl' = Front(ctl)
  /\ eh' = (IF m \in Held THEN Front(eh) ELSE eh)
  /\ roots' = (IF m \in Calls THEN SubSeq(roots, 1, ctl[m].cp) ELSE roots)
  /\ UNCHANGED <<prog, out, entries>>

LEMMA DropsInv ==
  ASSUME TryInv, out = "running", ctl # <<>>, Drops
  PROVE  TryInv'
<1> USE RunningFacts
<1>0. Nested /\ Framed /\ Checkpoints /\ Owned /\ Rooted
  BY DEF TryInv
<1> DEFINE m == Len(ctl)
           l == IF m \in Held THEN Len(eh) - 1 ELSE Len(eh)
           b == IF m \in Calls THEN ctl[m].cp ELSE Len(roots)
<1>1. m \in DOMAIN ctl /\ m - 1 \in 0 .. Len(ctl) /\ m \in Nat \ {0} /\ ctl[m].n \in Nat
  <2>1. m \in DOMAIN ctl /\ m - 1 \in 0 .. Len(ctl) /\ m \in Nat \ {0}
    OBVIOUS
  <2> QED BY <2>1
<1>2. m \in Held => /\ Len(eh) \in Frames /\ Len(eh) > Len(Base) /\ eh[Len(eh)].n = ctl[m].n
                    /\ \A k \in Frames : k < Len(eh) => eh[k].n < ctl[m].n
  <2> HAVE m \in Held
  <2>1. \A j \in Held : j <= m
    BY DEF Held
  <2> QED BY <2>1, TopFrame
<1>3. \A k \in Frames : k <= l <=> eh[k].n < ctl[m].n
  <2> TAKE k \in Frames
  <2>1. k \in DOMAIN eh
    BY DEF Frames
  <2>2. CASE m \in Held
    <3>1. l = Len(eh) - 1 /\ (k <= l <=> k < Len(eh)) /\ (k < Len(eh) \/ k = Len(eh))
      BY <2>1, <2>2
    <3>2. k < Len(eh) => eh[k].n < ctl[m].n
      BY <2>2, <1>2
    <3>3. k = Len(eh) => ~ (eh[k].n < ctl[m].n) /\ ~ (k < Len(eh))
      BY <2>2, <1>1, <1>2
    <3> HIDE DEF l, m
    <3> QED BY <3>1, <3>2, <3>3, Zenon
  <2>3. CASE m \notin Held
    <3>1. PICK i \in Held : eh[k].n = ctl[i].n
      BY <1>0 DEF Framed
    <3>2. i \in DOMAIN ctl /\ i < m
      BY <3>1, <2>3, <1>1 DEF Held
    <3>3. ctl[i].n < ctl[m].n
      BY <3>2, <1>0, <1>1 DEF Nested
    <3> QED BY <3>1, <3>3, <2>1, <2>3
  <2> QED BY <2>2, <2>3
<1>4. l \in Len(Base) .. Len(eh)
  <2>1. Len(Base) \in Nat /\ Len(Base) <= Len(eh)
    BY <1>0 DEF Framed
  <2> QED BY <2>1, <1>2
<1>5. b \in 0 .. Len(roots)
  BY <1>0 DEF Checkpoints
<1>6. Cut(m - 1, l, b)
  <2>1. ctl' = SubSeq(ctl, 1, m - 1) /\ prog' = prog /\ out' = out /\ entries' = entries
    BY DEF Drops, Front
  <2>2. /\ SubSeq(ctl, 1, m - 1) \in Seq(Activation) /\ Len(SubSeq(ctl, 1, m - 1)) = m - 1
        /\ \A i \in 1 .. m - 1 : SubSeq(ctl, 1, m - 1)[i] = ctl[i]
    BY <1>1
  <2>3. eh' = SubSeq(eh, 1, l)
    <3>1. SubSeq(eh, 1, Len(eh)) = eh
      OBVIOUS
    <3>2. CASE m \in Held
      BY <3>2 DEF Drops, Front
    <3>3. CASE m \notin Held
      BY <3>1, <3>3 DEF Drops
    <3> QED BY <3>2, <3>3
  <2>4. roots' = SubSeq(roots, 1, b)
    <3>1. SubSeq(roots, 1, Len(roots)) = roots
      OBVIOUS
    <3>2. CASE m \in Calls
      BY <3>2 DEF Drops
    <3>3. CASE m \notin Calls
      BY <3>1, <3>3 DEF Drops
    <3> QED BY <3>2, <3>3
  <2> HIDE DEF l, b, m
  <2> QED BY <2>1, <2>2, <2>3, <2>4 DEF Cut
<1>7. Fits(m - 1, l, b)
  <2>1. ASSUME NEW k \in Frames, k <= l PROVE eh[k].cp <= b
    <3>1. k \in DOMAIN eh
      BY DEF Frames
    <3>2. CASE m \in Calls
      <4>1. eh[k].n < ctl[m].n
        BY <2>1, <1>3
      <4>2. ~ (ctl[m].n <= eh[k].n)
        <5>1. eh[k].n \in Nat
          BY <3>1
        <5> QED BY <4>1, <5>1, <1>1
      <4>3. eh[k].cp <= ctl[m].cp
        BY <4>2, <3>2, <1>0 DEF Checkpoints
      <4> QED BY <4>3, <3>2
    <3>3. CASE m \notin Calls
      BY <3>1, <3>3, <1>0 DEF Checkpoints
    <3> QED BY <3>2, <3>3
  <2>2. ASSUME NEW i \in Calls, i <= m - 1 PROVE ctl[i].cp <= b
    <3>1. i \in DOMAIN ctl /\ i < m
      BY <2>2, <1>1 DEF Calls
    <3>2. CASE m \in Calls
      BY <3>1, <3>2, <1>0 DEF Checkpoints
    <3>3. CASE m \notin Calls
      BY <3>1, <3>3, <1>0 DEF Checkpoints
    <3> QED BY <3>2, <3>3
  <2>3. ASSUME NEW r \in 1 .. b
        PROVE  roots[r].fn = 0 \/ \E i \in Calls : i <= m - 1 /\ ctl[i].n = roots[r].fn
    <3>1. r \in DOMAIN roots
      BY <1>5
    <3>2. CASE roots[r].fn = 0
      BY <3>2
    <3>3. CASE roots[r].fn # 0
      <4>1. PICK i \in Calls : ctl[i].n = roots[r].fn
        BY <3>1, <3>3, <1>0 DEF Owned
      <4>2. i # m
        <5> SUFFICES ASSUME i = m PROVE FALSE
          OBVIOUS
        <5>1. r <= ctl[m].cp
          BY <1>5
        <5>2. roots[r].fn < ctl[m].n
          BY <5>1, <3>1, <1>0 DEF Owned
        <5> QED BY <5>2, <4>1, <3>1
      <4>3. i <= m - 1
        BY <4>2, <1>1 DEF Calls
      <4> QED BY <4>1, <4>3
    <3> QED BY <3>2, <3>3
  <2>4. ASSUME NEW i \in 1 .. m - 1, ctl'[i].local, ~ InFrame(i)
        PROVE  \E r \in 1 .. b : /\ roots[r].n = ctl[i].n /\ roots[r].at = ctl[i].at
                                 /\ \A j \in Calls : j > i /\ j <= m - 1 => r <= ctl[j].cp
                                 /\ \A k \in Frames : k <= l /\ eh[k].n > ctl[i].n => r <= eh[k].cp
    <3>1. ctl[i].local /\ i \in DOMAIN ctl /\ m > i
      <4>1. i \in DOMAIN ctl /\ m > i
        BY <1>1
      <4> HIDE DEF l, b, m
      <4> QED BY <4>1, <2>4, <1>6 DEF Cut
    <3>2. PICK r \in DOMAIN roots :
            /\ roots[r].n = ctl[i].n /\ roots[r].at = ctl[i].at
            /\ \A j \in Calls : j > i => r <= ctl[j].cp
            /\ \A k \in Frames : eh[k].n > ctl[i].n => r <= eh[k].cp
      BY Zenon, <2>4, <3>1, <1>0 DEF Rooted
    <3>3. r \in 1 .. b
      <4>1. CASE m \in Calls
        BY <3>1, <3>2, <4>1
      <4>2. CASE m \notin Calls
        BY <4>2
      <4> QED BY <4>1, <4>2
    <3> QED BY Zenon, <3>2, <3>3
  <2> HIDE DEF l, b, m
  <2> QED BY <2>1, <2>2, <2>3, <2>4 DEF Fits
<1> HIDE DEF l, b
<1>8. /\ DOMAIN ctl' = 1 .. m - 1
      /\ Calls' = {i \in Calls : i <= m - 1} /\ Frames' = {k \in Frames : k <= l}
      /\ Base' = Base /\ TryTypeOK' /\ (prog \in Programs)' /\ out' = "running"
      /\ DOMAIN eh' = 1 .. l /\ Len(eh') = l /\ \A k \in 1 .. l : k \in DOMAIN eh /\ eh'[k] = eh[k]
  BY Zenon, <1>1, <1>4, <1>5, <1>6, CutFacts
<1>9. Checkpoints' /\ Owned' /\ Rooted'
  BY Zenon, <1>1, <1>4, <1>5, <1>6, <1>7, CutStacks
<1>10. prog' = prog /\ entries' = entries /\ \A i \in 1 .. m - 1 : i \in DOMAIN ctl /\ i < m /\ ctl'[i] = ctl[i]
  <2>1. \A i \in 1 .. m - 1 : SubSeq(ctl, 1, m - 1)[i] = ctl[i] /\ i \in DOMAIN ctl /\ i < m
    BY <1>1
  <2> QED BY <2>1 DEF Drops, Front
<1>11. Nested'
  <2>1. ASSUME NEW i \in DOMAIN ctl'
        PROVE  /\ ctl'[i].n \in 1 .. entries
               /\ ctl'[i].at \in {"catch", "leaveCatch"} => HasCatch(prog, ctl'[i].try)
               /\ ctl'[i].at \in {"leave", "leaveCatch", "thunk"} => HasFinally(prog, ctl'[i].try)
               /\ i = 1 => ctl'[i].try \in Children(prog, 0, "body")
               /\ i > 1 => ctl'[i].try \in Children(prog, ctl'[i - 1].try, SourceRegion(ctl'[i - 1].at))
    <3>1. i \in DOMAIN ctl /\ ctl'[i] = ctl[i] /\ i \in 1 .. m - 1
      BY <1>8, <1>10
    <3>2. i > 1 => ctl'[i - 1] = ctl[i - 1]
      <4>1. i > 1 => i - 1 \in 1 .. m - 1
        BY <3>1
      <4> QED BY <4>1, <1>10
    <3> QED BY <3>1, <3>2, <1>0 DEF Nested
  <2>2. \A i, j \in DOMAIN ctl' : i < j => ctl'[i].n < ctl'[j].n
    BY Zenon, <1>0, <1>8, <1>10 DEF Nested
  <2> QED BY <2>1, <2>2, <1>10 DEF Nested
<1>12. \A i : i \in Held' <=> i \in Held /\ i < m
  <2>1. \A i : i \in DOMAIN ctl' <=> i \in DOMAIN ctl /\ i < m
    BY <1>1, <1>8
  <2> QED BY <2>1, <1>8, <1>10 DEF Held
<1>13. Framed'
  <2>1. Len(Base') <= Len(eh') /\ \A k \in DOMAIN Base' : eh'[k] = Base'[k]
    <3>1. Len(Base) <= l /\ \A k \in DOMAIN Base : k \in 1 .. l /\ eh[k] = Base[k]
      BY <1>0, <1>4 DEF Framed
    <3> QED BY <3>1, <1>8
  <2>2. ASSUME NEW k \in Frames'
        PROVE  \E i \in Held' : eh'[k].try = ctl'[i].try /\ eh'[k].n = ctl'[i].n
    <3>1. k \in Frames /\ k <= l /\ eh'[k] = eh[k]
      BY <1>8 DEF Frames
    <3>2. PICK i \in Held : eh[k].try = ctl[i].try /\ eh[k].n = ctl[i].n
      BY <3>1, <1>0 DEF Framed
    <3>3. i \in DOMAIN ctl /\ i <= m
      BY DEF Held
    <3>4. i # m
      <4>1. ctl[i].n < ctl[m].n
        BY <3>1, <3>2, <1>3
      <4> QED BY <4>1, <1>1
    <3>5. i < m /\ i \in 1 .. m - 1
      BY <3>3, <3>4, <1>1
    <3> QED BY Zenon, <3>1, <3>2, <3>5, <1>10, <1>12
  <2>3. ASSUME NEW i \in Held' PROVE \E k \in Frames' : eh'[k].n = ctl'[i].n
    <3>1. i \in Held /\ i < m /\ i \in DOMAIN ctl /\ i \in 1 .. m - 1
      BY <1>1, <1>12 DEF Held
    <3>2. PICK k \in Frames : eh[k].n = ctl[i].n
      BY <3>1, <1>0 DEF Framed
    <3>3. ctl[i].n < ctl[m].n
      BY <3>1, <1>0, <1>1 DEF Nested
    <3>4. k <= l
      BY <3>2, <3>3, <1>3
    <3>5. k \in Frames' /\ eh'[k] = eh[k]
      BY <3>2, <3>4, <1>8 DEF Frames
    <3> QED BY <3>1, <3>2, <3>5, <1>10
  <2>4. \A k, n \in Frames' : k < n => eh'[k].n < eh'[n].n
    <3>1. \A k \in Frames' : k \in Frames /\ eh'[k] = eh[k]
      BY <1>8 DEF Frames
    <3> QED BY <3>1, <1>0 DEF Framed
  <2> QED BY <2>1, <2>2, <2>3, <2>4 DEF Framed
<1> QED BY <1>8, <1>9, <1>11, <1>13 DEF TryInv

\* The roots' owners are entries so far.
LEMMA OwnerBelow ==
  ASSUME TryInv, out = "running", NEW r \in DOMAIN roots
  PROVE  roots[r].fn <= entries
<1> USE RunningFacts
<1>1. CASE roots[r].fn = 0
  BY <1>1
<1>2. CASE roots[r].fn # 0
  <2>1. PICK i \in Calls : ctl[i].n = roots[r].fn
    BY <1>2 DEF TryInv, Owned
  <2>2. i \in DOMAIN ctl
    BY DEF Calls
  <2>3. ctl[i].n \in 1 .. entries
    BY <2>2 DEF TryInv, Nested
  <2> QED BY <2>1, <2>3
<1> QED BY <1>1, <1>2

\* Function names a call among the activations, or 0.
LEMMA FunctionFacts ==
  ASSUME TryInv, out = "running"
  PROVE  /\ Function \in Nat /\ Function <= entries
         /\ Function = 0 \/ \E i \in Calls : ctl[i].n = Function
         /\ Function = 0 <=> Calls = {}
<1> USE RunningFacts
<1> DEFINE j == FunctionStart(prog, ctl)
<1>1. /\ j \in 0 .. Len(ctl) /\ (j > 0 => IsCall(prog, ctl[j].try))
      /\ \A k \in DOMAIN ctl : IsCall(prog, ctl[k].try) => k <= j
  BY StartFacts
<1>2. Function = IF j = 0 THEN 0 ELSE ctl[j].n
  BY DEF Function
<1> HIDE DEF j
<1>3. CASE j = 0
  <2>1. Calls = {}
    BY <1>1, <1>3 DEF Calls
  <2> QED BY <1>2, <1>3, <2>1
<1>4. CASE j # 0
  <2>1. j \in DOMAIN ctl /\ j \in Calls
    BY <1>1, <1>4 DEF Calls
  <2>2. ctl[j].n \in 1 .. entries
    BY <2>1 DEF TryInv, Nested
  <2>3. Function = ctl[j].n
    BY <1>2, <1>4
  <2> QED BY <2>1, <2>2, <2>3
<1> QED BY <1>3, <1>4

LEMMA EnterInv ==
  ASSUME TryInv, NEW c, Enter(c)
  PROVE  TryInv'
<1>1. out = "running" /\ entries < MaxEntries /\ c \in Children(prog, Here, At) /\ prog' = prog /\ out' = out
  BY DEF Enter
<1> USE RunningFacts, <1>1
<1>0. Nested /\ Framed /\ Checkpoints /\ Owned /\ Rooted
  BY DEF TryInv
<1> DEFINE n == entries + 1
           m == Len(ctl)
           q == Len(eh)
           fn == IF IsCall(prog, c) THEN n ELSE Function
           s == [fn |-> fn, n |-> n, at |-> "catch"]
           rooted == IF HasCatch(prog, c) THEN Append(roots, s) ELSE roots
           a == [try |-> c, at |-> "try", n |-> n, cp |-> Len(roots), local |-> FALSE]
           f == [try |-> c, n |-> n, cp |-> Len(rooted)]
<1>2. entries' = n /\ roots' = rooted /\ ctl' = Append(ctl, a) /\ eh' = Append(eh, f)
  BY DEF Enter
<1>3. c \in DOMAIN prog.stmts /\ c \in Nat
  <2>1. c \in DOMAIN prog.stmts
    BY DEF Children
  <2> QED BY <2>1, StatementFacts
<1>4. s \in Root /\ fn \in Nat /\ fn <= n
  <2>1. fn \in Nat /\ fn <= n
    BY FunctionFacts
  <2> HIDE DEF fn
  <2> QED BY <2>1 DEF Root, Place, Region
<1>5. /\ rooted \in Seq(Root) /\ Len(rooted) \in Nat /\ Len(roots) <= Len(rooted) /\ Len(rooted) <= Len(roots) + 1
      /\ DOMAIN rooted = 1 .. Len(rooted)
      /\ \A r \in DOMAIN roots : r \in DOMAIN rooted /\ rooted[r] = roots[r]
      /\ \A r \in DOMAIN rooted : r \in DOMAIN roots \/ (r = Len(roots) + 1 /\ rooted[r] = s)
  <2> HIDE DEF s
  <2>1. CASE HasCatch(prog, c)
    BY <2>1, <1>4
  <2>2. CASE ~ HasCatch(prog, c)
    BY <2>2
  <2> QED BY <2>1, <2>2
<1>6. s.fn = fn /\ a.try = c /\ a.at = "try" /\ a.n = n /\ a.cp = Len(roots) /\ a.local = FALSE
      /\ f.try = c /\ f.n = n /\ f.cp = Len(rooted)
  <2> HIDE DEF fn, rooted, n
  <2> QED OBVIOUS
<1>7. a \in Activation /\ f \in Frame
  <2>1. Len(rooted) \in Nat /\ n \in Nat /\ c \in Nat /\ Len(roots) \in Nat
    BY <1>3, <1>5
  <2> HIDE DEF rooted, n
  <2> QED BY <2>1 DEF Activation, Frame, Place, Region
<1> HIDE DEF rooted, s, a, f, fn
<1>8. /\ ctl' \in Seq(Activation) /\ DOMAIN ctl' = 1 .. m + 1 /\ ctl'[m + 1] = a
      /\ \A i \in DOMAIN ctl : i \in DOMAIN ctl' /\ ctl'[i] = ctl[i] /\ i < m + 1
      /\ \A i \in DOMAIN ctl' : i \in DOMAIN ctl \/ i = m + 1
      /\ m + 1 \in DOMAIN ctl' /\ m + 1 \notin DOMAIN ctl
  BY <1>2, <1>7
<1>9. /\ eh' \in Seq(Frame) /\ DOMAIN eh' = 1 .. q + 1 /\ eh'[q + 1] = f /\ Len(eh') = q + 1
      /\ \A k \in DOMAIN eh : k \in DOMAIN eh' /\ eh'[k] = eh[k] /\ k < q + 1
      /\ \A k \in DOMAIN eh' : k \in DOMAIN eh \/ k = q + 1
      /\ q + 1 \in DOMAIN eh' /\ q + 1 \notin DOMAIN eh
  BY <1>2, <1>7
<1>10. TryTypeOK' /\ (prog \in Programs)' /\ out' = "running"
  <2>1. n \in 0 .. MaxEntries
    BY EntriesAssumption
  <2> QED BY <1>2, <1>5, <1>8, <1>9, <2>1 DEF TryTypeOK
<1>11. Base' = Base
  BY DEF Base
<1>12. \A i : i \in Calls' <=> i \in Calls \/ (i = m + 1 /\ IsCall(prog, c))
  BY <1>6, <1>8 DEF Calls
<1>13. \A k : k \in Frames' <=> k \in Frames \/ k = q + 1
  <2>1. Len(Base) <= q
    BY <1>0 DEF Framed
  <2> QED BY <2>1, <1>9, <1>11 DEF Frames
<1>14. \A i : i \in Held' <=> i \in Held \/ i = m + 1
  BY <1>6, <1>8 DEF Held
<1>15. /\ \A i \in DOMAIN ctl : ctl[i].n < n
       /\ \A k \in Frames : eh[k].n < n /\ k \in DOMAIN eh
  <2>1. \A i \in DOMAIN ctl : ctl[i].n < n
    BY <1>0 DEF Nested
  <2>2. ASSUME NEW k \in Frames PROVE eh[k].n < n /\ k \in DOMAIN eh
    <3>1. PICK i \in Held : eh[k].n = ctl[i].n
      BY <1>0 DEF Framed
    <3> QED BY <3>1, <2>1 DEF Held, Frames
  <2> QED BY <2>1, <2>2
<1>16. Nested'
  <2>1. ASSUME NEW i \in DOMAIN ctl'
        PROVE  /\ ctl'[i].n \in 1 .. entries'
               /\ ctl'[i].at \in {"catch", "leaveCatch"} => HasCatch(prog', ctl'[i].try)
               /\ ctl'[i].at \in {"leave", "leaveCatch", "thunk"} => HasFinally(prog', ctl'[i].try)
               /\ i = 1 => ctl'[i].try \in Children(prog', 0, "body")
               /\ i > 1 => ctl'[i].try \in Children(prog', ctl'[i - 1].try, SourceRegion(ctl'[i - 1].at))
    <3>1. CASE i \in DOMAIN ctl
      <4>1. i > 1 => ctl'[i - 1] = ctl[i - 1]
        <5>1. i > 1 => i - 1 \in DOMAIN ctl
          BY <3>1
        <5> QED BY <5>1, <1>8
      <4>2. ctl'[i] = ctl[i] /\ ctl[i].n \in 1 .. entries /\ ctl[i].n \in 1 .. n
        BY <3>1, <1>0, <1>8 DEF Nested
      <4> QED BY <3>1, <4>1, <4>2, <1>0, <1>2 DEF Nested
    <3>2. CASE i = m + 1
      <4>1. ctl'[i] = a /\ n \in 1 .. n
        BY <3>2, <1>8
      <4>2. i = 1 => c \in Children(prog, 0, "body")
        <5>1. i = 1 => ctl = <<>>
          BY <3>2
        <5> QED BY <5>1 DEF Here, At
      <4>3. i > 1 => c \in Children(prog, ctl'[i - 1].try, SourceRegion(ctl'[i - 1].at))
        <5>1. i > 1 => ctl # <<>> /\ i - 1 = m /\ m \in DOMAIN ctl
          BY <3>2
        <5>2. i > 1 => ctl'[i - 1] = ctl[m]
          BY <5>1, <1>8
        <5>3. i > 1 => Here = ctl[m].try /\ At = SourceRegion(ctl[m].at)
          BY <5>1 DEF Here, At, Last
        <5> QED BY <5>2, <5>3
      <4> QED BY <4>1, <4>2, <4>3, <1>2, <1>6
    <3> QED BY <3>1, <3>2, <1>8
  <2>2. ASSUME NEW i \in DOMAIN ctl', NEW j \in DOMAIN ctl', i < j PROVE ctl'[i].n < ctl'[j].n
    <3>1. i \in DOMAIN ctl /\ ctl'[i] = ctl[i]
      BY <2>2, <1>8
    <3>2. CASE j \in DOMAIN ctl
      BY <2>2, <3>1, <3>2, <1>0, <1>8 DEF Nested
    <3>3. CASE j = m + 1
      BY <3>1, <3>3, <1>6, <1>8, <1>15
    <3> QED BY <3>2, <3>3, <1>8
  <2> QED BY <2>1, <2>2 DEF Nested
<1>17. Framed'
  <2>1. Len(Base') <= Len(eh') /\ \A k \in DOMAIN Base' : eh'[k] = Base'[k]
    <3>1. Len(Base) <= q /\ \A k \in DOMAIN Base : k \in DOMAIN eh /\ eh[k] = Base[k]
      BY <1>0 DEF Framed
    <3> QED BY <3>1, <1>9, <1>11
  <2>2. ASSUME NEW k \in Frames'
        PROVE  \E i \in Held' : eh'[k].try = ctl'[i].try /\ eh'[k].n = ctl'[i].n
    <3>1. CASE k \in Frames
      <4>1. PICK i \in Held : eh[k].try = ctl[i].try /\ eh[k].n = ctl[i].n
        BY <3>1, <1>0 DEF Framed
      <4>2. eh'[k] = eh[k] /\ ctl'[i] = ctl[i] /\ i \in Held'
        BY <3>1, <1>8, <1>9, <1>14, <1>15 DEF Held
      <4> QED BY <4>1, <4>2
    <3>2. CASE k = q + 1
      <4>1. m + 1 \in Held' /\ eh'[k] = f /\ ctl'[m + 1] = a
        BY <3>2, <1>8, <1>9, <1>14
      <4> QED BY <4>1, <1>6
    <3> QED BY <3>1, <3>2, <1>13
  <2>3. ASSUME NEW i \in Held' PROVE \E k \in Frames' : eh'[k].n = ctl'[i].n
    <3>1. CASE i \in Held
      <4>1. PICK k \in Frames : eh[k].n = ctl[i].n
        BY <3>1, <1>0 DEF Framed
      <4>2. eh'[k] = eh[k] /\ ctl'[i] = ctl[i] /\ k \in Frames'
        BY <3>1, <1>8, <1>9, <1>13, <1>15 DEF Held
      <4> QED BY <4>1, <4>2
    <3>2. CASE i = m + 1
      <4>1. q + 1 \in Frames' /\ eh'[q + 1] = f /\ ctl'[i] = a
        BY <3>2, <1>8, <1>9, <1>13
      <4> QED BY <4>1, <1>6
    <3> QED BY <3>1, <3>2, <1>14
  <2>4. ASSUME NEW k \in Frames', NEW l \in Frames', k < l PROVE eh'[k].n < eh'[l].n
    <3>1. k \in Frames
      BY <2>4, <1>9, <1>13, <1>15
    <3>2. eh'[k] = eh[k]
      BY <3>1, <1>9, <1>15
    <3>3. CASE l \in Frames
      <4>1. eh'[l] = eh[l]
        BY <3>3, <1>9, <1>15
      <4> QED BY <2>4, <3>1, <3>2, <3>3, <4>1, <1>0 DEF Framed
    <3>4. CASE l = q + 1
      BY <3>1, <3>2, <3>4, <1>6, <1>9, <1>15
    <3> QED BY <3>3, <3>4, <1>13
  <2> QED BY <2>1, <2>2, <2>3, <2>4 DEF Framed
<1>18. /\ \A i \in Calls : i \in DOMAIN ctl /\ ctl'[i] = ctl[i] /\ ctl[i].cp \in 0 .. Len(roots)
       /\ \A k \in Frames : k \in DOMAIN eh /\ eh'[k] = eh[k] /\ eh[k].cp \in 0 .. Len(roots)
  BY <1>0, <1>8, <1>9 DEF Calls, Frames, Checkpoints
<1>19. Checkpoints'
  <2>1. \A i \in Calls' : ctl'[i].cp \in 0 .. Len(roots')
    <3> TAKE i \in Calls'
    <3>1. CASE i \in Calls
      BY <3>1, <1>2, <1>5, <1>18
    <3>2. CASE i = m + 1
      BY <3>2, <1>2, <1>5, <1>6, <1>8
    <3> QED BY <3>1, <3>2, <1>12
  <2>2. \A k \in Frames' : eh'[k].cp \in 0 .. Len(roots')
    <3> TAKE k \in Frames'
    <3>1. CASE k \in Frames
      BY <3>1, <1>2, <1>5, <1>18
    <3>2. CASE k = q + 1
      BY <3>2, <1>2, <1>5, <1>6, <1>9
    <3> QED BY <3>1, <3>2, <1>13
  <2>3. ASSUME NEW i \in Calls', NEW j \in Calls', i < j PROVE ctl'[i].cp <= ctl'[j].cp
    <3>1. i \in Calls
      <4>1. j \in DOMAIN ctl \/ j = m + 1
        BY <1>12, <1>18
      <4> QED BY <2>3, <4>1, <1>12
    <3>2. CASE j \in Calls
      BY <2>3, <3>1, <3>2, <1>0, <1>18 DEF Checkpoints
    <3>3. CASE j = m + 1
      BY <3>1, <3>3, <1>6, <1>8, <1>18
    <3> QED BY <3>2, <3>3, <1>12
  <2>4. ASSUME NEW k \in Frames', NEW l \in Frames', k < l PROVE eh'[k].cp <= eh'[l].cp
    <3>1. k \in Frames
      BY <2>4, <1>9, <1>13, <1>15
    <3>2. CASE l \in Frames
      BY <2>4, <3>1, <3>2, <1>0, <1>18 DEF Checkpoints
    <3>3. CASE l = q + 1
      BY <3>1, <3>3, <1>5, <1>6, <1>9, <1>18
    <3> QED BY <3>2, <3>3, <1>13
  <2>5. ASSUME NEW i \in Calls', NEW k \in Frames'
        PROVE  IF ctl'[i].n <= eh'[k].n THEN ctl'[i].cp <= eh'[k].cp ELSE eh'[k].cp <= ctl'[i].cp
    <3>1. CASE i \in Calls /\ k \in Frames
      BY <3>1, <1>0, <1>18 DEF Checkpoints
    <3>2. CASE i \in Calls /\ k = q + 1
      <4>1. ctl'[i].cp = ctl[i].cp /\ ctl'[i].n = ctl[i].n /\ ctl[i].cp \in 0 .. Len(roots) /\ i \in DOMAIN ctl
        BY <3>2, <1>18
      <4>2. ctl'[i].cp <= eh'[k].cp
        BY <3>2, <4>1, <1>5, <1>6, <1>9
      <4>3. ctl'[i].n <= eh'[k].n
        BY <3>2, <4>1, <1>6, <1>9, <1>15
      <4> QED BY <4>2, <4>3
    <3>3. CASE i = m + 1 /\ k \in Frames
      <4>1. eh'[k].cp <= ctl'[i].cp /\ ~ (ctl'[i].n <= eh'[k].n)
        <5>1. eh[k].n \in Nat /\ eh[k].n < n
          BY <3>3, <1>15
        <5> QED BY <5>1, <3>3, <1>6, <1>8, <1>18
      <4> QED BY <4>1
    <3>4. CASE i = m + 1 /\ k = q + 1
      <4>1. ctl'[i].cp <= eh'[k].cp /\ ctl'[i].n <= eh'[k].n
        BY <3>4, <1>5, <1>6, <1>8, <1>9
      <4> QED BY <4>1
    <3> QED BY <3>1, <3>2, <3>3, <3>4, <1>12, <1>13
  <2> QED BY <2>1, <2>2, <2>3, <2>4, <2>5 DEF Checkpoints
<1>20. Owned'
  <2>1. ASSUME NEW r \in DOMAIN roots'
        PROVE  /\ roots'[r].fn = 0 \/ \E i \in Calls' : ctl'[i].n = roots'[r].fn
               /\ \A i \in Calls' : r <= ctl'[i].cp => roots'[r].fn < ctl'[i].n
               /\ \A k \in Frames' : r <= eh'[k].cp => roots'[r].fn <= eh'[k].n
    <3>1. CASE r \in DOMAIN roots
      <4>1. roots'[r] = roots[r] /\ roots[r].fn <= entries /\ roots[r].fn \in Nat
        BY <3>1, <1>2, <1>5, OwnerBelow
      <4>2. roots[r].fn = 0 \/ \E i \in Calls' : ctl'[i].n = roots[r].fn
        BY Zenon, <3>1, <1>0, <1>12, <1>18 DEF Owned
      <4>3. ASSUME NEW i \in Calls', r <= ctl'[i].cp PROVE roots[r].fn < ctl'[i].n
        <5>1. CASE i \in Calls
          BY <3>1, <4>3, <5>1, <1>0, <1>18 DEF Owned
        <5>2. CASE i = m + 1
          BY <4>1, <5>2, <1>6, <1>8
        <5> QED BY <5>1, <5>2, <1>12
      <4>4. ASSUME NEW k \in Frames', r <= eh'[k].cp PROVE roots[r].fn <= eh'[k].n
        <5>1. CASE k \in Frames
          BY <3>1, <4>4, <5>1, <1>0, <1>18 DEF Owned
        <5>2. CASE k = q + 1
          BY <4>1, <5>2, <1>6, <1>9
        <5> QED BY <5>1, <5>2, <1>13
      <4> QED BY <4>1, <4>2, <4>3, <4>4
    <3>2. CASE r = Len(roots) + 1 /\ rooted[r] = s
      <4>1. roots'[r].fn = fn
        BY <3>2, <1>2, <1>6
      <4>2. fn = 0 \/ \E i \in Calls' : ctl'[i].n = fn
        <5>1. CASE IsCall(prog, c)
          <6>1. m + 1 \in Calls' /\ ctl'[m + 1].n = n
            BY <5>1, <1>6, <1>8, <1>12
          <6> QED BY <5>1, <6>1 DEF fn
        <5>2. CASE ~ IsCall(prog, c)
          <6>1. fn = 0 \/ \E i \in Calls : ctl[i].n = fn
            BY <5>2, FunctionFacts DEF fn
          <6> QED BY <6>1, <1>12, <1>18
        <5> QED BY <5>1, <5>2
      <4>3. \A i \in Calls' : ~ (r <= ctl'[i].cp)
        <5> TAKE i \in Calls'
        <5>1. ctl'[i].cp \in 0 .. Len(roots)
          <6>1. CASE i \in Calls
            BY <6>1, <1>18
          <6>2. CASE i = m + 1
            BY <6>2, <1>6, <1>8
          <6> QED BY <6>1, <6>2, <1>12
        <5> QED BY <5>1, <3>2
      <4>4. \A k \in Frames' : r <= eh'[k].cp => fn <= eh'[k].n
        <5> TAKE k \in Frames'
        <5>1. CASE k \in Frames
          BY <5>1, <3>2, <1>18
        <5>2. CASE k = q + 1
          BY <5>2, <1>4, <1>6, <1>9
        <5> QED BY <5>1, <5>2, <1>13
      <4> QED BY <4>1, <4>2, <4>3, <4>4
    <3> QED BY Zenon, <3>1, <3>2, <1>2, <1>5
  <2> QED BY <2>1 DEF Owned
<1>21. Rooted'
  <2>1. ASSUME NEW i \in DOMAIN ctl', ctl'[i].local, ~ (prog'.async /\ \A j \in Calls' : j > i)
        PROVE  \E r \in DOMAIN roots' :
                 /\ roots'[r].n = ctl'[i].n /\ roots'[r].at = ctl'[i].at
                 /\ \A j \in Calls' : j > i => r <= ctl'[j].cp
                 /\ \A k \in Frames' : eh'[k].n > ctl'[i].n => r <= eh'[k].cp
    <3>1. i \in DOMAIN ctl /\ ctl'[i] = ctl[i] /\ i < m + 1
      BY <2>1, <1>6, <1>8
    <3>2. ~ InFrame(i)
      BY <2>1, <3>1, <1>12 DEF InFrame
    <3>3. PICK r \in DOMAIN roots :
            /\ roots[r].n = ctl[i].n /\ roots[r].at = ctl[i].at
            /\ \A j \in Calls : j > i => r <= ctl[j].cp
            /\ \A k \in Frames : eh[k].n > ctl[i].n => r <= eh[k].cp
      BY Zenon, <2>1, <3>1, <3>2, <1>0 DEF Rooted
    <3>4. roots'[r] = roots[r] /\ r \in DOMAIN roots'
      BY <1>2, <1>5
    <3>5. \A j \in Calls' : j > i => r <= ctl'[j].cp
      <4> TAKE j \in Calls'
      <4>1. CASE j \in Calls
        BY <4>1, <3>3, <1>18
      <4>2. CASE j = m + 1
        BY <4>2, <1>6, <1>8
      <4> QED BY <4>1, <4>2, <1>12
    <3>6. \A k \in Frames' : eh'[k].n > ctl'[i].n => r <= eh'[k].cp
      <4> TAKE k \in Frames'
      <4>1. CASE k \in Frames
        BY <4>1, <3>1, <3>3, <1>18
      <4>2. CASE k = q + 1
        BY <4>2, <1>5, <1>6, <1>9
      <4> QED BY <4>1, <4>2, <1>13
    <3>7. roots'[r].n = ctl'[i].n /\ roots'[r].at = ctl'[i].at
      BY <3>1, <3>3, <3>4
    <3>8. r \in DOMAIN roots'
      BY <3>4
    <3> WITNESS r \in DOMAIN roots'
    <3> QED BY <3>5, <3>6, <3>7
  <2> QED BY <2>1 DEF Rooted, InFrame
<1> QED BY <1>10, <1>16, <1>17, <1>19, <1>20, <1>21 DEF TryInv

LEMMA DeclareInv ==
  ASSUME TryInv, Declare
  PROVE  TryInv'
<1>1. out = "running" /\ ctl # <<>> /\ prog' = prog /\ out' = out /\ eh' = eh /\ entries' = entries
  BY DEF Declare
<1> USE RunningFacts, <1>1
<1>0. Nested /\ Framed /\ Checkpoints /\ Owned /\ Rooted
  BY DEF TryInv
<1> DEFINE m == Len(ctl)
           q == Len(roots)
           s == [fn |-> Function, n |-> Last(ctl).n, at |-> Last(ctl).at]
           a == [Last(ctl) EXCEPT !.local = TRUE]
<1>2. m \in DOMAIN ctl /\ m \in Nat \ {0} /\ Last(ctl) = ctl[m] /\ ~ ctl[m].local
  BY DEF Declare, Last
<1>3. roots' = Append(roots, s) /\ ctl' = Append(Front(ctl), a)
  BY DEF Declare
<1>4. s \in Root /\ s.fn = Function /\ s.n = ctl[m].n /\ s.at = ctl[m].at
  <2>1. Function \in Nat /\ ctl[m].n \in Nat /\ ctl[m].at \in Place
    BY <1>2, FunctionFacts
  <2> QED BY <2>1, <1>2 DEF Root
<1>5. a \in Activation /\ a.try = ctl[m].try /\ a.at = ctl[m].at /\ a.n = ctl[m].n /\ a.cp = ctl[m].cp
  <2>1. PICK b \in Activation : b = ctl[m]
    BY <1>2
  <2> QED BY Zenon, <2>1, <1>2 DEF Activation
<1>6. Front(ctl) \in Seq(Activation) /\ Len(Front(ctl)) = m - 1 /\ \A i \in 1 .. m - 1 : Front(ctl)[i] = ctl[i]
  BY <1>2 DEF Front
<1> HIDE DEF s, a
<1>7. /\ ctl' \in Seq(Activation) /\ DOMAIN ctl' = DOMAIN ctl /\ ctl'[m] = a
      /\ \A i \in DOMAIN ctl : i # m => ctl'[i] = ctl[i]
  <2>1. ctl' \in Seq(Activation) /\ Len(ctl') = m /\ ctl'[m] = a /\ \A i \in 1 .. m - 1 : ctl'[i] = ctl[i]
    <3>1. PICK c : c = Front(ctl)
      OBVIOUS
    <3>2. c \in Seq(Activation) /\ Len(c) = m - 1 /\ \A i \in 1 .. m - 1 : c[i] = ctl[i]
      BY <3>1, <1>6
    <3>3. /\ Append(c, a) \in Seq(Activation) /\ Len(Append(c, a)) = m /\ Append(c, a)[m] = a
          /\ \A i \in 1 .. m - 1 : Append(c, a)[i] = c[i]
      <4>1. m \in Nat \ {0} /\ a \in Activation
        BY <1>2, <1>5
      <4> HIDE DEF m
      <4> QED BY <3>2, <4>1
    <3> QED BY Zenon, <3>1, <3>2, <3>3, <1>3
  <2>2. DOMAIN ctl' = 1 .. m /\ \A i \in DOMAIN ctl : i # m => i \in 1 .. m - 1
    BY <2>1, <1>2
  <2> QED BY <2>1, <2>2, <1>2
<1>8. \A i \in DOMAIN ctl : /\ ctl'[i].try = ctl[i].try /\ ctl'[i].at = ctl[i].at /\ ctl'[i].n = ctl[i].n
                            /\ ctl'[i].cp = ctl[i].cp
                            /\ i # m => ctl'[i].local = ctl[i].local
  BY <1>5, <1>7
<1>9. /\ roots' \in Seq(Root) /\ DOMAIN roots' = 1 .. q + 1 /\ Len(roots') = q + 1 /\ roots'[q + 1] = s
      /\ \A r \in DOMAIN roots : r \in DOMAIN roots' /\ roots'[r] = roots[r]
      /\ \A r \in DOMAIN roots' : r \in DOMAIN roots \/ r = q + 1
  BY <1>3, <1>4
<1>10. Calls' = Calls /\ Held' = Held /\ Frames' = Frames /\ Base' = Base
  <2>1. Calls' = Calls
    BY <1>7, <1>8 DEF Calls
  <2>2. Held' = Held
    BY <1>7, <1>8 DEF Held
  <2> QED BY <2>1, <2>2 DEF Frames, Base
<1>11. TryTypeOK' /\ (prog \in Programs)' /\ out' = "running"
  BY <1>7, <1>9 DEF TryTypeOK, TryInv
<1>12. Nested'
  <2>1. ASSUME NEW i \in DOMAIN ctl'
        PROVE  /\ ctl'[i].n \in 1 .. entries'
               /\ ctl'[i].at \in {"catch", "leaveCatch"} => HasCatch(prog', ctl'[i].try)
               /\ ctl'[i].at \in {"leave", "leaveCatch", "thunk"} => HasFinally(prog', ctl'[i].try)
               /\ i = 1 => ctl'[i].try \in Children(prog', 0, "body")
               /\ i > 1 => ctl'[i].try \in Children(prog', ctl'[i - 1].try, SourceRegion(ctl'[i - 1].at))
    <3>1. i > 1 => i - 1 \in DOMAIN ctl
      BY <1>7
    <3>2. i > 1 => ctl'[i - 1].try = ctl[i - 1].try /\ ctl'[i - 1].at = ctl[i - 1].at
      BY <3>1, <1>8
    <3> QED BY <3>2, <1>0, <1>7, <1>8 DEF Nested
  <2>2. \A i, j \in DOMAIN ctl' : i < j => ctl'[i].n < ctl'[j].n
    BY <1>0, <1>7, <1>8 DEF Nested
  <2> QED BY <2>1, <2>2 DEF Nested
<1>13. Framed'
  <2>1. \A i \in Held : i \in DOMAIN ctl
    BY DEF Held
  <2>2. \A k \in Frames' : \E i \in Held' : eh'[k].try = ctl'[i].try /\ eh'[k].n = ctl'[i].n
    BY <2>1, <1>0, <1>8, <1>10 DEF Framed
  <2>3. \A i \in Held' : \E k \in Frames' : eh'[k].n = ctl'[i].n
    BY <2>1, <1>0, <1>8, <1>10 DEF Framed
  <2> QED BY <2>2, <2>3, <1>0, <1>10 DEF Framed
<1>14. \A i \in Calls : i \in DOMAIN ctl
  BY DEF Calls
<1>15. \A k \in Frames : k \in DOMAIN eh
  BY DEF Frames
<1>16. Checkpoints'
  <2>1. \A i \in Calls' : ctl'[i].cp \in 0 .. Len(roots')
    <3> TAKE i \in Calls'
    <3>1. i \in Calls /\ i \in DOMAIN ctl /\ ctl'[i].cp = ctl[i].cp
      BY <1>8, <1>10, <1>14
    <3>2. ctl[i].cp \in 0 .. Len(roots)
      BY <3>1, <1>0 DEF Checkpoints
    <3>3. Len(roots') = Len(roots) + 1 /\ Len(roots) \in Nat
      BY <1>9
    <3> QED BY <3>1, <3>2, <3>3
  <2>2. \A k \in Frames' : eh'[k].cp \in 0 .. Len(roots')
    BY <1>0, <1>9, <1>10 DEF Checkpoints
  <2>3. \A i, j \in Calls' : i < j => ctl'[i].cp <= ctl'[j].cp
    BY <1>0, <1>8, <1>10, <1>14 DEF Checkpoints
  <2>4. \A i \in Calls', k \in Frames' :
          IF ctl'[i].n <= eh'[k].n THEN ctl'[i].cp <= eh'[k].cp ELSE eh'[k].cp <= ctl'[i].cp
    BY <1>0, <1>8, <1>10, <1>14 DEF Checkpoints
  <2>5. \A k, l \in Frames' : k < l => eh'[k].cp <= eh'[l].cp
    BY <1>0, <1>10 DEF Checkpoints
  <2> QED BY <2>1, <2>2, <2>3, <2>4, <2>5 DEF Checkpoints
<1>17. \A i \in Calls : ctl[i].cp \in Nat /\ ~ (q + 1 <= ctl[i].cp)
  <2> TAKE i \in Calls
  <2>1. ctl[i].cp \in 0 .. q
    BY <1>0 DEF Checkpoints
  <2> QED BY <2>1
<1>18. \A k \in Frames : eh[k].cp \in Nat /\ ~ (q + 1 <= eh[k].cp)
  <2> TAKE k \in Frames
  <2>1. eh[k].cp \in 0 .. q
    BY <1>0 DEF Checkpoints
  <2> QED BY <2>1
<1>19. Owned'
  <2>1. ASSUME NEW r \in DOMAIN roots'
        PROVE  /\ roots'[r].fn = 0 \/ \E i \in Calls' : ctl'[i].n = roots'[r].fn
               /\ \A i \in Calls' : r <= ctl'[i].cp => roots'[r].fn < ctl'[i].n
               /\ \A k \in Frames' : r <= eh'[k].cp => roots'[r].fn <= eh'[k].n
    <3>1. CASE r \in DOMAIN roots
      BY Zenon, <3>1, <1>0, <1>8, <1>9, <1>10, <1>14 DEF Owned
    <3>2. CASE r = q + 1
      <4>1. roots'[r].fn = Function
        BY <3>2, <1>4, <1>9
      <4>2. Function = 0 \/ \E i \in Calls' : ctl'[i].n = Function
        BY FunctionFacts, <1>8, <1>10, <1>14
      <4>3. \A i \in Calls' : ~ (r <= ctl'[i].cp)
        BY <3>2, <1>8, <1>10, <1>14, <1>17
      <4>4. \A k \in Frames' : ~ (r <= eh'[k].cp)
        BY <3>2, <1>10, <1>18
      <4> QED BY <4>1, <4>2, <4>3, <4>4
    <3> QED BY <3>1, <3>2, <1>9
  <2> QED BY <2>1 DEF Owned
<1>20. Rooted'
  <2>1. ASSUME NEW i \in DOMAIN ctl', ctl'[i].local, ~ (prog'.async /\ \A j \in Calls' : j > i)
        PROVE  \E r \in DOMAIN roots' :
                 /\ roots'[r].n = ctl'[i].n /\ roots'[r].at = ctl'[i].at
                 /\ \A j \in Calls' : j > i => r <= ctl'[j].cp
                 /\ \A k \in Frames' : eh'[k].n > ctl'[i].n => r <= eh'[k].cp
    <3>1. i \in DOMAIN ctl /\ ~ InFrame(i)
      BY <2>1, <1>7, <1>10 DEF InFrame
    <3>2. CASE i # m
      <4>1. PICK r \in DOMAIN roots :
              /\ roots[r].n = ctl[i].n /\ roots[r].at = ctl[i].at
              /\ \A j \in Calls : j > i => r <= ctl[j].cp
              /\ \A k \in Frames : eh[k].n > ctl[i].n => r <= eh[k].cp
        BY Zenon, <2>1, <3>1, <3>2, <1>0, <1>8 DEF Rooted
      <4>2. r \in DOMAIN roots' /\ roots'[r] = roots[r]
        BY <1>9
      <4>3. roots'[r].n = ctl'[i].n /\ roots'[r].at = ctl'[i].at
        BY <3>1, <4>1, <4>2, <1>8
      <4>4. \A j \in Calls' : j > i => r <= ctl'[j].cp
        BY Zenon, <4>1, <1>8, <1>10, <1>14
      <4>5. \A k \in Frames' : eh'[k].n > ctl'[i].n => r <= eh'[k].cp
        BY <3>1, <4>1, <1>8, <1>10
      <4>6. r \in DOMAIN roots'
        BY <4>2
      <4> WITNESS r \in DOMAIN roots'
      <4> QED BY <4>3, <4>4, <4>5
    <3>3. CASE i = m
      <4>1. q + 1 \in DOMAIN roots'
        BY <1>9
      <4>2. roots'[q + 1].n = ctl'[i].n /\ roots'[q + 1].at = ctl'[i].at
        BY <3>3, <1>2, <1>4, <1>8, <1>9
      <4>3. \A j \in Calls' : ~ (j > i)
        BY <3>3, <1>10, <1>14
      <4>4. \A k \in Frames' : ~ (eh'[k].n > ctl'[i].n)
        <5> TAKE k \in Frames'
        <5>1. PICK j \in Held : eh[k].n = ctl[j].n
          BY <1>0, <1>10 DEF Framed
        <5>2. j \in DOMAIN ctl /\ (j < m \/ j = m)
          BY DEF Held
        <5>3. ctl[j].n <= ctl[m].n
          BY <5>2, <1>0, <1>2 DEF Nested
        <5> QED BY <3>3, <5>1, <5>2, <5>3, <1>2, <1>8
      <4> WITNESS q + 1 \in DOMAIN roots'
      <4> QED BY <4>2, <4>3, <4>4
    <3> QED BY <3>2, <3>3
  <2> QED BY <2>1 DEF Rooted, InFrame
<1> QED BY <1>11, <1>12, <1>13, <1>16, <1>19, <1>20 DEF TryInv

LEMMA OverInv ==
  ASSUME TryInv, ctl' = <<>>, eh' = <<>>, roots' = <<>>, out' \in {"normal", "threw", "returned"},
         prog' = prog, entries' = entries
  PROVE  TryInv'
<1>1. TryTypeOK /\ prog \in Programs
  BY DEF TryInv
<1>2. TryTypeOK'
  BY <1>1 DEF TryTypeOK
<1>3. out' # "running"
  OBVIOUS
<1> QED BY <1>1, <1>2, <1>3 DEF TryInv, Over

\* The activations at the places P are the held ones.
Holds(P) == \A i \in DOMAIN ctl : ctl[i].at \in P <=> i \in Held

\* The frames above the base are those of the activations s, in order.
FramesOf(s) ==
  /\ s \in Seq(Activation) /\ Len(s) \in Nat /\ DOMAIN s = 1 .. Len(s)
  /\ Len(eh) = Len(Base) + Len(s)
  /\ \A j \in DOMAIN s : LET k == Len(Base) + j IN
       k \in Frames /\ eh[k].n = s[j].n /\ eh[k].try = s[j].try

LEMMA HeldFrames ==
  ASSUME TryInv, out = "running", NEW P, Holds(P)
  PROVE  FramesOf(AtPlaces(ctl, P))
<1> USE RunningFacts
<1>s. PICK s : s = AtPlaces(ctl, P)
  OBVIOUS
<1>0. Framed /\ Nested
  BY DEF TryInv
<1> DEFINE z == Len(Base)
           N == Len(eh) - z
           t == [j \in 1 .. Len(s) |-> s[j].n]
           u == [j \in 1 .. N |-> eh[z + j].n]
<1>1. Rising(ctl)
  BY <1>0 DEF Nested, Rising
<1>2. s \in Seq(Activation) /\ Picks(s, ctl, P, Len(ctl))
  BY <1>1, <1>s, AtPlacesFacts
<1>3. /\ Len(s) \in Nat /\ DOMAIN s = 1 .. Len(s) /\ Rising(s)
      /\ \A j \in DOMAIN s : s[j] \in Activation /\ s[j].n \in Nat
      /\ \A j \in DOMAIN s : \E i \in Held : s[j] = ctl[i]
      /\ \A i \in Held : \E j \in DOMAIN s : s[j] = ctl[i]
  <2>1. Len(s) \in Nat /\ DOMAIN s = 1 .. Len(s) /\ \A j \in DOMAIN s : s[j] \in Activation
    BY <1>2
  <2>2. \A j \in DOMAIN s : s[j].n \in Nat
    BY <2>1 DEF Activation
  <2>3. \A i : i \in Held <=> i \in 1 .. Len(ctl) /\ ctl[i].at \in P
    BY DEF Held, Holds
  <2> HIDE DEF Held
  <2> QED BY Zenon, <2>1, <2>2, <2>3, <1>2 DEF Picks
<1>4. z \in Nat /\ N \in Nat /\ Len(eh) = z + N
  <2>1. z \in Nat /\ z <= Len(eh)
    BY <1>0 DEF Framed
  <2> QED BY <2>1
<1>5. \A j \in 1 .. N : z + j \in Frames /\ z + j \in DOMAIN eh
  BY <1>4 DEF Frames
<1>6. \A k \in Frames : k - z \in 1 .. N /\ z + (k - z) = k
  BY <1>4 DEF Frames
<1> HIDE DEF z, N
<1>7. t \in Seq(Nat) /\ u \in Seq(Nat) /\ Len(t) = Len(s) /\ Len(u) = N /\ DOMAIN t = 1 .. Len(s) /\ DOMAIN u = 1 .. N
      /\ (\A j \in 1 .. Len(s) : t[j] = s[j].n) /\ (\A j \in 1 .. N : u[j] = eh[z + j].n)
  <2>1. \A j \in 1 .. N : eh[z + j].n \in Nat
    BY <1>5
  <2>2. t \in [1 .. Len(s) -> Nat] /\ u \in [1 .. N -> Nat]
    BY <2>1, <1>3
  <2>3. (\A j \in 1 .. Len(s) : t[j] = s[j].n) /\ (\A j \in 1 .. N : u[j] = eh[z + j].n)
    OBVIOUS
  <2> HIDE DEF t, u
  <2>4. u \in Seq(Nat) /\ Len(u) = N /\ DOMAIN u = 1 .. N
    <3>1. PICK n \in Nat : n = N
      BY <1>4
    <3>2. u \in [1 .. n -> Nat]
      BY <2>2, <3>1
    <3>3. u \in Seq(Nat) /\ Len(u) = n /\ DOMAIN u = 1 .. n
      BY <3>2
    <3> QED BY <3>1, <3>3
  <2>5. t \in Seq(Nat) /\ Len(t) = Len(s) /\ DOMAIN t = 1 .. Len(s)
    <3>1. PICK n \in Nat : n = Len(s)
      BY Zenon, <1>3
    <3>2. t \in [1 .. n -> Nat]
      BY <2>2, <3>1
    <3>3. t \in Seq(Nat) /\ Len(t) = n /\ DOMAIN t = 1 .. n
      BY <3>2
    <3> QED BY <3>1, <3>3
  <2> QED BY <2>3, <2>4, <2>5
<1> HIDE DEF t, u
<1>8. \A i, j \in DOMAIN t : i < j => t[i] < t[j]
  <2> TAKE i, j \in DOMAIN t
  <2>1. i \in DOMAIN s /\ j \in DOMAIN s /\ t[i] = s[i].n /\ t[j] = s[j].n
    BY Zenon, <1>3, <1>7
  <2> QED BY <2>1, <1>3 DEF Rising
<1>9. \A i, j \in DOMAIN u : i < j => u[i] < u[j]
  <2> TAKE i, j \in DOMAIN u
  <2>1. i \in 1 .. N /\ j \in 1 .. N /\ u[i] = eh[z + i].n /\ u[j] = eh[z + j].n
    BY <1>7
  <2>2. i < j => z + i < z + j
    BY <2>1, <1>4
  <2>3. z + i \in Frames /\ z + j \in Frames
    BY <2>1, <1>5
  <2> QED BY <2>1, <2>2, <2>3, <1>0 DEF Framed
<1>10. \A j \in DOMAIN t : \E k \in DOMAIN u : t[j] = u[k]
  <2> TAKE j \in DOMAIN t
  <2>1. PICK i \in Held : s[j] = ctl[i]
    BY <1>3, <1>7
  <2>2. PICK k \in Frames : eh[k].n = ctl[i].n
    BY <1>0 DEF Framed
  <2>3. k - z \in DOMAIN u /\ u[k - z] = eh[k].n
    BY <1>6, <1>7
  <2> QED BY <2>1, <2>2, <2>3, <1>7
<1>11. \A k \in DOMAIN u : \E j \in DOMAIN t : u[k] = t[j]
  <2> TAKE k \in DOMAIN u
  <2>1. PICK i \in Held : eh[z + k].n = ctl[i].n
    BY <1>0, <1>5, <1>7 DEF Framed
  <2>2. PICK j \in DOMAIN s : s[j] = ctl[i]
    BY <1>3
  <2>3. j \in DOMAIN t /\ t[j] = s[j].n /\ u[k] = eh[z + k].n
    BY Zenon, <1>3, <1>7
  <2>4. u[k] = t[j]
    BY <2>1, <2>2, <2>3
  <2> QED BY <2>3, <2>4
<1>12. Len(t) <= Len(u) /\ \A k \in DOMAIN t : k \in DOMAIN u /\ t[k] = u[k]
  BY Zenon, <1>7, <1>8, <1>9, <1>10, <1>11, SameOrder
<1>13. Len(u) <= Len(t)
  BY Zenon, <1>7, <1>8, <1>9, <1>10, <1>11, SameOrder
<1>14. Len(eh) = z + Len(s)
  <2>1. Len(t) = Len(s) /\ Len(u) = N /\ Len(s) \in Nat
    BY Zenon, <1>3, <1>7
  <2>2. Len(s) <= N /\ N <= Len(s)
    BY Zenon, <1>12, <1>13, <2>1
  <2>3. N \in Nat /\ Len(eh) = z + N
    BY Zenon, <1>4
  <2>4. PICK n \in Nat : n = Len(s)
    BY Zenon, <2>1
  <2>5. N = n
    BY ONLY <2>2, <2>3, <2>4
  <2> QED BY Zenon, <2>3, <2>4, <2>5
<1>15. ASSUME NEW j \in DOMAIN s
       PROVE  z + j \in Frames /\ eh[z + j].n = s[j].n /\ eh[z + j].try = s[j].try
  <2>1. z + j \in Frames /\ eh[z + j].n = s[j].n
    BY Zenon, <1>3, <1>5, <1>7, <1>12
  <2>2. PICK i \in Held : s[j] = ctl[i]
    BY <1>3
  <2>3. PICK l \in Held : eh[z + j].try = ctl[l].try /\ eh[z + j].n = ctl[l].n
    BY <2>1, <1>0 DEF Framed
  <2>4. i \in DOMAIN ctl /\ l \in DOMAIN ctl
    BY DEF Held
  <2>5. i = l
    <3>1. ctl[i].n = ctl[l].n
      BY <2>1, <2>2, <2>3
    <3>2. ctl[i].n \in Nat /\ i \in Nat /\ l \in Nat /\ (i < l \/ l < i \/ i = l)
      BY <2>4
    <3>3. (i < l => ctl[i].n < ctl[l].n) /\ (l < i => ctl[l].n < ctl[i].n)
      BY <2>4, <1>0 DEF Nested
    <3> QED BY <3>1, <3>2, <3>3
  <2> QED BY <2>1, <2>2, <2>3, <2>5
<1> QED BY <1>s, <1>2, <1>3, <1>14, <1>15 DEF z, FramesOf

LEMMA StaticSeq ==
  ASSUME TryInv, out = "running"
  PROVE  LET s == AtPlaces(ctl, {"try"}) IN
         /\ s \in Seq(Activation) /\ Len(s) \in Nat
         /\ StaticHandlers(ctl) \in Seq(Frame) /\ Len(StaticHandlers(ctl)) = Len(s) + 1
         /\ StaticHandlers(ctl)[1] = AsyncRoot
         /\ \A j \in 1 .. Len(s) : LET f == StaticHandlers(ctl)[j + 1] IN
              f.n = s[j].n /\ f.try = s[j].try /\ f.cp = 0
<1> DEFINE s == AtPlaces(ctl, {"try"})
           t == [j \in DOMAIN s |-> [try |-> s[j].try, n |-> s[j].n, cp |-> 0]]
<1>1. s \in Seq(Activation)
  <2>1. Rising(ctl) /\ ctl \in Seq(Activation)
    BY RunningFacts DEF TryInv, Nested, Rising
  <2> QED BY <2>1, AtPlacesFacts
<1>2. StaticHandlers(ctl) = <<AsyncRoot>> \o t
  BY DEF StaticHandlers
<1> HIDE DEF s
<1>3. PICK n \in Nat : n = Len(s) /\ DOMAIN s = 1 .. n
  BY <1>1
<1>4. \A j \in 1 .. n : s[j].try \in Nat /\ s[j].n \in Nat
  <2> TAKE j \in 1 .. n
  <2>1. s[j] \in Activation
    BY <1>1, <1>3
  <2> QED BY <2>1 DEF Activation
<1>5. /\ DOMAIN t = 1 .. n /\ t = [j \in 1 .. n |-> t[j]]
      /\ \A j \in 1 .. n : t[j] \in Frame /\ t[j].try = s[j].try /\ t[j].n = s[j].n /\ t[j].cp = 0
  BY <1>3, <1>4 DEF Frame
<1> HIDE DEF t
<1>6. t \in Seq(Frame) /\ Len(t) = n
  <2>1. t \in [1 .. n -> Frame]
    BY <1>5
  <2> QED BY <2>1, <1>5
<1>7. PICK x \in Frame : x = AsyncRoot
  BY Zenon DEF AsyncRoot, Frame
<1>8. /\ <<x>> \o t \in Seq(Frame) /\ Len(<<x>> \o t) = n + 1
      /\ (<<x>> \o t)[1] = x
      /\ \A j \in 1 .. n : (<<x>> \o t)[j + 1] = t[j]
  BY <1>6
<1>9. \A j \in 1 .. n : LET f == StaticHandlers(ctl)[j + 1] IN f.n = s[j].n /\ f.try = s[j].try /\ f.cp = 0
  BY <1>2, <1>5, <1>7, <1>8
<1> QED BY Zenon, <1>1, <1>2, <1>3, <1>7, <1>8, <1>9 DEF s

\* In the async body itself and outside of finally blocks, the handlers the
\* compiler holds active are those of the handler stack.
LEMMA StaticFacts ==
  ASSUME TryInv, out = "running", prog.async, Calls = {}, ctl # <<>> => At # "finally"
  PROVE  /\ StaticHandlers(ctl) \in Seq(Frame) /\ Len(StaticHandlers(ctl)) = Len(eh)
         /\ DOMAIN StaticHandlers(ctl) = DOMAIN eh
         /\ StaticHandlers(ctl)[1] = AsyncRoot
         /\ \A k \in Frames : LET f == StaticHandlers(ctl)[k] IN
              f.n = eh[k].n /\ f.try = eh[k].try /\ f.cp = 0
<1> USE RunningFacts
<1>0. Nested
  BY DEF TryInv
<1>1. \A i \in DOMAIN ctl : ctl[i].at \in {"try"} <=> i \in Held
  <2> SUFFICES ASSUME NEW i \in DOMAIN ctl, ctl[i].at \in {"leave", "thunk"} PROVE FALSE
    BY DEF Held
  <2>1. SourceRegion(ctl[i].at) = "finally"
    BY DEF SourceRegion, Region
  <2>2. CASE i = Len(ctl)
    BY <2>1, <2>2 DEF At, Last
  <2>3. CASE i # Len(ctl)
    <3>1. i + 1 \in DOMAIN ctl /\ i + 1 > 1 /\ (i + 1) - 1 = i
      BY <2>3
    <3>2. PICK c \in DOMAIN prog.stmts : c = ctl[i + 1].try
      BY <3>1
    <3>3. c \in Children(prog, ctl[i].try, "finally")
      <4>1. c \in Children(prog, ctl[(i + 1) - 1].try, SourceRegion(ctl[(i + 1) - 1].at))
        BY <3>1, <3>2, <1>0 DEF Nested
      <4> QED BY <4>1, <3>1, <2>1
    <3>4. IsCall(prog, c)
      BY <3>3, StatementFacts DEF Children
    <3>5. i + 1 \in Calls
      BY <3>1, <3>2, <3>4 DEF Calls
    <3> QED BY <3>5
  <2> QED BY <2>2, <2>3
<1> DEFINE s == AtPlaces(ctl, {"try"})
<1>2. /\ s \in Seq(Activation) /\ Len(s) \in Nat /\ DOMAIN s = 1 .. Len(s)
      /\ Len(eh) = Len(Base) + Len(s)
      /\ \A j \in DOMAIN s : LET k == Len(Base) + j IN
           k \in Frames /\ eh[k].n = s[j].n /\ eh[k].try = s[j].try
  <2>1. Holds({"try"})
    BY <1>1 DEF Holds
  <2>2. FramesOf(s)
    BY <2>1, HeldFrames
  <2> HIDE DEF s
  <2> QED BY <2>2 DEF FramesOf
<1> HIDE DEF s
<1>3. PICK n \in Nat : n = Len(s)
  BY Zenon, <1>2
<1>4. /\ StaticHandlers(ctl) \in Seq(Frame) /\ Len(StaticHandlers(ctl)) = n + 1
      /\ StaticHandlers(ctl)[1] = AsyncRoot
      /\ \A j \in 1 .. n : LET f == StaticHandlers(ctl)[j + 1] IN
           f.n = s[j].n /\ f.try = s[j].try /\ f.cp = 0
  BY <1>3, StaticSeq DEF s
<1>5. Len(Base) = 1
  OBVIOUS
<1>6. Len(StaticHandlers(ctl)) = Len(eh) /\ DOMAIN StaticHandlers(ctl) = DOMAIN eh
  BY <1>2, <1>3, <1>4, <1>5
<1>7. ASSUME NEW k \in Frames
      PROVE  LET f == StaticHandlers(ctl)[k] IN f.n = eh[k].n /\ f.try = eh[k].try /\ f.cp = 0
  <2>1. k \in DOMAIN eh /\ k > 1
    BY <1>5 DEF Frames
  <2>2. k - 1 \in 1 .. n /\ k = (k - 1) + 1 /\ Len(Base) + (k - 1) = k /\ k - 1 \in DOMAIN s
    BY <2>1, <1>2, <1>3, <1>5
  <2>3. eh[k].n = s[k - 1].n /\ eh[k].try = s[k - 1].try
    BY <2>2, <1>2
  <2> QED BY <2>2, <2>3, <1>4
<1> QED BY Zenon, <1>4, <1>6, <1>7

LEMMA AwaitInv ==
  ASSUME TryInv, Supported(prog), Await
  PROVE  TryInv'
<1>1. /\ out = "running" /\ prog' = prog /\ ctl' = ctl /\ out' = out /\ entries' = entries /\ roots' = <<>>
      /\ "await" \in Exits(prog, Here, At) /\ prog.async /\ Function = 0
  BY DEF Await, May, InAsync
<1> USE RunningFacts, <1>1
<1>0. Nested /\ Framed
  BY DEF TryInv
<1>2. Calls = {}
  BY FunctionFacts
<1>3. ctl # <<>> => At # "finally"
  <2> SUFFICES ASSUME ctl # <<>>, At = "finally" PROVE FALSE
    OBVIOUS
  <2>1. Here \in DOMAIN prog.stmts
    <3>1. Last(ctl) = ctl[Len(ctl)] /\ Len(ctl) \in DOMAIN ctl
      BY DEF Last
    <3> QED BY <3>1 DEF Here
  <2>2. AwaitsIn(prog, Here, "finally")
    BY DEF AwaitsIn
  <2> QED BY <2>1, <2>2 DEF Supported
<1> DEFINE e == StaticHandlers(ctl)
<1>4. /\ e \in Seq(Frame) /\ Len(e) = Len(eh) /\ DOMAIN e = DOMAIN eh /\ e[1] = AsyncRoot
      /\ \A k \in Frames : e[k].n = eh[k].n /\ e[k].try = eh[k].try /\ e[k].cp = 0
  BY <1>2, <1>3, StaticFacts
<1>5. eh' = e
  <2> DEFINE left == PopTop(eh, Len(e))
             dead == [try |-> 0, n |-> MaxEntries + 1, cp |-> 0]
             over == [j \in DOMAIN left |-> dead]
  <2>1. eh' = over \o e
    BY DEF Await
  <2> HIDE DEF e
  <2>2. left = <<>>
    BY <1>4 DEF PopTop
  <2> HIDE DEF left
  <2>3. over = <<>>
    <3>1. DOMAIN left = {}
      BY <2>2
    <3> HIDE DEF dead
    <3> QED BY <3>1
  <2> HIDE DEF over
  <2> QED BY <2>1, <2>3, <1>4
<1> HIDE DEF e
<1>6. Calls' = Calls /\ Held' = Held /\ Base' = Base
  BY DEF Calls, Held, Base
<1>7. Frames' = Frames
  BY <1>4, <1>5, <1>6 DEF Frames
<1>8. TryTypeOK' /\ (prog \in Programs)' /\ out' = "running"
  <2>1. <<>> \in Seq(Root)
    OBVIOUS
  <2> QED BY <2>1, <1>4, <1>5 DEF TryTypeOK, TryInv
<1>9. Nested'
  BY <1>0 DEF Nested
<1>10. Framed'
  <2>1. Len(Base') <= Len(eh') /\ \A k \in DOMAIN Base' : eh'[k] = Base'[k]
    BY <1>0, <1>4, <1>5, <1>6 DEF Framed
  <2>2. \A k \in Frames' : \E i \in Held' : eh'[k].try = ctl'[i].try /\ eh'[k].n = ctl'[i].n
    BY <1>0, <1>4, <1>5, <1>6, <1>7 DEF Framed
  <2>3. \A i \in Held' : \E k \in Frames' : eh'[k].n = ctl'[i].n
    BY <1>0, <1>4, <1>5, <1>6, <1>7 DEF Framed
  <2>4. \A k, l \in Frames' : k < l => eh'[k].n < eh'[l].n
    BY <1>0, <1>4, <1>5, <1>6, <1>7 DEF Framed
  <2> QED BY <2>1, <2>2, <2>3, <2>4 DEF Framed
<1>11. \A k \in Frames' : eh'[k].cp = 0
  BY <1>4, <1>5, <1>7
<1>12. Checkpoints'
  <2>1. \A k \in Frames' : eh'[k].cp \in 0 .. Len(roots')
    BY <1>11
  <2>2. \A k, l \in Frames' : k < l => eh'[k].cp <= eh'[l].cp
    BY <1>11
  <2> QED BY <2>1, <2>2, <1>2, <1>6 DEF Checkpoints
<1>13. Owned'
  <2>1. DOMAIN roots' = {}
    OBVIOUS
  <2> QED BY <2>1 DEF Owned
<1>14. Rooted'
  <2>1. \A i \in DOMAIN ctl' : InFrame(i)'
    BY <1>2, <1>6 DEF InFrame
  <2> QED BY <2>1 DEF Rooted
<1> QED BY <1>8, <1>9, <1>10, <1>12, <1>13, <1>14 DEF TryInv

\* The frames belong to activations up to the innermost.
LEMMA FramesBelow ==
  ASSUME TryInv, out = "running", ctl # <<>>, NEW k \in Frames
  PROVE  /\ k \in DOMAIN eh /\ eh[k].n <= ctl[Len(ctl)].n /\ eh[k].n > 0
         /\ Len(ctl) \notin Held => eh[k].n < ctl[Len(ctl)].n
<1> USE RunningFacts
<1>0. Nested /\ Framed
  BY DEF TryInv
<1>1. PICK i \in Held : eh[k].n = ctl[i].n
  BY <1>0 DEF Framed
<1>2. i \in DOMAIN ctl /\ Len(ctl) \in DOMAIN ctl /\ (i = Len(ctl) \/ i < Len(ctl))
  BY DEF Held
<1>3. i < Len(ctl) => ctl[i].n < ctl[Len(ctl)].n
  BY <1>0, <1>2 DEF Nested
<1>4. k \in DOMAIN eh
  BY DEF Frames
<1> QED BY <1>1, <1>2, <1>3, <1>4

\* A statement at the top of the outer function is alone on ctl.
LEMMA AloneFacts ==
  ASSUME TryInv, out = "running", ctl # <<>>, prog.stmts[ctl[Len(ctl)].try].parent = 0
  PROVE  Len(ctl) = 1
<1> USE RunningFacts
<1>1. Len(ctl) \in DOMAIN ctl
  OBVIOUS
<1>2. SUFFICES ASSUME Len(ctl) > 1 PROVE FALSE
  BY <1>1
<1>3. ctl[Len(ctl)].try \in Children(prog, ctl[Len(ctl) - 1].try, SourceRegion(ctl[Len(ctl) - 1].at))
  BY <1>1, <1>2 DEF TryInv, Nested
<1>4. prog.stmts[ctl[Len(ctl)].try].parent = ctl[Len(ctl) - 1].try
  BY <1>3 DEF Children
<1>5. Len(ctl) - 1 \in DOMAIN ctl
  BY <1>2
<1>6. ctl[Len(ctl) - 1].try \in DOMAIN prog.stmts
  BY <1>5
<1> QED BY <1>4, <1>6, StatementFacts

\* What is left of the handler stack when nothing is held, or the only
\* activation's frame is gone.
LEMMA BaseFacts ==
  ASSUME TryInv, out = "running"
  PROVE  /\ Base \in Seq(Frame) /\ (Held = {} => eh = Base)
         /\ Len(ctl) = 1 /\ 1 \in Held => Len(eh) = Len(Base) + 1 /\ Front(eh) = Base
<1> USE RunningFacts
<1>0. Nested /\ Framed /\ Len(Base) \in Nat
  BY DEF TryInv
<1>1. Held = {} => Len(eh) = Len(Base)
  <2> SUFFICES ASSUME Held = {}, Len(eh) # Len(Base) PROVE FALSE
    OBVIOUS
  <2>1. Len(eh) \in Frames
    BY <1>0 DEF Frames, Framed
  <2> QED BY <2>1, <1>0 DEF Framed
<1>2. Len(ctl) = 1 /\ 1 \in Held => Len(eh) = Len(Base) + 1
  <2> HAVE Len(ctl) = 1 /\ 1 \in Held
  <2>1. \A i \in Held : i = 1
    BY DEF Held
  <2>2. Len(eh) \in Frames /\ Len(eh) > Len(Base) /\ \A k \in Frames : k < Len(eh) => eh[k].n < ctl[1].n
    BY <2>1, TopFrame
  <2>3. \A k \in Frames : eh[k].n = ctl[1].n
    BY <2>1, <1>0 DEF Framed
  <2>4. \A k \in Frames : ~ (k < Len(eh))
    BY <2>2, <2>3
  <2>5. Len(Base) + 1 \in Frames
    BY <2>2, <1>0 DEF Frames
  <2>6. Len(Base) + 1 <= Len(eh)
    BY <2>2, <1>0
  <2>7. ~ (Len(Base) + 1 < Len(eh))
    BY <2>4, <2>5
  <2>8. PICK z \in Nat, q \in Nat : z = Len(Base) /\ q = Len(eh)
    BY Zenon, <1>0
  <2>9. q = z + 1
    <3>1. z + 1 <= q
      BY <2>6, <2>8
    <3>2. ~ (z + 1 < q)
      BY <2>7, <2>8
    <3> QED BY <3>1, <3>2
  <2> QED BY <2>8, <2>9
<1>3. Base \in Seq(Frame)
  <2>1. AsyncRoot \in Frame
    BY DEF AsyncRoot, Frame
  <2>2. PICK x \in Frame : x = AsyncRoot
    BY <2>1
  <2>3. <<x>> \in Seq(Frame) /\ <<>> \in Seq(Frame)
    OBVIOUS
  <2> QED BY <2>2, <2>3 DEF Base
<1>4. \A k \in 1 .. Len(Base) : eh[k] = Base[k]
  BY <1>0, <1>3 DEF Framed
<1>5. ASSUME NEW e \in Seq(Frame), Len(e) = Len(Base), \A k \in 1 .. Len(Base) : e[k] = Base[k]
      PROVE e = Base
  <2>1. PICK b \in Seq(Frame) : b = Base
    BY <1>3
  <2>2. Len(e) = Len(b) /\ \A k \in 1 .. Len(b) : e[k] = b[k]
    BY <1>5, <2>1
  <2>3. e = b
    BY <2>2, SeqEqual
  <2> QED BY <2>1, <2>3
<1>6. Len(eh) = Len(Base) => eh = Base
  BY <1>4, <1>5
<1>7. Len(eh) = Len(Base) + 1 => Front(eh) = Base
  <2> HAVE Len(eh) = Len(Base) + 1
  <2>1. Front(eh) \in Seq(Frame) /\ Len(Front(eh)) = Len(Base) /\ \A k \in 1 .. Len(Base) : Front(eh)[k] = eh[k]
    BY <1>0 DEF Front
  <2> QED BY <2>1, <1>4, <1>5
<1> QED BY Zenon, <1>1, <1>2, <1>3, <1>6, <1>7

LEMMA NoCall ==
  ASSUME TryInv, out = "running", Calls = {}
  PROVE  FunctionStart(prog, ctl) = 0 /\ Function = 0
<1>1. ctl \in Seq(Activation) /\ DOMAIN ctl = 1 .. Len(ctl) /\ Len(ctl) \in Nat
  BY RunningFacts
<1>2. PICK j \in 0 .. Len(ctl) : j = FunctionStart(prog, ctl) /\ (j > 0 => IsCall(prog, ctl[j].try))
  BY <1>1, StartFacts
<1>3. j = 0
  <2> SUFFICES ASSUME j > 0 PROVE FALSE
    BY <1>1, <1>2
  <2>1. j \in Calls
    BY <1>1, <1>2 DEF Calls
  <2> QED BY <2>1
<1> QED BY <1>2, <1>3, FunctionFacts

\* The outer function returns with only the async body's own handler left.
LEMMA OuterReturn ==
  ASSUME TryInv, out = "running", Calls = {}, Return(Base), prog' = prog, entries' = entries
  PROVE  TryInv'
<1> USE RunningFacts
<1>1. FunctionStart(prog, ctl) = 0
  BY NoCall
<1>2. ctl' = <<>> /\ roots' = <<>> /\ out' = "returned"
      /\ eh' = (IF InAsync THEN PopTop(Base, Len(StaticHandlers(ctl))) ELSE Base)
  BY <1>1 DEF Return, FunctionRet
<1>3. eh' = <<>>
  <2>1. Function = 0
    BY NoCall
  <2>2. CASE prog.async
    <3>1. InAsync /\ Len(Base) = 1
      BY <2>1, <2>2 DEF InAsync
    <3>2. Len(StaticHandlers(ctl)) \in Nat /\ Len(StaticHandlers(ctl)) > 0
      BY StaticSeq
    <3>3. Base \in Seq(Frame)
      BY Zenon, BaseFacts
    <3>4. PICK b \in Seq(Frame), n \in Nat : b = Base /\ n = Len(StaticHandlers(ctl))
      BY <3>2, <3>3
    <3>5. SubSeq(b, 1, Len(b) - n) = <<>>
      <4>1. Len(b) = 1 /\ n > 0
        BY <3>1, <3>2, <3>4
      <4>2. PICK x \in Int : x = Len(b) - n /\ x < 1
        BY <4>1
      <4>3. SubSeq(b, 1, x) = <<>>
        BY <4>2
      <4> QED BY <4>2, <4>3
    <3> QED BY <3>1, <3>4, <3>5, <1>2 DEF PopTop
  <2>3. CASE ~ prog.async
    <3>1. ~ InAsync /\ Base = <<>>
      BY <2>3 DEF InAsync
    <3> QED BY <3>1, <1>2
  <2> QED BY <2>2, <2>3, StatementFacts
<1> QED BY <1>2, <1>3, OverInv

\* A call returns: the innermost activation goes with its roots.
LEMMA CallReturn ==
  ASSUME TryInv, out = "running", ctl # <<>>, Len(ctl) \in Calls,
         FunctionRet(IF Len(ctl) \in Held THEN Front(eh) ELSE eh), prog' = prog, entries' = entries
  PROVE  TryInv'
<1> USE RunningFacts
<1> DEFINE e == IF Len(ctl) \in Held THEN Front(eh) ELSE eh
<1>1. FunctionStart(prog, ctl) = Len(ctl) /\ Len(ctl) > 0
  BY StartFacts DEF Calls
<1> HIDE DEF e
<1>2. ctl' = SubSeq(ctl, 1, Len(ctl) - 1) /\ roots' = SubSeq(roots, 1, ctl[Len(ctl)].cp) /\ eh' = e /\ out' = out
  BY <1>1 DEF FunctionRet, e
<1>3. Drops
  BY <1>2 DEF Drops, Front, e
<1> QED BY <1>3, DropsInv

\* A frame above the base has exactly one owner.
LEMMA OwnerFacts ==
  ASSUME TryInv, out = "running", NEW l \in Frames
  PROVE  \E i \in Held : /\ eh[l].n = ctl[i].n /\ eh[l].try = ctl[i].try
                         /\ Owner(eh[l]) = {i} /\ Max(Owner(eh[l])) = i
<1> USE RunningFacts
<1>0. Nested /\ Framed
  BY DEF TryInv
<1>1. PICK i \in Held : eh[l].try = ctl[i].try /\ eh[l].n = ctl[i].n
  BY <1>0 DEF Framed
<1>2. i \in DOMAIN ctl /\ i \in Nat
  BY DEF Held
<1>3. ASSUME NEW j \in Owner(eh[l]) PROVE j = i
  <2>1. j \in DOMAIN ctl /\ ctl[j].n = ctl[i].n
    BY <1>1 DEF Owner
  <2>2. ctl[i].n \in Nat /\ ctl[j].n \in Nat /\ (i < j \/ j < i \/ i = j)
    BY <1>2, <2>1
  <2>3. (i < j => ctl[i].n < ctl[j].n) /\ (j < i => ctl[j].n < ctl[i].n)
    BY <1>2, <2>1, <1>0 DEF Nested
  <2> QED BY <2>1, <2>2, <2>3
<1>4. i \in Owner(eh[l])
  BY <1>1 DEF Held, Owner
<1>5. Owner(eh[l]) = {i}
  BY <1>3, <1>4
<1>6. Max({i}) = i
  <2>1. {i} \in SUBSET (0 .. i) /\ {i} # {} /\ i \in Nat
    BY <1>2
  <2>2. Max({i}) \in {i}
    BY Zenon, <2>1, MaxFacts
  <2> QED BY <2>2
<1> QED BY <1>1, <1>5, <1>6

LEMMA ThrowInv ==
  ASSUME TryInv, out = "running", NEW l \in Len(Base) .. Len(eh), Throw(SubSeq(eh, 1, l)),
         prog' = prog, entries' = entries
  PROVE  TryInv'
<1> USE RunningFacts
<1>0. Nested /\ Framed /\ Checkpoints
  BY DEF TryInv
<1> DEFINE e == SubSeq(eh, 1, l)
<1>1. e \in Seq(Frame) /\ Len(e) = l /\ l \in Nat /\ \A k \in 1 .. l : e[k] = eh[k] /\ k \in DOMAIN eh
  OBVIOUS
<1>2. Throw(e)
  OBVIOUS
<1> HIDE DEF e
<1>3. CASE e = <<>>
  <2>1. ctl' = <<>> /\ eh' = <<>> /\ roots' = <<>> /\ out' = "threw"
    BY <1>2, <1>3 DEF Throw
  <2> QED BY <2>1, OverInv
<1>4. CASE e # <<>>
  <2>1. l > 0 /\ Last(e) = e[l] /\ e[l] = eh[l] /\ l \in DOMAIN eh
    BY <1>1, <1>4 DEF Last
  <2>2. CASE l = Len(Base)
    <3>1. Last(e) = AsyncRoot
      <4>1. prog.async /\ l = 1
        BY <2>1, <2>2
      <4>2. 1 \in DOMAIN Base /\ Base[1] = AsyncRoot
        BY <4>1
      <4>3. eh[1] = Base[1]
        BY <4>2, <1>0 DEF Framed
      <4> QED BY <2>1, <4>1, <4>2, <4>3
    <3>2. Front(e) = <<>>
      <4>1. Len(e) = 1
        BY <1>1, <2>1, <2>2
      <4>2. Front(e) \in Seq(Frame) /\ Len(Front(e)) = Len(e) - 1
        BY <1>1, <1>4, FrontFacts
      <4>3. Len(Front(e)) = 0
        BY <4>1, <4>2
      <4> QED BY <4>2, <4>3, EmptySeq
    <3>3. ctl' = <<>> /\ eh' = <<>> /\ roots' = <<>> /\ out' = "threw"
      BY <1>2, <1>4, <3>1, <3>2 DEF Throw
    <3> QED BY <3>3, OverInv
  <2>3. CASE l # Len(Base)
    <3>1. l \in Frames
      <4>1. Len(Base) \in Nat
        BY <1>0
      <4> QED BY <4>1, <2>1, <2>3 DEF Frames
    <3>2. PICK i \in Held : /\ eh[l].n = ctl[i].n /\ eh[l].try = ctl[i].try
                            /\ Owner(eh[l]) = {i} /\ Max(Owner(eh[l])) = i
      BY Zenon, <3>1, OwnerFacts
    <3>3. i \in DOMAIN ctl /\ ctl[i].n \in Nat \ {0} /\ ctl[i].try \in DOMAIN prog.stmts
      BY DEF Held
    <3>4. Last(e) # AsyncRoot
      BY <2>1, <3>2, <3>3 DEF AsyncRoot
    <3> DEFINE b == eh[l].cp
    <3>5. b \in 0 .. Len(roots) /\ ~ (b > Len(roots))
      <4>1. b \in 0 .. Len(roots)
        BY <3>1, <1>0 DEF Checkpoints
      <4> QED BY <4>1
    <3>6. /\ roots' = SubSeq(roots, 1, b) /\ out' = out
          /\ HasCatch(prog, eh[l].try) => ctl' = MoveTo(SubSeq(ctl, 1, i), "catch") /\ eh' = Front(e)
          /\ ~ HasCatch(prog, eh[l].try) => ctl' = MoveTo(SubSeq(ctl, 1, i), "thunk") /\ eh' = e
      <4>1. Owner(eh[l]) # {}
        BY <3>2
      <4> QED BY <4>1, <1>2, <1>4, <2>1, <3>2, <3>4, <3>5 DEF Throw
    <3>7. \A k \in Frames : (k < l => eh[k].n < ctl[i].n) /\ (k > l => ctl[i].n < eh[k].n)
      BY <3>1, <3>2, <1>0 DEF Framed
    <3>8. \A k \in Frames : k \in DOMAIN eh /\ eh[k].n \in Nat /\ k \in Nat
      BY DEF Frames
    <3>9. \E k \in Frames : b = eh[k].cp /\ eh[k].n = ctl[i].n
      BY <3>1, <3>2
    <3>10. CASE HasCatch(prog, eh[l].try)
      <4>1. Front(e) = SubSeq(eh, 1, l - 1)
        BY <1>1, <2>1 DEF Front, e
      <4>2. l - 1 \in Len(Base) .. Len(eh)
        BY <2>3, <2>1
      <4>3. \A k \in Frames : /\ k <= l - 1 => eh[k].n <= ctl[i].n
                              /\ eh[k].n < ctl[i].n => k <= l - 1
                              /\ k <= l - 1 => eh[k].n < ctl[i].n
        <5> TAKE k \in Frames
        <5>1. k < l \/ k = l \/ k > l
          BY <3>8, <2>1
        <5>2. k <= l - 1 <=> k < l
          BY <3>8, <2>1
        <5>3. k = l => ~ (eh[k].n < ctl[i].n)
          BY <3>2, <3>3
        <5>4. k > l => ~ (eh[k].n < ctl[i].n)
          BY <3>7, <3>8, <3>3
        <5>5. k < l => eh[k].n <= ctl[i].n
          BY <3>7, <3>8, <3>3
        <5> QED BY <3>7, <5>1, <5>2, <5>3, <5>4, <5>5
      <4>4. Moves(i, "catch", l - 1, b)
        <5>1. ctl' = MoveTo(SubSeq(ctl, 1, i), "catch") /\ eh' = SubSeq(eh, 1, l - 1) /\ HasCatch(prog, ctl[i].try)
          BY <3>2, <3>6, <3>10, <4>1
        <5>2. "catch" \notin HeldPlaces
          BY DEF HeldPlaces
        <5> HIDE DEF b
        <5> QED BY <3>6, <3>9, <4>3, <5>1, <5>2 DEF Moves
      <4>5. "catch" \in Place
        BY DEF Place, Region
      <4> HIDE DEF b
      <4> QED BY Zenon, <3>3, <3>5, <4>2, <4>4, <4>5, MovedInv
    <3>11. CASE ~ HasCatch(prog, eh[l].try)
      <4>1. eh' = SubSeq(eh, 1, l) /\ ctl' = MoveTo(SubSeq(ctl, 1, i), "thunk")
        BY <3>6, <3>11 DEF e
      <4>2. HasFinally(prog, ctl[i].try)
        BY <3>2, <3>3, <3>11, StatementFacts
      <4>3. \A k \in Frames : /\ k <= l => eh[k].n <= ctl[i].n
                              /\ eh[k].n < ctl[i].n => k <= l
                              /\ eh[k].n = ctl[i].n => k <= l
        <5> TAKE k \in Frames
        <5>1. (k < l \/ k = l \/ k > l) /\ (k <= l <=> k < l \/ k = l)
          BY <3>8, <2>1
        <5>2. k = l => eh[k].n <= ctl[i].n
          BY <3>2, <3>3
        <5>3. k > l => ~ (eh[k].n < ctl[i].n) /\ eh[k].n # ctl[i].n
          BY <3>7, <3>8, <3>3
        <5>4. k < l => eh[k].n <= ctl[i].n
          BY <3>7, <3>8, <3>3
        <5> QED BY <5>1, <5>2, <5>3, <5>4
      <4>4. Moves(i, "thunk", l, b)
        <5>1. "thunk" \in HeldPlaces
          BY DEF HeldPlaces
        <5> HIDE DEF b
        <5> QED BY <3>6, <3>9, <4>1, <4>2, <4>3, <5>1 DEF Moves
      <4>5. "thunk" \in Place
        BY DEF Place
      <4> HIDE DEF b
      <4> QED BY <3>3, <3>5, <4>4, <4>5, MovedInv
    <3> QED BY <3>10, <3>11
  <2> QED BY <2>2, <2>3
<1> QED BY <1>3, <1>4

\* The innermost activation goes on in another block of its statement.
LEMMA BlockInv ==
  ASSUME TryInv, out = "running", ctl # <<>>, NEW place \in {"leave", "leaveCatch"},
         place = "leave" => Len(ctl) \in Held, place = "leaveCatch" => Len(ctl) \notin Held,
         place = "leaveCatch" => HasCatch(prog, ctl[Len(ctl)].try),
         HasFinally(prog, ctl[Len(ctl)].try), ctl' = MoveTo(ctl, place),
         UNCHANGED <<prog, eh, roots, out, entries>>
  PROVE  TryInv'
<1> USE RunningFacts
<1>1. Len(ctl) \in DOMAIN ctl /\ SubSeq(ctl, 1, Len(ctl)) = ctl /\ SubSeq(eh, 1, Len(eh)) = eh
      /\ SubSeq(roots, 1, Len(roots)) = roots
  OBVIOUS
<1>2. \A k \in Frames : k <= Len(eh) /\ eh[k].n <= ctl[Len(ctl)].n
                        /\ (Len(ctl) \notin Held => eh[k].n < ctl[Len(ctl)].n)
  BY FramesBelow
<1>3. Len(eh) \in Len(Base) .. Len(eh) /\ Len(roots) \in 0 .. Len(roots) /\ place \in Place
  <2>1. Len(Base) <= Len(eh)
    BY DEF TryInv, Framed
  <2> QED BY <2>1 DEF Place
<1>4. Moves(Len(ctl), place, Len(eh), Len(roots))
  <2>1. place \in HeldPlaces <=> place = "leave"
    BY DEF HeldPlaces
  <2>2. place \in {"catch", "leaveCatch"} => place = "leaveCatch"
    OBVIOUS
  <2> QED BY Zenon, <1>1, <1>2, <2>1, <2>2 DEF Moves
<1> QED BY Zenon, <1>1, <1>3, <1>4, MovedInv

LEMMA TryLeaveInv ==
  ASSUME TryInv, out = "running", Supported(prog), ctl # <<>>, NEW r \in {"try", "catch"},
         r = "try" <=> Len(ctl) \in Held, TryLeave(r), prog' = prog, entries' = entries
  PROVE  TryInv'
<1> USE RunningFacts
<1> DEFINE m == Len(ctl)
           top == Last(ctl)
           popped == IF r = "catch" THEN eh
                     ELSE IF InAsync THEN PopTop(eh, 1)
                     ELSE IF eh # <<>> /\ Last(eh).n = top.n /\ top.n > 0 THEN Front(eh)
                     ELSE eh
           e == IF m \in Held THEN Front(eh) ELSE eh
<1>1. m \in DOMAIN ctl /\ top = ctl[m] /\ ctl[m].try \in DOMAIN prog.stmts /\ ctl[m].n \in Nat \ {0}
  BY DEF Last
<1>2. popped = e
  <2>1. CASE m \in Held
    <3>1. \A j \in Held : j <= m
      BY DEF Held
    <3>2. Len(eh) > Len(Base) /\ eh[Len(eh)].n = ctl[m].n
      BY <2>1, <3>1, TopFrame
    <3>3. eh # <<>> /\ Last(eh).n = top.n /\ top.n > 0
      <4>1. Len(eh) > 0
        BY <3>2
      <4> QED BY <3>2, <4>1, <1>1 DEF Last
    <3>4. PopTop(eh, 1) = Front(eh)
      BY DEF PopTop, Front
    <3>5. r # "catch"
      BY <2>1
    <3> HIDE DEF top, m
    <3> QED BY <2>1, <3>3, <3>4, <3>5
  <2>2. CASE m \notin Held
    BY <2>2
  <2> QED BY <2>1, <2>2
<1>3. IF LeaveReturns(prog, top.try, r) THEN Return(popped) ELSE Past(popped)
  BY DEF TryLeave
<1> HIDE DEF popped
<1>4. IF LeaveReturns(prog, ctl[m].try, r) THEN Return(e) ELSE Past(e)
  BY <1>1, <1>2, <1>3
<1>5. m \in Calls <=> IsCall(prog, ctl[m].try)
  BY <1>1 DEF Calls
<1>6. CASE LeaveReturns(prog, ctl[m].try, r)
  <2>1. r = "try" /\ Outermost(prog, ctl[m].try)
    BY <1>1, <1>6, LeaveFacts
  <2>2. Return(e)
    BY <1>4, <1>6
  <2>3. CASE IsCall(prog, ctl[m].try)
    <3>1. ~ InAsync
      BY <2>3, <1>5, FunctionFacts DEF InAsync
    <3>2. FunctionRet(e)
      BY <2>2, <3>1 DEF Return
    <3> QED BY <3>2, <2>3, <1>5, CallReturn
  <2>4. CASE ~ IsCall(prog, ctl[m].try)
    <3>1. m = 1
      BY <2>1, <2>4, AloneFacts DEF Outermost
    <3>2. Calls = {}
      BY <3>1, <2>4, <1>5 DEF Calls
    <3>3. e = Base
      BY <2>1, <3>1, BaseFacts
    <3>4. Return(Base)
      BY <2>2, <3>3
    <3> QED BY <3>2, <3>4, OuterReturn
  <2> QED BY <2>3, <2>4
<1>7. CASE ~ LeaveReturns(prog, ctl[m].try, r)
  <2>1. Past(e)
    BY <1>4, <1>7
  <2>2. CASE IsCall(prog, ctl[m].try)
    <3>1. FunctionRet(e)
      BY <2>1, <2>2, <1>1 DEF Past
    <3> QED BY <3>1, <2>2, <1>5, CallReturn
  <2>3. CASE ~ IsCall(prog, ctl[m].try)
    <3>1. ctl' = Front(ctl) /\ eh' = e /\ UNCHANGED <<roots, out>>
      BY <2>1, <2>3, <1>1 DEF Past
    <3>2. Drops
      BY <3>1, <2>3, <1>5 DEF Drops
    <3> QED BY <3>2, DropsInv
  <2> QED BY <2>2, <2>3
<1> QED BY <1>6, <1>7

\* The statements around one of the outer function's own are its own.
LEMMA OuterChain ==
  ASSUME TryInv, out = "running", ctl # <<>>, FunctionOf(prog)[ctl[Len(ctl)].try] = 0
  PROVE  Calls = {}
<1> USE RunningFacts
<1> DEFINE m == Len(ctl)
           F(i) == FunctionOf(prog)[ctl[i].try]
           T == {d \in 0 .. m - 1 : F(m - d) # 0}
<1>1. m \in Nat \ {0} /\ F(m) = 0
  OBVIOUS
<1>2. ASSUME NEW i \in DOMAIN ctl, F(i) = 0
      PROVE  ~ IsCall(prog, ctl[i].try) /\ FunctionOf(prog)[prog.stmts[ctl[i].try].parent] = 0
  <2>1. PICK c \in DOMAIN prog.stmts : c = ctl[i].try
    OBVIOUS
  <2>2. c \in 0 .. Len(prog.stmts) /\ c # 0
    BY StatementFacts
  <2>3. FunctionOf(prog)[c] = IF c = 0 \/ IsCall(prog, c) THEN c ELSE FunctionOf(prog)[prog.stmts[c].parent]
    BY <2>2, FunctionOfFacts
  <2>4. FunctionOf(prog)[c] = 0
    BY <1>2, <2>1
  <2>5. ~ IsCall(prog, c)
    BY <2>2, <2>3, <2>4
  <2> QED BY <2>1, <2>2, <2>3, <2>4, <2>5
<1>3. T = {}
  <2> SUFFICES ASSUME T # {} PROVE FALSE
    OBVIOUS
  <2>1. PICK d \in T : \A j \in T : ~ (j < d)
    <3>1. T \subseteq Nat
      OBVIOUS
    <3> HIDE DEF T
    <3> QED BY Zenon, <3>1, LeastIndex
  <2>2. d \in 0 .. m - 1 /\ F(m - d) # 0
    OBVIOUS
  <2>3. d # 0
    <3>1. m - 0 = m
      BY <1>1
    <3> HIDE DEF m
    <3> QED BY <2>2, <3>1, <1>1
  <2>4. d - 1 \in 0 .. m - 1 /\ d - 1 < d /\ m - (d - 1) \in DOMAIN ctl /\ m - (d - 1) > 1
        /\ (m - (d - 1)) - 1 = m - d
    BY <2>2, <2>3, <1>1
  <2>5. PICK i \in DOMAIN ctl : i = m - (d - 1)
    BY <2>4
  <2>6. F(i) = 0
    <3>1. d - 1 \notin T
      BY Zenon, <2>1, <2>4
    <3> QED BY <3>1, <2>4, <2>5
  <2>7. FunctionOf(prog)[prog.stmts[ctl[i].try].parent] = 0
    BY <2>6, <1>2
  <2>8. ctl[i].try \in Children(prog, ctl[i - 1].try, SourceRegion(ctl[i - 1].at))
    BY Zenon, <2>4, <2>5 DEF TryInv, Nested
  <2>9. i - 1 = m - d
    BY <2>4, <2>5
  <2>10. prog.stmts[ctl[i].try].parent = ctl[m - d].try
    BY <2>8, <2>9 DEF Children
  <2> QED BY <2>2, <2>7, <2>10
<1>4. ASSUME NEW i \in DOMAIN ctl PROVE F(i) = 0
  <2>1. m - i \in 0 .. m - 1 /\ m - (m - i) = i
    BY <1>1
  <2>2. m - i \notin T
    BY <1>3
  <2>3. F(m - (m - i)) = 0
    BY <2>1, <2>2
  <2> HIDE DEF m
  <2> QED BY <2>1, <2>3
<1> QED BY <1>2, <1>4 DEF Calls

LEMMA ReturnInv ==
  ASSUME TryInv, Supported(prog), ReturnHere
  PROVE  TryInv'
<1>1. /\ out = "running" /\ "return" \in Exits(prog, Here, At)
      /\ prog' = prog /\ entries' = entries
  BY DEF ReturnHere, May
<1> USE RunningFacts, <1>1
<1>0. Nested
  BY DEF TryInv
<1> DEFINE m == Len(ctl)
           s == ctl[m].try
           i == IF ctl = <<>> THEN 0 ELSE FinallyAround(prog)[Here]
           last == Max({j \in DOMAIN ctl : ctl[j].try = i})
<1>2. /\ i = 0 => Return(eh)
      /\ i # 0 => ctl' = MoveTo(SubSeq(ctl, 1, last), "leave") /\ UNCHANGED <<eh, roots, out>>
  BY Zenon DEF ReturnHere
<1>3. CASE ctl = <<>>
  <2>1. Calls = {} /\ Held = {}
    BY <1>3 DEF Calls, Held
  <2>2. Return(Base)
    BY <2>1, <1>2, <1>3, BaseFacts
  <2> QED BY <2>1, <2>2, OuterReturn
<1>4. CASE ctl # <<>>
  <2>1. m \in DOMAIN ctl /\ m \in Nat \ {0} /\ s \in DOMAIN prog.stmts /\ s # 0
        /\ Here = s /\ At = SourceRegion(ctl[m].at) /\ i = FinallyAround(prog)[s]
    <3>1. m \in DOMAIN ctl /\ m \in Nat \ {0} /\ Last(ctl) = ctl[m]
      BY <1>4 DEF Last
    <3>2. s \in DOMAIN prog.stmts /\ s # 0
      BY Zenon, <3>1, StatementFacts
    <3> QED BY <3>1, <3>2, <1>4 DEF Here, At
  <2>2. FinallyAround(prog)[s] = IF HasFinally(prog, s) THEN s
                                 ELSE IF IsCall(prog, s) \/ prog.stmts[s].parent = 0 THEN 0
                                 ELSE FinallyAround(prog)[prog.stmts[s].parent]
    BY <2>1, FinallyAroundFacts
  <2>3. At # "finally" /\ ctl[m].at \in {"try", "catch"} /\ At = ctl[m].at
    <3>1. At # "finally"
      BY <2>1, StatementFacts
    <3> QED BY <3>1, <2>1 DEF SourceRegion, Region
  <2>4. m \in Calls <=> IsCall(prog, s)
    BY <2>1 DEF Calls
  <2>5. m \in Held <=> ctl[m].at = "try"
    BY <2>1, <2>3 DEF Held
  <2>6. CASE PopsAll(prog, s)
    <3>1. Calls = {} /\ prog.async /\ i = 0
      BY <1>4, <2>1, <2>6, OuterChain DEF PopsAll
    <3>2. Len(StaticHandlers(ctl)) = Len(eh)
      BY <3>1, <2>3, StaticFacts
    <3>3. InAsync /\ FunctionStart(prog, ctl) = 0
      BY <3>1, NoCall DEF InAsync
    <3>4. PopTop(eh, Len(StaticHandlers(ctl))) = <<>>
      BY <3>2 DEF PopTop
    <3>5. ctl' = <<>> /\ roots' = <<>> /\ eh' = <<>> /\ out' = "returned"
      <4>1. Return(eh)
        BY <3>1, <1>2
      <4>2. FunctionRet(<<>>)
        BY <3>3, <3>4, <4>1 DEF Return
      <4> QED BY <3>3, <4>2 DEF FunctionRet
    <3> QED BY <3>5, OverInv
  <2>7. CASE ctl[m].at = "try" /\ ~ PopsAll(prog, s)
    <3>1. HasFinally(prog, s)
      <4>1. Returns(prog, s, "try")
        BY <2>1, <2>3, <2>7 DEF Returns
      <4> QED BY <2>1, <2>7, <4>1 DEF Supported
    <3>2. i = s /\ i # 0
      BY <2>1, <2>2, <3>1
    <3>3. last = m
      <4> DEFINE S == {j \in DOMAIN ctl : ctl[j].try = i}
      <4>1. m \in S /\ \A j \in S : j <= m
        BY <2>1, <3>2
      <4>2. S \in SUBSET (0 .. m) /\ S # {} /\ m \in Nat
        <5>1. \A j \in DOMAIN ctl : j \in 0 .. m
          OBVIOUS
        <5>2. S \in SUBSET (0 .. m)
          BY <5>1
        <5> HIDE DEF S, m
        <5> QED BY <4>1, <5>2, <2>1
      <4> HIDE DEF S, m
      <4>3. Max(S) \in S /\ \A x \in S : x <= Max(S)
        BY Zenon, <4>2, MaxFacts
      <4>4. PICK x \in 0 .. m : x = Max(S)
        BY Zenon, <4>2, <4>3
      <4>5. x <= m /\ m <= x
        BY <4>1, <4>3, <4>4
      <4>6. x = m
        BY <4>2, <4>5
      <4> QED BY <4>4, <4>6 DEF S
    <3>4. SubSeq(ctl, 1, m) = ctl
      OBVIOUS
    <3>5. ctl' = MoveTo(ctl, "leave") /\ UNCHANGED <<eh, roots, out>>
      <4> HIDE DEF i, last
      <4> QED BY Zenon, <1>2, <3>2, <3>3, <3>4
    <3>6. UNCHANGED <<prog, eh, roots, out, entries>>
      BY <3>5
    <3> QED BY <1>4, <2>5, <2>7, <3>1, <3>5, <3>6, BlockInv
  <2>8. CASE ctl[m].at = "catch" /\ ~ PopsAll(prog, s)
    <3>1. HasCatch(prog, s)
      BY <2>1, <2>8, <1>0 DEF Nested
    <3>2. Returns(prog, s, "catch")
      BY <2>1, <2>3, <2>8 DEF Returns
    <3>3. ~ HasFinally(prog, s) /\ Outermost(prog, s)
      BY <2>1, <2>8, <3>1, <3>2 DEF Supported
    <3>4. i = 0
      BY <2>1, <2>2, <3>3 DEF Outermost
    <3>5. Return(eh) /\ m \notin Held
      BY <1>2, <3>4, <2>5, <2>8
    <3>6. CASE IsCall(prog, s)
      <4>1. ~ InAsync
        BY <3>6, <2>4, FunctionFacts DEF InAsync
      <4>2. FunctionRet(IF m \in Held THEN Front(eh) ELSE eh)
        BY <3>5, <4>1 DEF Return
      <4> QED BY <1>4, <2>4, <3>6, <4>2, CallReturn
    <3>7. CASE ~ IsCall(prog, s)
      <4>1. m = 1
        BY <1>4, <3>3, <3>7, AloneFacts DEF Outermost
      <4>2. Calls = {} /\ Held = {}
        BY <4>1, <3>5, <3>7, <2>4 DEF Calls, Held
      <4>3. Return(Base)
        BY <3>5, <4>2, BaseFacts
      <4> QED BY <4>2, <4>3, OuterReturn
    <3> QED BY <3>6, <3>7
  <2> QED BY <2>3, <2>6, <2>7, <2>8
<1> QED BY <1>3, <1>4

LEMMA EndInv ==
  ASSUME TryInv, Supported(prog), EndBlock
  PROVE  TryInv'
<1>1. out = "running" /\ prog' = prog /\ entries' = entries
  BY DEF EndBlock, May
<1> USE RunningFacts, <1>1
<1>0. Nested
  BY DEF TryInv
<1>2. /\ ctl = <<>> => ctl' = ctl /\ roots' = <<>> /\ out' = "normal" /\ eh' = PopTop(eh, Len(Base))
      /\ ctl # <<>> /\ Last(ctl).at \in {"try", "catch"} => Fall
      /\ ctl # <<>> /\ Last(ctl).at = "leave" => TryLeave("try")
      /\ ctl # <<>> /\ Last(ctl).at = "leaveCatch" => TryLeave("catch")
      /\ ctl # <<>> /\ Last(ctl).at \notin {"try", "catch", "leave", "leaveCatch"} => ThunkDone
  BY DEF EndBlock
<1>3. CASE ctl = <<>>
  <2>1. eh = Base
    BY <1>3, BaseFacts DEF Held
  <2>2. PopTop(eh, Len(Base)) = <<>>
    BY <2>1 DEF PopTop
  <2>3. ctl' = <<>> /\ eh' = <<>> /\ roots' = <<>> /\ out' = "normal"
    BY <1>2, <1>3, <2>2
  <2> QED BY <2>3, OverInv
<1>4. CASE ctl # <<>>
  <2> DEFINE m == Len(ctl)
  <2>1. m \in DOMAIN ctl /\ m \in Nat \ {0} /\ Last(ctl) = ctl[m] /\ ctl[m].at \in Place
    BY <1>4 DEF Last
  <2>2. m \in Held <=> ctl[m].at \in {"try", "leave", "thunk"}
    BY <2>1 DEF Held
  <2>3. CASE ctl[m].at \in {"try", "catch"}
    <3>1. Fall
      BY <1>2, <1>4, <2>1, <2>3
    <3>2. CASE HasFinally(prog, ctl[m].try)
      <4>1. UNCHANGED <<prog, eh, roots, out, entries>>
            /\ ctl' = MoveTo(ctl, IF ctl[m].at = "try" THEN "leave" ELSE "leaveCatch")
        BY <3>1, <3>2, <2>1 DEF Fall
      <4>2. CASE ctl[m].at = "try"
        BY <4>1, <4>2, <3>2, <2>2, <1>4, BlockInv
      <4>3. CASE ctl[m].at = "catch"
        <5>1. HasCatch(prog, ctl[m].try) /\ m \notin Held
          BY <4>3, <2>1, <2>2, <1>0 DEF Nested
        <5>2. ctl' = MoveTo(ctl, "leaveCatch")
          BY <4>1, <4>3
        <5> QED BY <4>1, <5>1, <5>2, <3>2, <1>4, BlockInv
      <4> QED BY <2>3, <4>2, <4>3
    <3>3. CASE ~ HasFinally(prog, ctl[m].try)
      <4>1. TryLeave(ctl[m].at)
        BY <3>1, <3>3, <2>1 DEF Fall
      <4>2. ctl[m].at = "try" <=> m \in Held
        BY <2>2, <2>3
      <4> QED BY <4>1, <4>2, <2>3, <1>4, TryLeaveInv
    <3> QED BY <3>2, <3>3
  <2>4. CASE ctl[m].at = "leave"
    BY <1>2, <1>4, <2>1, <2>2, <2>4, TryLeaveInv
  <2>5. CASE ctl[m].at = "leaveCatch"
    BY <1>2, <1>4, <2>1, <2>2, <2>5, TryLeaveInv
  <2>6. CASE ctl[m].at \notin {"try", "catch", "leave", "leaveCatch"}
    <3>1. ctl[m].at = "thunk"
      BY <2>1, <2>6 DEF Place
    <3>2. ThunkDone
      BY <1>2, <1>4, <2>1, <2>6
    <3>3. \A j \in Held : j <= m
      BY DEF Held
    <3>4. Len(eh) \in Frames /\ Len(eh) > Len(Base) /\ eh[Len(eh)].n = ctl[m].n
      BY <3>1, <3>3, <2>2, TopFrame
    <3> DEFINE S == {i \in DOMAIN eh : eh[i].n = Last(ctl).n}
               q == Len(eh)
    <3>5. q \in S /\ S \in SUBSET (0 .. q) /\ S # {} /\ q \in Nat
      <4>1. q \in DOMAIN eh /\ q \in Nat /\ DOMAIN eh = 1 .. q
        BY <3>4 DEF Frames
      <4>2. q \in S
        BY <4>1, <3>4, <2>1
      <4>3. DOMAIN eh \in SUBSET (0 .. q)
        BY <4>1
      <4> HIDE DEF q
      <4>4. S \in SUBSET (0 .. q)
        BY <4>3
      <4> QED BY <4>1, <4>2, <4>4
    <3>6. Throw(SubSeq(eh, 1, Max(S) - 1))
      BY <3>2 DEF ThunkDone
    <3> HIDE DEF S, q
    <3>7. Max(S) \in S /\ \A x \in S : x <= Max(S)
      BY Zenon, <3>5, MaxFacts
    <3>8. PICK x \in 0 .. q : x = Max(S)
      BY Zenon, <3>5, <3>7
    <3>9. x = q
      <4>1. q <= x
        BY <3>5, <3>7, <3>8
      <4> QED BY <4>1, <3>5
    <3>10. PICK l \in Len(Base) .. Len(eh) : l = q - 1
      <4>1. Len(Base) \in Nat /\ Len(eh) - 1 \in Len(Base) .. Len(eh)
        BY <3>4
      <4> QED BY Zenon, <4>1 DEF q
    <3>11. Throw(SubSeq(eh, 1, l))
      BY <3>6, <3>8, <3>9, <3>10
    <3> QED BY <3>10, <3>11, ThrowInv
  <2> QED BY <2>3, <2>4, <2>5, <2>6
<1> QED BY <1>3, <1>4

LEMMA ThrowHereInv ==
  ASSUME TryInv, ThrowHere
  PROVE  TryInv'
<1>1. out = "running" /\ prog' = prog /\ entries' = entries /\ Throw(eh)
  BY DEF ThrowHere, May
<1> USE RunningFacts, <1>1
<1>2. SubSeq(eh, 1, Len(eh)) = eh
  OBVIOUS
<1>3. PICK l \in Len(Base) .. Len(eh) : l = Len(eh)
  BY DEF TryInv, Framed
<1>4. Throw(SubSeq(eh, 1, l))
  BY Zenon, <1>2, <1>3
<1> QED BY <1>3, <1>4, ThrowInv

LEMMA TryInitInv ==
  ASSUME TryInit
  PROVE  TryInv
<1>1. ctl = <<>> /\ roots = <<>> /\ eh = Base /\ out = "running" /\ entries = 0 /\ prog \in Programs
  BY DEF TryInit
<1>2. Base \in Seq(Frame) /\ DOMAIN Base = 1 .. Len(Base) /\ Len(Base) \in Nat
  <2>1. AsyncRoot \in Frame
    BY DEF AsyncRoot, Frame
  <2>2. PICK x \in Frame : x = AsyncRoot
    BY <2>1
  <2>3. /\ <<x>> \in Seq(Frame) /\ DOMAIN <<x>> = 1 .. Len(<<x>>) /\ Len(<<x>>) \in Nat
        /\ <<>> \in Seq(Frame) /\ DOMAIN <<>> = 1 .. Len(<<>>) /\ Len(<<>>) \in Nat
    OBVIOUS
  <2> QED BY Zenon, <2>2, <2>3 DEF Base
<1>3. ctl \in Seq(Activation) /\ roots \in Seq(Root) /\ eh \in Seq(Frame) /\ DOMAIN ctl = {} /\ DOMAIN roots = {}
  BY <1>1, <1>2
<1>4. TryTypeOK
  BY <1>1, <1>3, EntriesAssumption DEF TryTypeOK
<1>5. Calls = {} /\ Held = {} /\ Frames = {}
  BY <1>1, <1>2, <1>3 DEF Calls, Held, Frames
<1>6. Nested /\ Owned /\ Rooted
  BY <1>3 DEF Nested, Owned, Rooted
<1>7. Framed /\ Checkpoints
  BY <1>1, <1>2, <1>5 DEF Framed, Checkpoints
<1> QED BY <1>1, <1>4, <1>6, <1>7 DEF TryInv

LEMMA TryStepInv ==
  ASSUME TryInv, AllSupported, [TryNext]_tryVars
  PROVE  TryInv'
<1>1. Supported(prog)
  BY DEF TryInv, AllSupported
<1>2. ASSUME NEW c \in DOMAIN prog.stmts, Enter(c) PROVE TryInv'
  BY <1>2, EnterInv
<1>3. CASE Declare
  BY <1>3, DeclareInv
<1>4. CASE EndBlock
  BY <1>1, <1>4, EndInv
<1>5. CASE ThrowHere
  BY <1>5, ThrowHereInv
<1>6. CASE ReturnHere
  BY <1>1, <1>6, ReturnInv
<1>7. CASE Await
  BY <1>1, <1>7, AwaitInv
<1>8. CASE UNCHANGED tryVars
  <2>1. prog' = prog /\ ctl' = ctl /\ eh' = eh /\ roots' = roots /\ out' = out /\ entries' = entries
    BY <1>8 DEF tryVars
  <2>2. Calls' = Calls /\ Held' = Held /\ Frames' = Frames /\ Base' = Base
    BY <2>1 DEF Calls, Held, Frames, Base
  <2>3. TryTypeOK' = TryTypeOK /\ Over' = Over
    BY <2>1 DEF TryTypeOK, Over
  <2>4. Nested => Nested'
    BY <2>1 DEF Nested
  <2>5. Framed => Framed'
    BY <2>1, <2>2 DEF Framed
  <2>6. Checkpoints => Checkpoints'
    BY <2>1, <2>2 DEF Checkpoints
  <2>7. Owned => Owned'
    BY <2>1, <2>2 DEF Owned
  <2>8. Rooted => Rooted'
    BY <2>1, <2>2 DEF Rooted, InFrame
  <2> QED BY <2>1, <2>3, <2>4, <2>5, <2>6, <2>7, <2>8 DEF TryInv
<1> QED BY <1>2, <1>3, <1>4, <1>5, <1>6, <1>7, <1>8 DEF TryNext, Done

LEMMA InvHandlers ==
  ASSUME TryInv
  PROVE  HandlersMatchControl
<1> DEFINE places == {"try", "leave", "thunk"}
           held == AtPlaces(ctl, places)
<1>1. CASE out = "running"
  <2> USE RunningFacts, <1>1
  <2>1. Holds(places)
    BY DEF Holds, Held
  <2>2. FramesOf(held)
    BY <2>1, HeldFrames
  <2> HIDE DEF held
  <2>3. Len(eh) = Len(Base) + Len(held) /\ \A j \in DOMAIN Base : eh[j] = Base[j]
    BY <2>2 DEF FramesOf, TryInv, Framed
  <2>4. \A j \in DOMAIN held : LET f == eh[Len(Base) + j] IN f.try = held[j].try /\ f.n = held[j].n
    BY <2>2 DEF FramesOf
  <2>5. (IF out = "running" THEN Base ELSE <<>>) = Base
    BY <1>1
  <2> HIDE <1>1
  <2> QED BY <2>3, <2>4, <2>5 DEF HandlersMatchControl, held
<1>2. CASE out # "running"
  <2>1. ctl = <<>> /\ eh = <<>>
    BY <1>2 DEF TryInv, Over
  <2>2. held = <<>>
    <3>1. <<>> \in Seq(Activation) /\ Rising(<<>>)
      BY DEF Rising
    <3>2. PICK s : s = AtPlaces(<<>>, places)
      OBVIOUS
    <3>3. s \in Seq(Activation) /\ Picks(s, <<>>, places, Len(<<>>))
      BY Zenon, <3>1, <3>2, AtPlacesFacts
    <3>4. \A k \in DOMAIN s : \E i \in 1 .. 0 : s[k] = <<>>[i]
      BY <3>3 DEF Picks
    <3>5. DOMAIN s = {}
      BY <3>4
    <3>6. s = <<>>
      BY <3>3, <3>5
    <3> QED BY <2>1, <3>2, <3>6
  <2> HIDE DEF held
  <2>3. (IF out = "running" THEN Base ELSE <<>>) = <<>>
    BY <1>2
  <2>4. Len(<<>>) = 0 /\ DOMAIN <<>> = {}
    OBVIOUS
  <2>5. Len(eh) = Len(<<>>) + Len(held)
    BY <2>1, <2>2, <2>4
  <2>6. \A j \in DOMAIN held : FALSE
    BY <2>2, <2>4
  <2> QED BY <2>3, <2>4, <2>5, <2>6 DEF HandlersMatchControl, held
<1> QED BY <1>1, <1>2

LEMMA RootOf ==
  ASSUME NEW x \in Root
  PROVE  [x EXCEPT !.fn = 0] = [fn |-> 0, n |-> x.n, at |-> x.at]
BY DEF Root

LEMMA InvRoots ==
  ASSUME TryInv
  PROVE  RootsMatchControl
<1>1. CASE out # "running"
  <2>1. ctl = <<>> /\ roots = <<>>
    BY <1>1 DEF TryInv, Over
  <2>2. DOMAIN <<>> = {}
    OBVIOUS
  <2> QED BY <2>1, <2>2 DEF RootsMatchControl
<1>2. CASE out = "running"
  <2> USE RunningFacts, <1>2
  <2>0. Owned /\ Rooted
    BY DEF TryInv
  <2>1. ASSUME NEW j \in DOMAIN roots
        PROVE  roots[j].fn = 0 \/ \E i \in DOMAIN ctl : ctl[i].n = roots[j].fn
    BY <2>0 DEF Owned, Calls
  <2>2. ASSUME NEW i \in DOMAIN ctl, ctl[i].local,
               ~ (prog.async /\ FunctionStart(prog, SubSeq(ctl, 1, i)) = 0)
        PROVE  \E r \in DOMAIN roots : [roots[r] EXCEPT !.fn = 0] = [fn |-> 0, n |-> ctl[i].n, at |-> ctl[i].at]
    <3> DEFINE c == SubSeq(ctl, 1, i)
    <3>1. c \in Seq(Activation) /\ Len(c) = i /\ DOMAIN c = 1 .. i /\ \A k \in 1 .. i : c[k] = ctl[k] /\ k \in DOMAIN ctl
      OBVIOUS
    <3>2. ~ InFrame(i)
      <4> SUFFICES ASSUME InFrame(i) PROVE FALSE
        OBVIOUS
      <4>1. FunctionStart(prog, c) # 0
        BY <2>2 DEF InFrame
      <4> HIDE DEF c
      <4>2. FunctionStart(prog, c) \in 0 .. Len(c) /\ Len(c) = i
            /\ (FunctionStart(prog, c) > 0 => IsCall(prog, c[FunctionStart(prog, c)].try))
        <5>1. \A x \in Seq(Activation) : FunctionStart(prog, x) \in 0 .. Len(x)
                /\ (FunctionStart(prog, x) > 0 => IsCall(prog, x[FunctionStart(prog, x)].try))
          BY StartFacts
        <5> QED BY <3>1, <5>1
      <4>3. PICK k \in 1 .. i : IsCall(prog, c[k].try)
        BY <4>1, <4>2
      <4>4. k \in Calls /\ ~ (k > i)
        BY <3>1, <4>3 DEF Calls
      <4> QED BY <4>4 DEF InFrame
    <3>3. PICK r \in DOMAIN roots : roots[r].n = ctl[i].n /\ roots[r].at = ctl[i].at
      BY <2>0, <2>2, <3>2 DEF Rooted
    <3>4. [roots[r] EXCEPT !.fn = 0] = [fn |-> 0, n |-> ctl[i].n, at |-> ctl[i].at]
      <4>1. roots[r] \in Root
        OBVIOUS
      <4>2. PICK x \in Root : x = roots[r]
        BY <4>1
      <4>3. [x EXCEPT !.fn = 0] = [fn |-> 0, n |-> x.n, at |-> x.at]
        BY RootOf
      <4> QED BY <4>2, <4>3, <3>3
    <3> QED BY <3>4
  <2> QED BY Zenon, <2>1, <2>2 DEF RootsMatchControl
<1> QED BY <1>1, <1>2

\* The types of the activations, frames and roots.
THEOREM TryTypeCorrect == AllSupported => (TrySpec => []TryTypeOK)
<1> SUFFICES ASSUME AllSupported PROVE TrySpec => []TryTypeOK
  OBVIOUS
<1>1. TryInit => TryInv
  BY TryInitInv
<1>2. TryInv /\ [TryNext]_tryVars => TryInv'
  BY TryStepInv
<1>3. TryInv => TryTypeOK
  BY DEF TryInv
<1> QED BY <1>1, <1>2, <1>3, PTL DEF TrySpec

\* Whatever leaves a try statement of a supported program, the handler stack and
\* the shadow stack of roots are those of the statements and calls still going on.
THEOREM UnwindingTheorem == AllSupported => (TrySpec => []UnwindingExact)
<1> SUFFICES ASSUME AllSupported PROVE TrySpec => []UnwindingExact
  OBVIOUS
<1>1. TryInit => TryInv
  BY TryInitInv
<1>2. TryInv /\ [TryNext]_tryVars => TryInv'
  BY TryStepInv
<1>3. TryInv => UnwindingExact
  BY InvHandlers, InvRoots DEF UnwindingExact
<1> QED BY <1>1, <1>2, <1>3, PTL DEF TrySpec

-----------------------------------------------------------------------------
(* The refinement. *)

\* The set of statements a throw may leave is a fixed point.
LEMMA EscapesFacts ==
  ASSUME NEW p \in Programs
  PROVE  \A j \in DOMAIN p.stmts :
           \/ Throws(p, j, IF HasCatch(p, j) THEN "catch" ELSE "try")
           \/ HasFinally(p, j) /\ Throws(p, j, "finally")
           => Escapes(p)[j]
<1> DEFINE D == DOMAIN p.stmts
           Main(j) == IF HasCatch(p, j) THEN "catch" ELSE "try"
           In(S, j, q) == "throw" \in Exits(p, j, q) \/ \E c \in Children(p, j, q) : c \in S
           Cond(S, j) == In(S, j, Main(j)) \/ (HasFinally(p, j) /\ In(S, j, "finally"))
           FixedBy(S) == \A j \in D : Cond(S, j) => j \in S
           X == {j \in D : \A S \in SUBSET D : FixedBy(S) => j \in S}
           Y == {j \in D : Cond(X, j)}
           Rec(f) == f = [j \in DOMAIN p.stmts |->
                            LET Out(q) == \/ "throw" \in Exits(p, j, q)
                                          \/ \E c \in Children(p, j, q) : f[c]
                            IN Out(IF HasCatch(p, j) THEN "catch" ELSE "try") \/ (HasFinally(p, j) /\ Out("finally"))]
           g == [j \in D |-> j \in X]
<1>0. \A S, T, j : (\A c \in S : c \in T) => (Cond(S, j) => Cond(T, j))
  BY Zenon
<1> HIDE DEF Cond
<1>1. ASSUME NEW j \in D, Cond(X, j) PROVE j \in X
  <2> SUFFICES ASSUME NEW S \in SUBSET D, FixedBy(S) PROVE j \in S
    OBVIOUS
  <2>1. \A c \in X : c \in S
    OBVIOUS
  <2>2. Cond(S, j)
    BY <2>1, <1>0, <1>1
  <2> QED BY <2>2
<1>2. FixedBy(Y)
  <2>1. \A c \in Y : c \in X
    BY <1>1
  <2> HIDE DEF X
  <2> QED BY <2>1, <1>0
<1>3. \A j \in D : j \in X <=> Cond(X, j)
  <2>1. X \subseteq Y
    BY Zenon, <1>2
  <2> HIDE DEF X
  <2> QED BY <1>1, <2>1
<1>4. \A q, j : Children(p, j, q) \subseteq D
  BY DEF Children
<1> HIDE DEF X
<1>5. Rec(g)
  <2> DEFINE h == [j \in D |->
                     LET Out(q) == \/ "throw" \in Exits(p, j, q)
                                   \/ \E c \in Children(p, j, q) : g[c]
                     IN Out(IF HasCatch(p, j) THEN "catch" ELSE "try") \/ (HasFinally(p, j) /\ Out("finally"))]
  <2>1. \A c \in D : g[c] = (c \in X)
    OBVIOUS
  <2>2. ASSUME NEW j \in D PROVE g[j] = h[j]
    <3>1. \A q : (\E c \in Children(p, j, q) : g[c]) <=> (\E c \in Children(p, j, q) : c \in X)
      BY Zenon, <1>4, <2>1
    <3> DEFINE Out(q) == "throw" \in Exits(p, j, q) \/ \E c \in Children(p, j, q) : g[c]
               B == Out(IF HasCatch(p, j) THEN "catch" ELSE "try") \/ (HasFinally(p, j) /\ Out("finally"))
    <3>2. B <=> Cond(X, j)
      BY <3>1 DEF Cond
    <3>3. h[j] = B
      OBVIOUS
    <3> HIDE DEF h
    <3>4. g[j] = (j \in X)
      BY <2>1
    <3> HIDE DEF B, g
    <3>5. (j \in X) <=> B
      BY <3>2, <1>3
    <3>6. (j \in X) = B
      BY Zenon, <3>5
    <3> QED BY <3>3, <3>4, <3>6
  <2>3. g = h
    BY Zenon, <2>2
  <2> QED BY <2>3
<1> DEFINE u == CHOOSE w : Rec(w)
<1>6. Rec(u)
  <2> HIDE DEF Rec
  <2> QED BY <1>5
<1>7. Escapes(p) = u
  BY DEF Escapes
<1> HIDE DEF u
<1>8. \A j \in D : u[j] = LET Out(q) == \/ "throw" \in Exits(p, j, q)
                                        \/ \E c \in Children(p, j, q) : u[c]
                          IN Out(IF HasCatch(p, j) THEN "catch" ELSE "try") \/ (HasFinally(p, j) /\ Out("finally"))
  BY <1>6
<1> QED BY Zenon, <1>7, <1>8 DEF Throws

LEMMA ThrowsFacts ==
  ASSUME NEW p \in Programs, NEW i, NEW r, NEW c \in Children(p, i, r),
         \/ Throws(p, c, IF HasCatch(p, c) THEN "catch" ELSE "try")
         \/ HasFinally(p, c) /\ Throws(p, c, "finally")
  PROVE  Throws(p, i, r)
<1>1. c \in DOMAIN p.stmts
  BY DEF Children
<1>2. Escapes(p)[c]
  BY <1>1, EscapesFacts
<1> QED BY <1>2 DEF Throws

LEMMA MaxIs ==
  ASSUME NEW N \in Nat, NEW S \in SUBSET (0 .. N), NEW i \in S, \A x \in S : x <= i
  PROVE  Max(S) = i
<1>1. Max(S) \in S /\ \A x \in S : x <= Max(S)
  BY MaxFacts
<1>2. PICK m \in 0 .. N : m = Max(S)
  BY Zenon, <1>1
<1>3. m <= i /\ i <= m /\ i \in Nat
  BY <1>1, <1>2
<1> QED BY <1>2, <1>3

LEMMA SourceSame ==
  /\ \A p, i : Source!HasCatch(p, i) = HasCatch(p, i)
  /\ \A p, i : Source!HasFinally(p, i) = HasFinally(p, i)
  /\ \A p, i : Source!IsCall(p, i) = IsCall(p, i)
  /\ \A p, i, r : Source!Exits(p, i, r) = Exits(p, i, r)
  /\ \A p, i, r : Source!Children(p, i, r) = Children(p, i, r)
  /\ \A p, n : Source!FunctionStart(p, n) = FunctionStart(p, n)
  /\ \A S : Source!Max(S) = Max(S)
  /\ \A s : Source!Front(s) = Front(s)
  /\ \A s : Source!Last(s) = Last(s)
  /\ Source!Completion = Completion
<1>1. \A p, i : Source!HasCatch(p, i) = HasCatch(p, i)
  BY DEF Source!HasCatch, HasCatch
<1>2. \A p, i : Source!HasFinally(p, i) = HasFinally(p, i)
  BY DEF Source!HasFinally, HasFinally
<1>3. \A p, i : Source!IsCall(p, i) = IsCall(p, i)
  BY DEF Source!IsCall, IsCall
<1>4. Source!Completion = Completion
  BY DEF Source!Completion, Completion
<1>5. \A p, i, r : Source!Exits(p, i, r) = Exits(p, i, r)
  BY <1>4 DEF Source!Exits, Exits
<1>6. \A p, i, r : Source!Children(p, i, r) = Children(p, i, r)
  BY DEF Source!Children, Children
<1>7. \A S : Source!Max(S) = Max(S)
  BY DEF Source!Max, Max
<1>8. \A p, n : Source!FunctionStart(p, n) = FunctionStart(p, n)
  BY <1>3, <1>7 DEF Source!FunctionStart, FunctionStart
<1>9. \A s : Source!Front(s) = Front(s)
  BY DEF Source!Front, Front
<1>10. \A s : Source!Last(s) = Last(s)
  BY DEF Source!Last, Last
<1> QED BY <1>1, <1>2, <1>3, <1>4, <1>5, <1>6, <1>7, <1>8, <1>9, <1>10

\* What a statement's entry in the source's nest may be.
Meanings == {Meaning(a) : a \in Activation}

LEMMA MeaningFacts ==
  ASSUME NEW a
  PROVE  /\ Meaning(a).try = a.try /\ Meaning(a).at = SourceRegion(a.at) /\ Meaning(a).pend = Pending(a)
         /\ Meaning(a) = [try |-> a.try, at |-> SourceRegion(a.at), pend |-> Pending(a)]
<1> HIDE DEF Pending, SourceRegion
<1> QED BY DEF Meaning

LEMMA NestFacts ==
  ASSUME ctl \in Seq(Activation)
  PROVE  /\ Nest \in Seq(Meanings) /\ Len(Nest) = Len(ctl) /\ DOMAIN Nest = DOMAIN ctl
         /\ \A j \in DOMAIN ctl : Nest[j] = Meaning(ctl[j])
         /\ Nest = <<>> <=> ctl = <<>>
         /\ Source!Here = Here /\ Source!At = At
         /\ FunctionStart(prog, Nest) = FunctionStart(prog, ctl)
<1>1. DOMAIN ctl = 1 .. Len(ctl) /\ Len(ctl) \in Nat /\ \A j \in DOMAIN ctl : ctl[j] \in Activation
  OBVIOUS
<1>2. DOMAIN Nest = DOMAIN ctl /\ \A j \in DOMAIN ctl : Nest[j] = Meaning(ctl[j])
  BY DEF Nest
<1>3. Nest \in Seq(Meanings) /\ Len(Nest) = Len(ctl)
  <2>1. PICK n \in Nat : n = Len(ctl)
    BY Zenon, <1>1
  <2>2. \A j \in 1 .. n : Meaning(ctl[j]) \in Meanings
    BY <2>1, <1>1 DEF Meanings
  <2>3. Nest = [j \in 1 .. n |-> Meaning(ctl[j])]
    BY <2>1, <1>1 DEF Nest
  <2>4. Nest \in [1 .. n -> Meanings]
    BY <2>2, <2>3
  <2>5. DOMAIN Nest = 1 .. n
    BY <2>4
  <2> QED BY <2>1, <2>4, <2>5
<1>4. Nest = <<>> <=> ctl = <<>>
  BY <1>1, <1>3
<1>5. Source!Here = Here /\ Source!At = At
  <2>1. CASE ctl = <<>>
    BY <2>1, <1>4 DEF Source!Here, Source!At, Here, At
  <2>2. CASE ctl # <<>>
    <3>1. Last(Nest) = Meaning(Last(ctl))
      BY <2>2, <1>1, <1>2, <1>3 DEF Last
    <3>2. Last(Nest).try = Last(ctl).try /\ Last(Nest).at = SourceRegion(Last(ctl).at)
      BY <3>1, MeaningFacts
    <3> QED BY <2>2, <3>2, <1>4, SourceSame DEF Source!Here, Source!At, Here, At
  <2> QED BY <2>1, <2>2
<1>6. FunctionStart(prog, Nest) = FunctionStart(prog, ctl)
  <2>1. \A j \in DOMAIN ctl : Nest[j].try = ctl[j].try
    BY <1>2, MeaningFacts
  <2>2. {j \in DOMAIN Nest : IsCall(prog, Nest[j].try)} = {j \in DOMAIN ctl : IsCall(prog, ctl[j].try)}
    BY <1>2, <2>1
  <2> QED BY Zenon, <2>2 DEF FunctionStart
<1> QED BY <1>2, <1>3, <1>4, <1>5, <1>6

\* The n outermost statements are where they were.
Remains(n) ==
  /\ ctl' \in Seq(Activation) /\ n <= Len(ctl') /\ prog' = prog
  /\ \A j \in 1 .. n : ctl'[j].try = ctl[j].try /\ ctl'[j].at = ctl[j].at

LEMMA NestRemains ==
  ASSUME ctl \in Seq(Activation), NEW n \in 0 .. Len(ctl), Remains(n)
  PROVE  /\ Len(ctl') = n => Nest' = SubSeq(Nest, 1, n)
         /\ Len(ctl') = n + 1 => Nest' = Append(SubSeq(Nest, 1, n), Meaning(ctl'[n + 1]))
<1>1. /\ Nest \in Seq(Meanings) /\ Len(Nest) = Len(ctl)
      /\ \A j \in DOMAIN ctl : Nest[j] = Meaning(ctl[j])
  BY NestFacts
<1>2. /\ DOMAIN ctl = 1 .. Len(ctl) /\ Len(ctl) \in Nat /\ n \in Nat
      /\ DOMAIN ctl' = 1 .. Len(ctl') /\ Len(ctl') \in Nat
  BY DEF Remains
<1>3. \A a : Meaning(a)' = Meaning(a)
  BY DEF Remains, Meaning, Pending, SourceRegion, Region
<1>4. Nest' = [j \in DOMAIN ctl' |-> Meaning(ctl'[j])]
  BY DEF Remains, Nest, Meaning, Pending
<1>5. \A j \in 1 .. n : Meaning(ctl'[j]) = Meaning(ctl[j])
  <2> TAKE j \in 1 .. n
  <2>1. ctl'[j].try = ctl[j].try /\ ctl'[j].at = ctl[j].at
    BY DEF Remains
  <2> QED BY <2>1 DEF Meaning, Pending
<1>6. \A j \in DOMAIN ctl' : Meaning(ctl'[j]) \in Meanings
  BY DEF Remains, Meanings
<1> DEFINE t == SubSeq(Nest, 1, n)
<1>7. t \in Seq(Meanings) /\ Len(t) = n /\ \A j \in 1 .. n : t[j] = Meaning(ctl[j])
  BY <1>1, <1>2
<1> HIDE DEF t
<1>8. Nest' \in Seq(Meanings) /\ Len(Nest') = Len(ctl') /\ \A j \in DOMAIN ctl' : Nest'[j] = Meaning(ctl'[j])
  <2>1. PICK m \in Nat : m = Len(ctl')
    BY Zenon, <1>2
  <2>2. PICK s : s = Nest'
    OBVIOUS
  <2>3. s \in [1 .. m -> Meanings] /\ \A j \in 1 .. m : s[j] = Meaning(ctl'[j])
    BY <1>2, <1>4, <1>6, <2>1, <2>2
  <2>4. DOMAIN s = 1 .. m
    BY <2>3
  <2>5. s \in Seq(Meanings) /\ Len(s) = m
    BY <2>3, <2>4
  <2> QED BY <1>2, <2>1, <2>2, <2>3, <2>5
<1>9. PICK s \in Seq(Meanings) : s = Nest'
  BY <1>8
<1>10. Len(s) = Len(ctl') /\ \A j \in 1 .. Len(ctl') : s[j] = Meaning(ctl'[j])
  BY <1>2, <1>8, <1>9
<1>11. ASSUME Len(ctl') = n PROVE s = t
  BY <1>2, <1>5, <1>7, <1>10, <1>11
<1>12. ASSUME Len(ctl') = n + 1 PROVE s = Append(t, Meaning(ctl'[n + 1]))
  <2>1. PICK x \in Meanings : x = Meaning(ctl'[n + 1])
    BY <1>2, <1>6, <1>12
  <2>2. Append(t, x) \in Seq(Meanings) /\ Len(Append(t, x)) = n + 1 /\ Append(t, x)[n + 1] = x
        /\ \A j \in 1 .. n : Append(t, x)[j] = t[j]
    BY <1>2, <1>7
  <2>3. \A j \in 1 .. n : s[j] = t[j]
    BY <1>2, <1>5, <1>7, <1>10, <1>12
  <2>4. s[n + 1] = x
    BY <1>2, <1>10, <1>12, <2>1
  <2>5. PICK v \in Seq(Meanings) : v = Append(t, x)
    BY Zenon, <2>2
  <2>6. Len(s) = n + 1 /\ Len(v) = n + 1 /\ \A j \in 1 .. n + 1 : s[j] = v[j]
    BY <1>2, <1>10, <1>12, <2>2, <2>3, <2>4, <2>5
  <2>7. s = v
    BY <1>2, <2>6
  <2> QED BY <2>1, <2>5, <2>7
<1> QED BY <1>9, <1>11, <1>12 DEF t

\* Which statements take a completion, in terms of the activations.
LEMMA TakesFacts ==
  ASSUME TryInv, out = "running", NEW j \in DOMAIN ctl
  PROVE  /\ Source!Takes(Nest[j], "throw") <=>
              \/ ctl[j].at = "try"
              \/ ctl[j].at = "catch" /\ HasFinally(prog, ctl[j].try)
         /\ Source!Takes(Nest[j], "return") <=>
              ctl[j].at \in {"try", "catch"} /\ HasFinally(prog, ctl[j].try)
         /\ Source!Catches(Nest[j], "throw") <=> ctl[j].at = "try" /\ HasCatch(prog, ctl[j].try)
         /\ ~ Source!Catches(Nest[j], "return")
<1> USE RunningFacts
<1>1. Nest[j].try = ctl[j].try /\ Nest[j].at = SourceRegion(ctl[j].at)
  BY NestFacts, MeaningFacts
<1>2. ctl[j].at \in {"try", "catch"} <=> Nest[j].at \in {"try", "catch"}
  BY <1>1 DEF SourceRegion, Region
<1>3. ctl[j].at \in {"try", "catch"} => Nest[j].at = ctl[j].at
  BY <1>1 DEF SourceRegion, Region
<1>4. HasCatch(prog, ctl[j].try) \/ HasFinally(prog, ctl[j].try)
  BY StatementFacts
<1>5. \A k : Source!Catches(Nest[j], k) <=> k = "throw" /\ Nest[j].at = "try" /\ HasCatch(prog, ctl[j].try)
  BY <1>1, SourceSame DEF Source!Catches
<1>6. \A k : Source!Takes(Nest[j], k) <=>
               Nest[j].at \in {"try", "catch"} /\ (Source!Catches(Nest[j], k) \/ HasFinally(prog, ctl[j].try))
  BY <1>1, SourceSame DEF Source!Takes
<1> QED BY <1>2, <1>3, <1>4, <1>5, <1>6

\* A throw may leave the region in which activation j is.
EscapesAt(j) == Throws(prog, ctl[j].try, SourceRegion(ctl[j].at))

\* A finally block runs in a thunk only when a throw left the try body and no
\* catch clause took it.
Thunks ==
  \A j \in DOMAIN ctl : ctl[j].at = "thunk" =>
    ~ HasCatch(prog, ctl[j].try) /\ Throws(prog, ctl[j].try, "try")

\* A throw passes a region that is no try body: a catch clause without a
\* finally block.
LEMMA ThrowPasses ==
  ASSUME TryInv, out = "running", Supported(prog), NEW j \in DOMAIN ctl, ctl[j].at # "try", EscapesAt(j)
  PROVE  /\ ctl[j].at = "catch" /\ ~ HasFinally(prog, ctl[j].try)
         /\ j > 1 => EscapesAt(j - 1)
<1> USE RunningFacts
<1>0. Nested
  BY DEF TryInv
<1>1. PICK s \in DOMAIN prog.stmts : s = ctl[j].try
  OBVIOUS
<1>2. ~ Throws(prog, s, "finally")
  BY DEF Supported
<1>3. ctl[j].at = "catch"
  <2>1. SourceRegion(ctl[j].at) # "finally"
    BY <1>1, <1>2 DEF EscapesAt
  <2> QED BY <2>1 DEF SourceRegion, Region
<1>4. HasCatch(prog, s) /\ Throws(prog, s, "catch")
  BY <1>0, <1>1, <1>3 DEF Nested, EscapesAt, SourceRegion, Region
<1>5. ~ HasFinally(prog, s)
  BY <1>4 DEF Supported
<1>6. ASSUME j > 1 PROVE EscapesAt(j - 1)
  <2>1. s \in Children(prog, ctl[j - 1].try, SourceRegion(ctl[j - 1].at))
    BY <1>0, <1>1, <1>6 DEF Nested
  <2> QED BY <2>1, <1>4, ThrowsFacts DEF EscapesAt
<1> QED BY <1>1, <1>3, <1>5, <1>6

\* On its way to the innermost try body a throw passes only such clauses.
LEMMA ThrowReaches ==
  ASSUME TryInv, out = "running", Supported(prog), NEW a \in 0 .. Len(ctl), a > 0 => EscapesAt(a),
         NEW i \in 0 .. a, \A j \in i + 1 .. a : ctl[j].at # "try"
  PROVE  /\ \A j \in i + 1 .. a : ctl[j].at = "catch" /\ ~ HasFinally(prog, ctl[j].try)
         /\ i > 0 => EscapesAt(i)
<1> USE RunningFacts
<1>0. a \in Nat /\ i \in Nat /\ \A j \in i + 1 .. a : j \in DOMAIN ctl /\ j \in Nat
  OBVIOUS
<1> DEFINE T == {j \in 0 .. a : j >= i /\ j > 0 /\ ~ EscapesAt(j)}
<1>1. T = {}
  <2> SUFFICES ASSUME T # {} PROVE FALSE
    OBVIOUS
  <2>0. T # {}
    OBVIOUS
  <2>1. PICK g \in T : \A x \in T : x <= g
    <3>1. T \in SUBSET (0 .. a)
      OBVIOUS
    <3> HIDE DEF T
    <3>2. Max(T) \in T /\ \A x \in T : x <= Max(T)
      BY Zenon, <1>0, <2>0, <3>1, MaxFacts
    <3> QED BY <3>2
  <2>2. g \in 0 .. a /\ g >= i /\ g > 0 /\ ~ EscapesAt(g)
    OBVIOUS
  <2>3. g # a
    BY <2>2
  <2>4. PICK h \in 0 .. a : h = g + 1
    BY <2>2, <2>3
  <2>5. h > 0 /\ h >= i /\ h > 1 /\ h - 1 = g /\ ~ (h <= g) /\ h \in i + 1 .. a
    BY <2>2, <2>4
  <2>6. EscapesAt(h)
    <3>1. h \notin T
      BY <2>1, <2>5
    <3> QED BY <3>1, <2>5
  <2>7. EscapesAt(h - 1)
    BY Zenon, <1>0, <2>5, <2>6, ThrowPasses
  <2> QED BY <2>2, <2>5, <2>7
<1>2. \A j \in 0 .. a : j >= i /\ j > 0 => EscapesAt(j)
  BY <1>1
<1>3. ASSUME NEW j \in i + 1 .. a PROVE ctl[j].at = "catch" /\ ~ HasFinally(prog, ctl[j].try)
  <2>1. j \in DOMAIN ctl /\ j \in 0 .. a /\ j >= i /\ j > 0
    BY <1>0
  <2>2. EscapesAt(j)
    BY <1>2, <2>1
  <2>3. ctl[j].at # "try"
    OBVIOUS
  <2> QED BY <2>1, <2>2, <2>3, ThrowPasses
<1>4. i > 0 => EscapesAt(i)
  BY <1>0, <1>2
<1> QED BY <1>3, <1>4

\* The completion takes effect at statement i.
LEMMA LeaveTaken ==
  ASSUME ctl \in Seq(Activation), NEW k \in {"throw", "return"}, NEW i \in DOMAIN ctl,
         Source!Takes(Nest[i], k), k = "return" => i >= FunctionStart(prog, ctl),
         \A j \in DOMAIN ctl : Source!Takes(Nest[j], k) => j <= i,
         Nest' = Append(SubSeq(Nest, 1, i - 1),
                        IF Source!Catches(Nest[i], k)
                        THEN [Nest[i] EXCEPT !.at = "catch"]
                        ELSE [Nest[i] EXCEPT !.at = "finally", !.pend = k]),
         out' = out
  PROVE  Source!Leave(Nest, k)
<1> DEFINE start == FunctionStart(prog, ctl)
           S == {j \in DOMAIN ctl : Source!Takes(Nest[j], k) /\ (k = "return" => j >= start)}
<1>1. DOMAIN Nest = DOMAIN ctl /\ Source!FunctionStart(prog, Nest) = start
  BY NestFacts, SourceSame
<1>2. Max(S) = i
  <2>1. i \in S /\ \A j \in S : j <= i
    OBVIOUS
  <2>2. S \in SUBSET (0 .. Len(ctl)) /\ Len(ctl) \in Nat
    OBVIOUS
  <2> HIDE DEF S
  <2> QED BY Zenon, <2>1, <2>2, MaxIs
<1>3. i \in S
  OBVIOUS
<1> DEFINE W == {j \in DOMAIN Nest : Source!Takes(Nest[j], k) /\ (k = "return" => j >= Source!FunctionStart(prog, Nest))}
<1>4. W = S
  BY <1>1
<1> HIDE DEF S
<1>5. W # {} /\ Source!Max(W) = i
  BY Zenon, <1>2, <1>3, <1>4, SourceSame
<1> QED BY Zenon, <1>5 DEF Source!Leave

\* No statement of the function, or none at all, takes the completion.
LEMMA LeaveAll ==
  ASSUME ctl \in Seq(Activation), NEW k \in {"throw", "return"},
         \A j \in DOMAIN ctl : (k = "return" /\ j < FunctionStart(prog, ctl)) \/ ~ Source!Takes(Nest[j], k),
         IF k = "return" /\ FunctionStart(prog, ctl) > 0
         THEN Nest' = SubSeq(Nest, 1, FunctionStart(prog, ctl) - 1) /\ out' = out
         ELSE Nest' = <<>> /\ out' = (IF k = "throw" THEN "threw" ELSE "returned")
  PROVE  Source!Leave(Nest, k)
<1> DEFINE start == FunctionStart(prog, ctl)
<1>1. DOMAIN Nest = DOMAIN ctl /\ Source!FunctionStart(prog, Nest) = start /\ start \in Nat
  BY NestFacts, SourceSame, StartFacts
<1> DEFINE W == {j \in DOMAIN Nest : Source!Takes(Nest[j], k) /\ (k = "return" => j >= Source!FunctionStart(prog, Nest))}
<1>2. W = {}
  <2>1. \A j \in DOMAIN ctl : j \in Nat
    OBVIOUS
  <2> HIDE DEF start
  <2> QED BY <1>1, <2>1 DEF start
<1> QED BY <1>1, <1>2 DEF Source!Leave

LEMMA ThunksRemain ==
  ASSUME Thunks, ctl \in Seq(Activation), NEW n \in 0 .. Len(ctl), Remains(n),
         \/ Len(ctl') = n
         \/ /\ Len(ctl') = n + 1
            /\ ctl'[n + 1].at = "thunk" =>
                 ~ HasCatch(prog, ctl'[n + 1].try) /\ Throws(prog, ctl'[n + 1].try, "try")
  PROVE  Thunks'
<1>1. prog' = prog /\ \A j \in 1 .. n : ctl'[j].try = ctl[j].try /\ ctl'[j].at = ctl[j].at
  BY DEF Remains
<1>2. \A j \in 1 .. n : ctl'[j].at = "thunk" =>
        ~ HasCatch(prog, ctl'[j].try) /\ Throws(prog, ctl'[j].try, "try")
  <2> TAKE j \in 1 .. n
  <2>1. j \in DOMAIN ctl
    OBVIOUS
  <2>2. ctl'[j].try = ctl[j].try /\ ctl'[j].at = ctl[j].at
    BY <1>1
  <2> QED BY Zenon, <2>1, <2>2 DEF Thunks
<1>3. \A j \in DOMAIN ctl' : j \in 1 .. n \/ (j = n + 1 /\ Len(ctl') = n + 1)
  BY DEF Remains
<1>4. ASSUME NEW j \in DOMAIN ctl', ctl'[j].at = "thunk"
      PROVE  ~ HasCatch(prog, ctl'[j].try) /\ Throws(prog, ctl'[j].try, "try")
  BY <1>2, <1>3, <1>4
<1> QED BY <1>1, <1>4 DEF Thunks

\* The innermost of m activations goes on in another block.
LEMMA MovedNest ==
  ASSUME TryInv, out = "running", Thunks, NEW m \in DOMAIN ctl, NEW place \in Place,
         ctl' = MoveTo(SubSeq(ctl, 1, m), place), prog' = prog,
         place = "thunk" => ~ HasCatch(prog, ctl[m].try) /\ Throws(prog, ctl[m].try, "try")
  PROVE  /\ Thunks'
         /\ Nest' = Append(SubSeq(Nest, 1, m - 1),
                           Meaning([try |-> ctl[m].try, at |-> place, n |-> ctl[m].n,
                                    cp |-> ctl[m].cp, local |-> FALSE]))
<1> USE RunningFacts
<1> DEFINE c == SubSeq(ctl, 1, m)
<1>1. c \in Seq(Activation) /\ c # <<>> /\ Len(c) = m /\ m \in Nat \ {0} /\ \A i \in 1 .. m : c[i] = ctl[i]
  OBVIOUS
<1>2. ctl' = MoveTo(c, place)
  OBVIOUS
<1> HIDE DEF c
<1>3. /\ ctl' \in Seq(Activation) /\ Len(ctl') = m
      /\ \A i \in 1 .. m - 1 : ctl'[i] = ctl[i]
      /\ ctl'[m].try = ctl[m].try /\ ctl'[m].at = place
  <2>1. /\ MoveTo(c, place) \in Seq(Activation) /\ Len(MoveTo(c, place)) = Len(c)
        /\ \A i \in 1 .. Len(c) - 1 : MoveTo(c, place)[i] = c[i]
        /\ MoveTo(c, place)[Len(c)].try = c[Len(c)].try
        /\ MoveTo(c, place)[Len(c)].at = place
    <3> HIDE RunningFacts
    <3> QED BY Zenon, <1>1, MoveFacts
  <2>2. \A i \in 1 .. m - 1 : i \in 1 .. m
    BY <1>1
  <2>3. \A i \in 1 .. m - 1 : ctl'[i] = ctl[i]
    BY <1>1, <1>2, <2>1, <2>2
  <2>4. c[m] = ctl[m]
    BY <1>1
  <2> QED BY <1>1, <1>2, <2>1, <2>3, <2>4
<1>4. PICK n \in 0 .. Len(ctl) : n = m - 1
  BY <1>1
<1>5. Len(ctl') = n + 1 /\ n + 1 = m
  BY <1>1, <1>3, <1>4
<1>6. Remains(n)
  BY <1>1, <1>3, <1>4, <1>5 DEF Remains
<1>7. Thunks'
  BY <1>3, <1>5, <1>6, ThunksRemain
<1>8. Nest' = Append(SubSeq(Nest, 1, n), Meaning(ctl'[m]))
  BY <1>5, <1>6, NestRemains
<1>9. Meaning(ctl'[m]) = Meaning([try |-> ctl[m].try, at |-> place, n |-> ctl[m].n,
                                  cp |-> ctl[m].cp, local |-> FALSE])
  BY <1>3 DEF Meaning, Pending
<1> QED BY <1>4, <1>7, <1>8, <1>9

\* A throw that leaves the region of activation a, when the code of the inner
\* activations is over, as the handler stack has it.
LEMMA ThrowSource ==
  ASSUME TryInv, out = "running", Supported(prog), Thunks, prog' = prog,
         NEW a \in 0 .. Len(ctl), a > 0 => EscapesAt(a),
         \A j \in DOMAIN ctl : j > a => ctl[j].at \notin {"try", "catch"},
         NEW l \in Len(Base) .. Len(eh), Throw(SubSeq(eh, 1, l)),
         \A i \in Held, k \in Frames : eh[k].n = ctl[i].n => (k <= l <=> i <= a)
  PROVE  Source!Leave(Nest, "throw") /\ Thunks'
<1> USE RunningFacts
<1>0. Nested /\ Framed /\ Checkpoints
  BY DEF TryInv
<1> DEFINE e == SubSeq(eh, 1, l)
<1>1. e \in Seq(Frame) /\ Len(e) = l /\ l \in Nat /\ \A k \in 1 .. l : e[k] = eh[k] /\ k \in DOMAIN eh
  OBVIOUS
<1>2. Throw(e)
  OBVIOUS
<1> HIDE DEF e
<1>a. a \in Nat /\ \A j \in DOMAIN ctl : j \in Nat /\ (j <= a \/ j > a)
  OBVIOUS
<1>3. CASE l = Len(Base)
  <2>1. \A i \in Held : ~ (i <= a)
    <3> TAKE i \in Held
    <3>1. PICK k \in Frames : eh[k].n = ctl[i].n
      BY <1>0 DEF Framed
    <3>2. ~ (k <= l)
      BY <1>1, <1>3, <3>1 DEF Frames
    <3> QED BY <3>1, <3>2
  <2>2. \A j \in 0 + 1 .. a : ctl[j].at # "try"
    <3> TAKE j \in 0 + 1 .. a
    <3>1. j \in DOMAIN ctl /\ j <= a
      OBVIOUS
    <3> QED BY <3>1, <2>1 DEF Held
  <2>3. \A j \in 0 + 1 .. a : ctl[j].at = "catch" /\ ~ HasFinally(prog, ctl[j].try)
    <3>1. 0 \in 0 .. a
      BY <1>a
    <3> HIDE DEF EscapesAt
    <3> QED BY <2>2, <3>1, ThrowReaches
  <2>4. \A j \in DOMAIN ctl : ~ Source!Takes(Nest[j], "throw")
    <3> TAKE j \in DOMAIN ctl
    <3>1. CASE j > a
      <4>1. ctl[j].at \notin {"try", "catch"}
        BY <3>1
      <4> QED BY <4>1, TakesFacts
    <3>2. CASE j <= a
      <4>1. ctl[j].at = "catch" /\ ~ HasFinally(prog, ctl[j].try)
        BY <2>3, <3>2
      <4> QED BY <4>1, TakesFacts
    <3> QED BY <1>a, <3>1, <3>2
  <2>5. ctl' = <<>> /\ out' = "threw"
    <3>1. CASE e = <<>>
      BY <1>2, <3>1 DEF Throw
    <3>2. CASE e # <<>>
      <4>1. prog.async /\ l = 1 /\ Last(e) = e[1] /\ e[1] = eh[1]
        <5>1. l # 0
          BY <1>1, <3>2
        <5>2. prog.async /\ l = 1
          BY <1>3, <5>1
        <5>3. Last(e) = e[1] /\ e[1] = eh[1]
          BY <1>1, <5>2 DEF Last
        <5> QED BY Zenon, <5>2, <5>3
      <4>2. 1 \in DOMAIN Base /\ Base[1] = AsyncRoot
        BY <4>1
      <4>3. eh[1] = Base[1]
        BY <4>2, <1>0 DEF Framed
      <4>4. Last(e) = AsyncRoot
        BY <4>1, <4>2, <4>3
      <4> QED BY <1>2, <3>2, <4>4 DEF Throw
    <3> QED BY <3>1, <3>2
  <2>6. Nest' = <<>>
    BY <2>5 DEF Nest
  <2>7. Thunks'
    BY <2>5 DEF Thunks
  <2> QED BY <2>4, <2>5, <2>6, <2>7, LeaveAll
<1>4. CASE l # Len(Base)
  <2>1. l > 0 /\ Last(e) = e[l] /\ e[l] = eh[l] /\ l \in DOMAIN eh /\ e # <<>>
    BY <1>1, <1>4 DEF Last
  <2>2. l \in Frames
    BY <2>1, <1>1, <1>4 DEF Frames
  <2>3. PICK i \in Held : /\ eh[l].n = ctl[i].n /\ eh[l].try = ctl[i].try
                          /\ Owner(eh[l]) = {i} /\ Max(Owner(eh[l])) = i
    BY Zenon, <2>2, OwnerFacts
  <2>4. i \in DOMAIN ctl /\ ctl[i].n \in Nat \ {0} /\ ctl[i].try \in DOMAIN prog.stmts
    BY DEF Held
  <2>5. i <= a /\ i \in 1 .. a
    <3>1. i <= a
      BY <1>1, <2>2, <2>3
    <3> QED BY <3>1, <2>4
  <2>6. \A j \in i + 1 .. a : j \notin Held
    <3> TAKE j \in i + 1 .. a
    <3> SUFFICES ASSUME j \in Held PROVE FALSE
      OBVIOUS
    <3>1. PICK k \in Frames : eh[k].n = ctl[j].n
      BY <1>0 DEF Framed
    <3>2. k <= l
      BY <3>1
    <3>3. eh[k].n <= eh[l].n /\ k \in DOMAIN eh
      <4>1. k \in DOMAIN eh /\ k \in Nat /\ l \in Nat /\ l \in DOMAIN eh
        BY <2>2 DEF Frames
      <4>2. k < l \/ k = l
        BY <3>2, <4>1
      <4>3. k < l => eh[k].n < eh[l].n
        BY Zenon, <2>2, <1>0 DEF Framed
      <4> QED BY <4>1, <4>2, <4>3
    <3>4. ctl[i].n < ctl[j].n
      <4>1. i < j /\ j \in DOMAIN ctl
        BY <2>4
      <4> QED BY <4>1, <2>4, <1>0 DEF Nested
    <3>5. j \in DOMAIN ctl
      BY DEF Held
    <3> QED BY <2>3, <2>4, <3>1, <3>3, <3>4, <3>5
  <2>7. \A j \in i + 1 .. a : ctl[j].at # "try"
    <3> TAKE j \in i + 1 .. a
    <3>1. j \in DOMAIN ctl
      BY <2>4
    <3> QED BY <3>1, <2>6 DEF Held
  <2>8. /\ \A j \in i + 1 .. a : ctl[j].at = "catch" /\ ~ HasFinally(prog, ctl[j].try)
        /\ EscapesAt(i)
    <3>1. i \in 0 .. a /\ i > 0
      BY <2>5
    <3> HIDE DEF EscapesAt
    <3> QED BY <2>7, <3>1, ThrowReaches
  <2>9. ctl[i].at = "try"
    <3> SUFFICES ASSUME ctl[i].at # "try" PROVE FALSE
      OBVIOUS
    <3>1. ctl[i].at = "catch"
      BY <2>4, <2>8, ThrowPasses
    <3> QED BY <3>1 DEF Held
  <2>10. /\ Source!Takes(Nest[i], "throw")
         /\ Source!Catches(Nest[i], "throw") <=> HasCatch(prog, ctl[i].try)
         /\ \A j \in DOMAIN ctl : Source!Takes(Nest[j], "throw") => j <= i
    <3>1. \A j \in DOMAIN ctl : Source!Takes(Nest[j], "throw") => j <= i
      <4> TAKE j \in DOMAIN ctl
      <4> SUFFICES ASSUME Source!Takes(Nest[j], "throw") PROVE j <= i
        OBVIOUS
      <4>1. ctl[j].at = "try" \/ (ctl[j].at = "catch" /\ HasFinally(prog, ctl[j].try))
        BY TakesFacts
      <4>2. j <= a
        BY <4>1, <1>a
      <4>3. j \notin i + 1 .. a
        BY <4>1, <2>8, <2>7
      <4> QED BY <4>2, <4>3, <1>a, <2>4
    <3> QED BY <3>1, <2>4, <2>9, TakesFacts
  <2>11. Last(e) # AsyncRoot
    BY <2>1, <2>3, <2>4 DEF AsyncRoot
  <2>12. ~ (eh[l].cp > Len(roots))
    <3>1. eh[l].cp \in 0 .. Len(roots)
      BY <2>2, <1>0 DEF Checkpoints
    <3> QED BY <3>1
  <2>13. /\ out' = out
         /\ HasCatch(prog, ctl[i].try) => ctl' = MoveTo(SubSeq(ctl, 1, i), "catch")
         /\ ~ HasCatch(prog, ctl[i].try) => ctl' = MoveTo(SubSeq(ctl, 1, i), "thunk")
    <3>1. Owner(eh[l]) # {}
      BY <2>3
    <3> QED BY <3>1, <1>2, <2>1, <2>3, <2>11, <2>12 DEF Throw
  <2>14. Nest[i] = [try |-> ctl[i].try, at |-> "try", pend |-> "none"]
    BY <2>4, <2>9, NestFacts DEF Meaning, SourceRegion, Region, Pending
  <2>15. CASE HasCatch(prog, ctl[i].try)
    <3> DEFINE t == [try |-> ctl[i].try, at |-> "catch", n |-> ctl[i].n, cp |-> ctl[i].cp, local |-> FALSE]
    <3>1. ctl' = MoveTo(SubSeq(ctl, 1, i), "catch") /\ "catch" \in Place
      BY <2>13, <2>15 DEF Place
    <3>2. Thunks' /\ Nest' = Append(SubSeq(Nest, 1, i - 1), Meaning(t))
      BY Zenon, <2>4, <3>1, MovedNest
    <3>3. Meaning(t) = [try |-> ctl[i].try, at |-> "catch", pend |-> "none"]
      BY DEF Meaning, SourceRegion, Region, Pending
    <3>4. Meaning(t) = [Nest[i] EXCEPT !.at = "catch"]
      BY <3>3, <2>14
    <3>5. Nest' = Append(SubSeq(Nest, 1, i - 1), IF Source!Catches(Nest[i], "throw")
                                                 THEN [Nest[i] EXCEPT !.at = "catch"]
                                                 ELSE [Nest[i] EXCEPT !.at = "finally", !.pend = "throw"])
      BY Zenon, <3>2, <3>4, <2>10, <2>15
    <3> QED BY Zenon, <3>2, <3>5, <2>4, <2>10, <2>13, LeaveTaken
  <2>16. CASE ~ HasCatch(prog, ctl[i].try)
    <3> DEFINE t == [try |-> ctl[i].try, at |-> "thunk", n |-> ctl[i].n, cp |-> ctl[i].cp, local |-> FALSE]
    <3>1. ctl' = MoveTo(SubSeq(ctl, 1, i), "thunk") /\ "thunk" \in Place
      BY <2>13, <2>16 DEF Place
    <3>2. Throws(prog, ctl[i].try, "try")
      BY <2>8, <2>9 DEF EscapesAt, SourceRegion, Region
    <3>3. Thunks' /\ Nest' = Append(SubSeq(Nest, 1, i - 1), Meaning(t))
      BY <2>4, <2>16, <3>1, <3>2, MovedNest
    <3>4. Meaning(t) = [try |-> ctl[i].try, at |-> "finally", pend |-> "throw"]
      BY DEF Meaning, SourceRegion, Region, Pending
    <3>5. Meaning(t) = [Nest[i] EXCEPT !.at = "finally", !.pend = "throw"]
      <4>1. PICK x : x = ctl[i].try
        OBVIOUS
      <4>2. [[try |-> x, at |-> "try", pend |-> "none"] EXCEPT !.at = "finally", !.pend = "throw"]
            = [try |-> x, at |-> "finally", pend |-> "throw"]
        <5>1. [[try |-> x, at |-> "try", pend |-> "none"] EXCEPT !.at = "finally"]
              = [try |-> x, at |-> "finally", pend |-> "none"]
          OBVIOUS
        <5>2. [[try |-> x, at |-> "finally", pend |-> "none"] EXCEPT !.pend = "throw"]
              = [try |-> x, at |-> "finally", pend |-> "throw"]
          OBVIOUS
        <5> QED BY Zenon, <5>1, <5>2
      <4> HIDE DEF t
      <4> QED BY <3>4, <2>14, <4>1, <4>2
    <3>6. Nest' = Append(SubSeq(Nest, 1, i - 1), IF Source!Catches(Nest[i], "throw")
                                                 THEN [Nest[i] EXCEPT !.at = "catch"]
                                                 ELSE [Nest[i] EXCEPT !.at = "finally", !.pend = "throw"])
      BY Zenon, <3>3, <3>5, <2>10, <2>16
    <3> QED BY Zenon, <3>3, <3>6, <2>4, <2>10, <2>13, LeaveTaken
  <2> QED BY <2>15, <2>16
<1> QED BY <1>3, <1>4

\* The return of statement i stands right before its leave block.
Adjacent(s, i) == \E j \in 2 .. Len(s) : s[j] = <<"try", i>> /\ s[j - 1] = <<"return", i>>

LEMMA AdjacentConcat ==
  ASSUME NEW s \in Seq(Item), NEW t \in Seq(Item), NEW i, Adjacent(s, i) \/ Adjacent(t, i)
  PROVE  s \o t \in Seq(Item) /\ Adjacent(s \o t, i)
<1>1. PICK v \in Seq(Item) : v = s \o t
  <2>1. s \o t \in Seq(Item)
    OBVIOUS
  <2> QED BY Zenon, <2>1
<1>2. /\ Len(s) \in Nat /\ Len(t) \in Nat /\ Len(v) = Len(s) + Len(t)
      /\ \A j \in 1 .. Len(s) : v[j] = s[j]
      /\ \A j \in 1 .. Len(t) : v[Len(s) + j] = t[j]
  BY <1>1
<1>3. CASE Adjacent(s, i)
  <2>1. PICK j \in 2 .. Len(s) : s[j] = <<"try", i>> /\ s[j - 1] = <<"return", i>>
    BY Zenon, <1>3 DEF Adjacent
  <2>2. j \in 2 .. Len(v) /\ j \in 1 .. Len(s) /\ j - 1 \in 1 .. Len(s)
    BY <1>2
  <2>3. v[j] = s[j] /\ v[j - 1] = s[j - 1]
    BY <1>2, <2>2
  <2> QED BY Zenon, <1>1, <2>1, <2>2, <2>3 DEF Adjacent
<1>4. CASE Adjacent(t, i)
  <2>1. PICK j \in 2 .. Len(t) : t[j] = <<"try", i>> /\ t[j - 1] = <<"return", i>>
    BY <1>4 DEF Adjacent
  <2>2. j \in 1 .. Len(t) /\ j - 1 \in 1 .. Len(t)
    BY <1>2
  <2>3. PICK k \in 2 .. Len(v) : k = Len(s) + j
    BY <1>2
  <2>4. k - 1 = Len(s) + (j - 1)
    BY <1>2, <2>3
  <2>5. v[k] = t[j] /\ v[k - 1] = t[j - 1]
    BY <1>2, <2>2, <2>3, <2>4
  <2> QED BY Zenon, <1>1, <2>1, <2>3, <2>5 DEF Adjacent
<1> QED BY <1>1, <1>3, <1>4

\* A return in the try body of a statement with a finally block is recorded and
\* taken by the leave block that is emitted next, the statement's own.
LEMMA ReturnAdjacent ==
  ASSUME NEW p \in Programs, NEW i \in DOMAIN p.stmts, HasFinally(p, i), Returns(p, i, "try")
  PROVE  Adjacent(Emission(p)[i], i)
<1> DEFINE f == Emission(p)
           a == Inner(p, f, i, "try")
           rest == IF HasCatch(p, i)
                   THEN Inner(p, f, i, "catch") \o Returned(p, i, "catch") \o Block(p, i, "catch")
                   ELSE <<>>
<1>1. i \in 0 .. Len(p.stmts) /\ i \in Nat /\ i # 0 /\ Len(p.stmts) \in Nat
  BY StatementFacts
<1>2. \A j \in 0 .. Len(p.stmts) : f[j] = CodeOf(p, f, j) /\ f[j] \in Seq(Item)
  BY EmissionFacts
<1>3. \A r : Inner(p, f, i, r) \in Seq(Item)
  <2> TAKE r
  <2>1. \A j \in Parts(p, i, r) : j \in i + 1 .. Len(p.stmts)
    BY <1>1, PartFacts
  <2>2. \A j \in i + 1 .. Len(p.stmts) : j \in 0 .. Len(p.stmts)
    BY <1>1
  <2>3. \A j \in Parts(p, i, r) : f[j] \in Seq(Item)
    BY <1>2, <2>1, <2>2
  <2> HIDE DEF f
  <2> QED BY <1>1, <2>3, InnerSame
<1>4. Returned(p, i, "try") = <<<<"return", i>>>> /\ Block(p, i, "try") = <<<<"try", i>>>>
  <2>1. FinallyAround(p)[i] # 0
    BY <1>1, FinallyAroundFacts
  <2> QED BY <2>1 DEF Returned, Block, Returns
<1>5. /\ Returned(p, i, "try") \in Seq(Item) /\ Block(p, i, "try") \in Seq(Item)
      /\ Returned(p, i, "catch") \in Seq(Item) /\ Block(p, i, "catch") \in Seq(Item)
  <2>1. "try" \in Region /\ "catch" \in Region
    BY DEF Region
  <2> QED BY <1>1, <2>1, ItemFacts
<1>6. rest \in Seq(Item)
  <2>1. Inner(p, f, i, "catch") \in Seq(Item)
    BY <1>3
  <2> HIDE DEF f
  <2>2. Inner(p, f, i, "catch") \o Returned(p, i, "catch") \o Block(p, i, "catch") \in Seq(Item)
    BY <1>5, <2>1
  <2>3. <<>> \in Seq(Item)
    OBVIOUS
  <2> QED BY <2>2, <2>3
<1>7. f[i] = a \o Returned(p, i, "try") \o Block(p, i, "try") \o rest
  BY Zenon, <1>1, <1>2 DEF CodeOf
<1>8. a \in Seq(Item)
  BY <1>3
<1> HIDE DEF a, rest, f
<1>9. PICK x \in Item, y \in Item : x = <<"return", i>> /\ y = <<"try", i>>
  BY Zenon, <1>1 DEF Item, Region
<1>10. PICK b \in Seq(Item) : b = a \o <<x>> \o <<y>>
  <2>1. <<x>> \in Seq(Item) /\ <<y>> \in Seq(Item)
    OBVIOUS
  <2>2. a \o <<x>> \in Seq(Item)
    BY <1>8, <2>1
  <2>3. a \o <<x>> \o <<y>> \in Seq(Item)
    BY <2>1, <2>2
  <2> QED BY Zenon, <2>3
<1>11. Len(b) = Len(a) + 2 /\ b[Len(a) + 2] = y /\ b[Len(a) + 1] = x /\ Len(a) \in Nat
  <2>1. PICK n \in Nat : n = Len(a)
    BY <1>8
  <2>2. PICK c \in Seq(Item) : c = a \o <<x>>
    <3>1. <<x>> \in Seq(Item)
      OBVIOUS
    <3>2. a \o <<x>> \in Seq(Item)
      BY <1>8, <3>1
    <3> QED BY Zenon, <3>2
  <2>3. Len(c) = n + 1 /\ c[n + 1] = x
    BY <1>8, <2>1, <2>2
  <2>4. b = c \o <<y>>
    BY <1>10, <2>2
  <2>5. Len(b) = n + 2 /\ b[n + 2] = y /\ b[n + 1] = c[n + 1]
    BY <2>1, <2>3, <2>4
  <2> QED BY <2>1, <2>3, <2>5
<1>12. Adjacent(b, i)
  <2>1. PICK k \in 2 .. Len(b) : k = Len(a) + 2
    BY <1>11
  <2>2. k - 1 = Len(a) + 1
    BY <1>11, <2>1
  <2> QED BY Zenon, <1>9, <1>11, <2>1, <2>2 DEF Adjacent
<1>13. f[i] = b \o rest
  BY Zenon, <1>4, <1>7, <1>9, <1>10
<1>14. Adjacent(b \o rest, i)
  BY <1>6, <1>12, AdjacentConcat
<1> QED BY <1>13, <1>14 DEF f

\* So is it in the code of the function whose body the statement stands in.
LEMMA BodyAdjacent ==
  ASSUME NEW p \in Programs, NEW i \in Parts(p, 0, "body"), Adjacent(Emission(p)[i], i)
  PROVE  Adjacent(Emission(p)[0], i)
<1> DEFINE f == Emission(p)
           N == Len(p.stmts)
<1>1. N \in Nat /\ i \in 1 .. N /\ 0 \in 0 .. N /\ \A j \in Parts(p, 0, "body") : j \in 1 .. N
  <2>1. N \in Nat
    BY StatementFacts
  <2>2. 0 \in Nat
    OBVIOUS
  <2>3. \A j \in Parts(p, 0, "body") : j \in 0 + 1 .. N
    BY <2>2, PartFacts
  <2> QED BY <2>1, <2>3
<1>2. \A j \in 0 .. N : f[j] = CodeOf(p, f, j) /\ f[j] \in Seq(Item)
  BY EmissionFacts
<1>3. Emitted(p, f, 0, "body")
  <2>1. \A j \in 1 .. N : j \in 0 .. N
    BY <1>1
  <2> HIDE DEF f, N
  <2> QED BY <1>1, <1>2, <2>1 DEF Emitted
<1>4. f[0] = Inner(p, f, 0, "body")
  BY <1>1, <1>2 DEF CodeOf
<1>5. PICK u \in [0 .. N -> Seq(Item)] :
        /\ \A j \in 1 .. N : u[j] = IF j \in Parts(p, 0, "body") THEN u[j - 1] \o f[j] ELSE u[j - 1]
        /\ Inner(p, f, 0, "body") = u[N]
  <2>1. 0 \in Nat
    OBVIOUS
  <2> HIDE DEF f
  <2> QED BY <1>3, <2>1, InnerUpto
<1>6. \A j \in 1 .. N : u[j] \in Seq(Item) /\ u[j - 1] \in Seq(Item)
  <2>1. \A j \in 1 .. N : j \in 0 .. N /\ j - 1 \in 0 .. N
    BY <1>1
  <2> HIDE DEF N
  <2> QED BY <2>1
<1>7. Adjacent(u[i], i)
  <2>1. u[i] = u[i - 1] \o f[i] /\ f[i] \in Seq(Item) /\ u[i - 1] \in Seq(Item)
    <3>1. i \in 0 .. N
      BY <1>1
    <3> HIDE DEF f, N
    <3> QED BY Zenon, <1>1, <1>2, <1>5, <1>6, <3>1
  <2> QED BY <2>1, AdjacentConcat
<1> HIDE DEF f
<1> DEFINE T == {j \in i .. N : ~ Adjacent(u[j], i)}
<1>8. T = {}
  <2> SUFFICES ASSUME T # {} PROVE FALSE
    OBVIOUS
  <2>1. PICK j \in T : \A x \in T : ~ (x < j)
    <3>1. T \subseteq Nat
      BY <1>1
    <3> HIDE DEF T
    <3> QED BY Zenon, <3>1, LeastIndex
  <2>2. j \in i .. N /\ ~ Adjacent(u[j], i)
    OBVIOUS
  <2>3. j # i
    BY <1>7, <2>2
  <2>4. j \in 1 .. N /\ j - 1 \in i .. N /\ j - 1 < j
    BY <1>1, <2>2, <2>3
  <2>5. Adjacent(u[j - 1], i)
    <3>1. j - 1 \notin T
      BY <2>1, <2>4
    <3> QED BY <3>1, <2>4
  <2>6. u[j] = u[j - 1] \/ (u[j] = u[j - 1] \o f[j] /\ f[j] \in Seq(Item))
    <3>1. j \in Parts(p, 0, "body") => f[j] \in Seq(Item)
      BY <1>3 DEF Emitted
    <3> QED BY Zenon, <1>5, <2>4, <3>1
  <2>7. Adjacent(u[j], i)
    BY Zenon, <1>6, <2>4, <2>5, <2>6, AdjacentConcat
  <2> QED BY <2>2, <2>7
<1>9. N \in i .. N
  BY <1>1
<1>10. Adjacent(u[N], i)
  BY <1>8, <1>9
<1> QED BY <1>4, <1>5, <1>10 DEF f

\* A return under a finally block is taken by the leave block of its try body.
LEMMA ReturnTaken ==
  ASSUME NEW p \in Programs, Supported(p), NEW i \in DOMAIN p.stmts, HasFinally(p, i), Returns(p, i, "try")
  PROVE  LeaveReturns(p, i, "try")
<1>1. i # 0 /\ FinallyAround(p)[i] = i /\ i \in 0 .. Len(p.stmts)
  BY StatementFacts, FinallyAroundFacts
<1>2. Outermost(p, i)
  BY <1>1 DEF Supported, PopsAll
<1>3. Adjacent(Emission(p)[i], i)
  BY ReturnAdjacent
<1>4. Adjacent(Emission(p)[FunctionOf(p)[i]], i)
  <2>1. CASE IsCall(p, i)
    BY <1>1, <1>3, <2>1, FunctionOfFacts
  <2>2. CASE ~ IsCall(p, i)
    <3>1. p.stmts[i].parent = 0 /\ p.stmts[i].where = "body"
      BY <1>2, <2>2, StatementFacts DEF Outermost
    <3>2. i \in Parts(p, 0, "body")
      BY <2>2, <3>1 DEF Parts, Children
    <3>3. 0 \in 0 .. Len(p.stmts)
      BY StatementFacts
    <3>4. FunctionOf(p)[i] = 0
      BY <1>1, <2>2, <3>1, <3>3, FunctionOfFacts
    <3> QED BY <1>3, <3>2, <3>4, BodyAdjacent
  <2> QED BY <2>1, <2>2
<1>5. PICK code : code = Emission(p)[FunctionOf(p)[i]]
  OBVIOUS
<1>6. \E j \in 2 .. Len(code) : code[j] = <<"try", i>> /\ code[j - 1][1] = "return"
  <2>1. PICK j \in 2 .. Len(code) : code[j] = <<"try", i>> /\ code[j - 1] = <<"return", i>>
    BY <1>4, <1>5 DEF Adjacent
  <2> QED BY <2>1
<1> QED BY <1>5, <1>6 DEF LeaveReturns

\* No statement has a finally block around code of the outer function that has
\* none around it.
LEMMA NoFinally ==
  ASSUME TryInv, out = "running", ctl # <<>>, FunctionOf(prog)[ctl[Len(ctl)].try] = 0,
         FinallyAround(prog)[ctl[Len(ctl)].try] = 0
  PROVE  \A j \in DOMAIN ctl : ~ HasFinally(prog, ctl[j].try)
<1> USE RunningFacts
<1>0. Nested
  BY DEF TryInv
<1> DEFINE m == Len(ctl)
           F(i) == FinallyAround(prog)[ctl[i].try]
           T == {j \in 0 .. m : j > 0 /\ F(j) # 0}
<1>1. m \in Nat \ {0} /\ m \in DOMAIN ctl
  OBVIOUS
<1>2. ASSUME NEW i \in DOMAIN ctl, F(i) = 0
      PROVE  ~ HasFinally(prog, ctl[i].try) /\ (i > 1 => F(i - 1) = 0)
  <2>1. PICK c \in DOMAIN prog.stmts : c = ctl[i].try
    OBVIOUS
  <2>2. c # 0 /\ FinallyAround(prog)[c] = 0 /\ c \in Nat
    BY <1>2, <2>1, StatementFacts
  <2>3. FinallyAround(prog)[c] = IF HasFinally(prog, c) THEN c
                                 ELSE IF IsCall(prog, c) \/ prog.stmts[c].parent = 0 THEN 0
                                 ELSE FinallyAround(prog)[prog.stmts[c].parent]
    BY FinallyAroundFacts
  <2>4. ~ HasFinally(prog, c)
    BY <2>2, <2>3
  <2>5. ~ IsCall(prog, c)
    <3>1. Calls = {}
      BY OuterChain
    <3> QED BY <2>1, <3>1 DEF Calls
  <2>6. ASSUME i > 1 PROVE F(i - 1) = 0
    <3>1. i - 1 \in DOMAIN ctl /\ c \in Children(prog, ctl[i - 1].try, SourceRegion(ctl[i - 1].at))
      BY <1>0, <2>1, <2>6 DEF Nested
    <3>2. prog.stmts[c].parent = ctl[i - 1].try
      BY <3>1 DEF Children
    <3>3. ctl[i - 1].try # 0
      BY <3>1, StatementFacts
    <3> QED BY <2>2, <2>3, <2>4, <2>5, <3>2, <3>3
  <2> QED BY <2>1, <2>4, <2>6
<1>3. T = {}
  <2> SUFFICES ASSUME T # {} PROVE FALSE
    OBVIOUS
  <2>0. T # {}
    OBVIOUS
  <2>1. PICK g \in T : \A x \in T : x <= g
    <3>1. T \in SUBSET (0 .. m)
      OBVIOUS
    <3> HIDE DEF T
    <3>2. Max(T) \in T /\ \A x \in T : x <= Max(T)
      BY Zenon, <1>1, <2>0, <3>1, MaxFacts
    <3> QED BY <3>2
  <2>2. g \in 0 .. m /\ g > 0 /\ F(g) # 0
    OBVIOUS
  <2>3. g # m
    BY Zenon, <2>2
  <2>4. PICK h \in DOMAIN ctl : h = g + 1
    <3>1. g + 1 \in DOMAIN ctl
      <4>1. DOMAIN ctl = 1 .. m /\ m \in Nat
        OBVIOUS
      <4> HIDE DEF m
      <4>2. g + 1 \in 1 .. m
        BY <2>2, <2>3, <4>1
      <4> QED BY <4>1, <4>2
    <3> QED BY <3>1
  <2>5. h > 1 /\ h - 1 = g /\ ~ (h <= g) /\ h \in 0 .. m /\ h > 0
    BY <2>2, <2>4
  <2>6. F(h) = 0
    <3>1. h \notin T
      BY <2>1, <2>5
    <3> QED BY <3>1, <2>5
  <2>7. F(h - 1) = 0
    BY <2>5, <2>6, <1>2
  <2> QED BY <2>2, <2>5, <2>7
<1>4. ASSUME NEW j \in DOMAIN ctl PROVE ~ HasFinally(prog, ctl[j].try)
  <2>1. j \in 0 .. m /\ j > 0
    OBVIOUS
  <2>2. F(j) = 0
    BY <1>3, <2>1
  <2> QED BY Zenon, <2>2, <1>2
<1> QED BY <1>4

\* The current function is over, with all that runs in it.
LEMMA FunctionOver ==
  ASSUME TryInv, out = "running", Thunks, NEW e, FunctionRet(e), prog' = prog
  PROVE  /\ Thunks'
         /\ FunctionStart(prog, ctl) > 0 =>
              Nest' = SubSeq(Nest, 1, FunctionStart(prog, ctl) - 1) /\ out' = out
         /\ FunctionStart(prog, ctl) = 0 => Nest' = <<>> /\ out' = "returned"
<1> USE RunningFacts
<1>1. PICK j \in 0 .. Len(ctl) : j = FunctionStart(prog, ctl)
  BY StartFacts
<1>2. /\ j > 0 => ctl' = SubSeq(ctl, 1, j - 1) /\ out' = out
      /\ j = 0 => ctl' = <<>> /\ out' = "returned"
  BY <1>1 DEF FunctionRet
<1>3. CASE j > 0
  <2>1. PICK n \in 0 .. Len(ctl) : n = j - 1
    BY <1>3
  <2>2. ctl' = SubSeq(ctl, 1, n)
    BY <1>2, <1>3, <2>1
  <2>3. ctl' \in Seq(Activation) /\ Len(ctl') = n /\ \A i \in 1 .. n : ctl'[i] = ctl[i]
    BY <2>2
  <2>4. Remains(n)
    BY <2>3 DEF Remains
  <2>5. Thunks'
    BY <2>3, <2>4, ThunksRemain
  <2>6. Nest' = SubSeq(Nest, 1, n)
    BY <2>3, <2>4, NestRemains
  <2> QED BY <1>1, <1>2, <1>3, <2>1, <2>5, <2>6
<1>4. CASE j = 0
  <2>1. ctl' = <<>> /\ out' = "returned"
    BY <1>2, <1>4
  <2>2. Nest' = <<>> /\ Thunks'
    BY <2>1 DEF Nest, Thunks
  <2> QED BY <1>1, <1>4, <2>1, <2>2
<1> QED BY <1>3, <1>4

LEMMA CallStart ==
  ASSUME TryInv, out = "running", ctl # <<>>, IsCall(prog, ctl[Len(ctl)].try)
  PROVE  FunctionStart(prog, ctl) = Len(ctl)
<1> USE RunningFacts
<1>1. Len(ctl) \in DOMAIN ctl
  OBVIOUS
<1>2. PICK j \in 0 .. Len(ctl) : j = FunctionStart(prog, ctl) /\ Len(ctl) <= j
  BY <1>1, StartFacts
<1> QED BY <1>2

\* Control goes past the innermost statement.
LEMMA PastNest ==
  ASSUME TryInv, out = "running", Thunks, ctl # <<>>, NEW e, Past(e), prog' = prog
  PROVE  Thunks' /\ Nest' = Front(Nest) /\ out' = out
<1> USE RunningFacts
<1>1. Last(ctl) = ctl[Len(ctl)] /\ Len(ctl) \in Nat \ {0}
  BY DEF Last
<1>2. Front(Nest) = SubSeq(Nest, 1, Len(ctl) - 1)
  BY NestFacts DEF Front
<1>3. CASE IsCall(prog, ctl[Len(ctl)].try)
  <2>1. FunctionRet(e)
    BY <1>1, <1>3 DEF Past
  <2>2. FunctionStart(prog, ctl) = Len(ctl)
    BY <1>3, CallStart
  <2> QED BY <1>1, <1>2, <2>1, <2>2, FunctionOver
<1>4. CASE ~ IsCall(prog, ctl[Len(ctl)].try)
  <2>1. ctl' = Front(ctl) /\ out' = out
    BY <1>1, <1>4 DEF Past
  <2>2. PICK n \in 0 .. Len(ctl) : n = Len(ctl) - 1
    <3>1. Len(ctl) - 1 \in 0 .. Len(ctl)
      BY <1>1
    <3> QED BY Zenon, <3>1
  <2>3. ctl' = SubSeq(ctl, 1, n)
    BY <2>1, <2>2 DEF Front
  <2>4. ctl' \in Seq(Activation) /\ Len(ctl') = n /\ \A i \in 1 .. n : ctl'[i] = ctl[i]
    BY <2>3
  <2>5. Remains(n)
    BY <2>4 DEF Remains
  <2>6. Thunks'
    BY <2>4, <2>5, ThunksRemain
  <2>7. Nest' = SubSeq(Nest, 1, n)
    BY <2>4, <2>5, NestRemains
  <2> QED BY <1>2, <2>1, <2>2, <2>6, <2>7
<1> QED BY <1>3, <1>4

\* A statement takes a return unless its own finally block runs.
LEMMA ReturnLeaves ==
  ASSUME TryInv, out = "running", Thunks, ctl # <<>>, NEW e, FunctionRet(e), prog' = prog,
         ~ Source!Takes(Nest[Len(ctl)], "return"),
         \/ Outermost(prog, ctl[Len(ctl)].try)
         \/ Calls = {} /\ \A j \in DOMAIN ctl : ~ HasFinally(prog, ctl[j].try)
  PROVE  Thunks' /\ Source!Leave(Nest, "return")
<1> USE RunningFacts
<1> DEFINE start == FunctionStart(prog, ctl)
<1>1. /\ Thunks'
      /\ start > 0 => Nest' = SubSeq(Nest, 1, start - 1) /\ out' = out
      /\ start = 0 => Nest' = <<>> /\ out' = "returned"
  BY FunctionOver
<1>2. start \in Nat
  BY StartFacts
<1>3. \A j \in DOMAIN ctl : j < start \/ ~ Source!Takes(Nest[j], "return")
  <2> TAKE j \in DOMAIN ctl
  <2>1. CASE Calls = {} /\ \A i \in DOMAIN ctl : ~ HasFinally(prog, ctl[i].try)
    BY <2>1, TakesFacts
  <2>2. CASE IsCall(prog, ctl[Len(ctl)].try)
    <3>1. start = Len(ctl)
      BY <2>2, CallStart
    <3>2. j < Len(ctl) \/ j = Len(ctl)
      OBVIOUS
    <3> QED BY <3>1, <3>2
  <2>3. CASE prog.stmts[ctl[Len(ctl)].try].parent = 0
    <3>1. Len(ctl) = 1
      BY Zenon, <2>3, AloneFacts
    <3>2. j = Len(ctl)
      BY <3>1
    <3> QED BY <3>2
  <2> QED BY <2>1, <2>2, <2>3 DEF Outermost
<1> HIDE DEF start
<1>4. start > 0 \/ start = 0
  BY <1>2
<1> QED BY <1>1, <1>2, <1>3, <1>4, LeaveAll DEF start

\* A completion of the current region, as the source has it.
LEMMA CompleteOuter ==
  ASSUME ctl \in Seq(Activation), out = "running", prog' = prog, NEW k \in Completion,
         k \in Exits(prog, Here, At), ctl = <<>>, Nest' = <<>>,
         out' = (CASE k = "normal" -> "normal" [] k = "throw" -> "threw" [] OTHER -> "returned")
  PROVE  Source!Next
<1>1. Nest = <<>> /\ Source!Here = Here /\ Source!At = At
  BY NestFacts
<1>2. Source!Complete(k)
  BY <1>1, SourceSame DEF Source!Complete
<1> QED BY <1>2, SourceSame DEF Source!Next

LEMMA CompleteLeave ==
  ASSUME ctl \in Seq(Activation), out = "running", prog' = prog, NEW k \in {"throw", "return"},
         k \in Exits(prog, Here, At), ctl # <<>>, Source!Leave(Nest, k)
  PROVE  Source!Next
<1>1. Nest # <<>> /\ Source!Here = Here /\ Source!At = At
  BY NestFacts
<1>2. Source!Complete(k)
  BY <1>1, SourceSame DEF Source!Complete
<1>3. k \in Completion
  BY DEF Completion
<1> QED BY <1>2, <1>3, SourceSame DEF Source!Next

LEMMA CompleteNormal ==
  ASSUME ctl \in Seq(Activation), out = "running", prog' = prog,
         "normal" \in Exits(prog, Here, At), ctl # <<>>,
         \/ At # "finally" /\ Source!Fall(Nest)
         \/ At = "finally" /\ Pending(ctl[Len(ctl)]) = "normal" /\ Nest' = Front(Nest) /\ out' = out
         \/ \E k \in {"throw", "return"} :
              At = "finally" /\ Pending(ctl[Len(ctl)]) = k /\ Source!Leave(Nest, k)
  PROVE  Source!Next
<1>1. /\ Nest # <<>> /\ Source!Here = Here /\ Source!At = At /\ Len(ctl) \in DOMAIN ctl
      /\ Nest[Len(ctl)] = Meaning(ctl[Len(ctl)]) /\ Len(Nest) = Len(ctl)
  BY NestFacts
<1>2. Source!Last(Nest).pend = Pending(ctl[Len(ctl)])
  BY <1>1, SourceSame, MeaningFacts DEF Last
<1>3. Source!Complete("normal")
  BY <1>1, <1>2, SourceSame DEF Source!Complete
<1>4. "normal" \in Completion
  BY DEF Completion
<1> QED BY <1>3, <1>4, SourceSame DEF Source!Next

LEMMA EnterSource ==
  ASSUME TryInv, Thunks, NEW c \in DOMAIN prog.stmts, Enter(c)
  PROVE  Source!Next /\ Thunks'
<1>1. out = "running" /\ c \in Children(prog, Here, At) /\ prog' = prog /\ out' = out
  BY DEF Enter
<1> USE RunningFacts, <1>1
<1>2. PICK a : /\ a = [try |-> c, at |-> "try", n |-> entries + 1, cp |-> Len(roots), local |-> FALSE]
               /\ ctl' = Append(ctl, a)
  BY DEF Enter
<1>3. a \in Activation
  BY <1>2, StatementFacts DEF Activation, Place
<1>4. PICK n \in 0 .. Len(ctl) : n = Len(ctl)
  OBVIOUS
<1>5. /\ ctl' \in Seq(Activation) /\ Len(ctl') = n + 1 /\ ctl'[n + 1] = a
      /\ \A i \in 1 .. n : ctl'[i] = ctl[i]
  BY <1>2, <1>3, <1>4
<1>6. Remains(n)
  BY <1>4, <1>5 DEF Remains
<1>7. Thunks'
  BY <1>2, <1>5, <1>6, ThunksRemain
<1>8. Nest' = Append(SubSeq(Nest, 1, n), Meaning(a))
  BY <1>5, <1>6, NestRemains
<1>9. SubSeq(Nest, 1, n) = Nest
  BY <1>4, NestFacts
<1>10. Meaning(a) = [try |-> c, at |-> "try", pend |-> "none"]
  BY <1>2 DEF Meaning, SourceRegion, Region, Pending
<1>11. Source!Enter(c)
  BY <1>8, <1>9, <1>10, NestFacts, SourceSame DEF Source!Enter
<1> QED BY <1>7, <1>11 DEF Source!Next

LEMMA DeclareSource ==
  ASSUME TryInv, Thunks, Declare
  PROVE  UNCHANGED Source!vars /\ Thunks'
<1>1. out = "running" /\ ctl # <<>> /\ prog' = prog /\ out' = out
  BY DEF Declare
<1> USE RunningFacts, <1>1
<1>2. PICK m \in Nat \ {0} : m = Len(ctl)
  <2>1. Len(ctl) \in Nat \ {0}
    BY FrontFacts
  <2> QED BY Zenon, <2>1
<1>3. PICK a : a = [Last(ctl) EXCEPT !.local = TRUE] /\ ctl' = Append(Front(ctl), a)
  BY DEF Declare
<1>4. Last(ctl) = ctl[m] /\ ctl[m] \in Activation
  BY <1>2 DEF Last
<1>5. a \in Activation /\ a.try = ctl[m].try /\ a.at = ctl[m].at
  BY Zenon, <1>3, <1>4 DEF Activation
<1>6. Front(ctl) \in Seq(Activation) /\ Len(Front(ctl)) = m - 1 /\ \A i \in 1 .. m - 1 : Front(ctl)[i] = ctl[i]
  BY Zenon, <1>2, FrontFacts
<1>7. PICK c \in Seq(Activation) : c = Front(ctl)
  BY <1>6
<1>8. /\ ctl' \in Seq(Activation) /\ Len(ctl') = m /\ ctl'[m] = a
      /\ \A i \in 1 .. m - 1 : ctl'[i] = ctl[i]
  <2>1. Append(c, a) \in Seq(Activation) /\ Len(Append(c, a)) = m /\ Append(c, a)[m] = a
        /\ \A i \in 1 .. m - 1 : Append(c, a)[i] = c[i]
    <3>1. PICK n \in Nat : n = m - 1 /\ m = n + 1
      <4>1. m - 1 \in Nat /\ m = (m - 1) + 1
        BY <1>2
      <4> QED BY <4>1
    <3>2. Len(c) = n
      BY <3>1, <1>6, <1>7
    <3>3. Append(c, a) \in Seq(Activation) /\ Len(Append(c, a)) = n + 1 /\ Append(c, a)[n + 1] = a
          /\ \A i \in 1 .. n : Append(c, a)[i] = c[i]
      BY <1>5, <3>2
    <3> QED BY <3>1, <3>3
  <2> QED BY <2>1, <1>3, <1>6, <1>7
<1>9. PICK n \in 0 .. Len(ctl) : n = m
  BY <1>2
<1>10. Remains(n)
  <2>1. ASSUME NEW i \in 1 .. n PROVE ctl'[i].try = ctl[i].try /\ ctl'[i].at = ctl[i].at
    <3>1. i = m \/ i \in 1 .. m - 1
      BY <1>9
    <3> QED BY <3>1, <1>5, <1>8
  <2> QED BY <2>1, <1>8, <1>9 DEF Remains
<1>11. Thunks'
  BY <1>8, <1>9, <1>10, ThunksRemain
<1>12. Nest' = SubSeq(Nest, 1, n)
  BY <1>8, <1>9, <1>10, NestRemains
<1>13. SubSeq(Nest, 1, n) = Nest
  BY <1>2, <1>9, NestFacts
<1> QED BY <1>11, <1>12, <1>13 DEF Source!vars

LEMMA StutterSource ==
  ASSUME TryInv, Thunks, UNCHANGED <<prog, ctl, out>>
  PROVE  UNCHANGED Source!vars /\ Thunks'
<1>1. Nest' = Nest
  BY DEF Nest, Meaning, Pending
<1>2. Thunks'
  BY DEF Thunks
<1> QED BY <1>1, <1>2 DEF Source!vars

LEMMA ThrowHereSource ==
  ASSUME TryInv, Supported(prog), Thunks, ThrowHere
  PROVE  Source!Next /\ Thunks'
<1>1. out = "running" /\ prog' = prog /\ entries' = entries /\ Throw(eh) /\ "throw" \in Exits(prog, Here, At)
  BY DEF ThrowHere, May
<1> USE RunningFacts, <1>1
<1>2. CASE ctl = <<>>
  <2>1. eh = Base
    BY <1>2, BaseFacts DEF Held
  <2>2. ctl' = <<>> /\ out' = "threw"
    <3>1. CASE prog.async
      <4>1. eh = <<AsyncRoot>>
        BY Zenon, <2>1, <3>1
      <4>2. eh # <<>> /\ Last(eh) = AsyncRoot
        BY <4>1 DEF Last
      <4> QED BY <4>2 DEF Throw
    <3>2. CASE ~ prog.async
      <4>1. eh = <<>>
        BY <2>1, <3>2
      <4> QED BY <4>1 DEF Throw
    <3> QED BY <3>1, <3>2
  <2>3. Nest' = <<>> /\ Thunks'
    BY <2>2 DEF Nest, Thunks
  <2>4. "throw" \in Completion
    BY DEF Completion
  <2> QED BY <1>2, <2>2, <2>3, <2>4, CompleteOuter
<1>3. CASE ctl # <<>>
  <2>1. PICK a \in 0 .. Len(ctl) : a = Len(ctl)
    <3>1. Len(ctl) \in 0 .. Len(ctl)
      OBVIOUS
    <3> QED BY Zenon, <3>1
  <2>2. PICK l \in Len(Base) .. Len(eh) : l = Len(eh)
    BY DEF TryInv, Framed
  <2>3. Throw(SubSeq(eh, 1, l))
    <3>1. SubSeq(eh, 1, l) = eh
      BY <2>2
    <3> QED BY Zenon, <3>1
  <2>4. a > 0 => EscapesAt(a)
    <3>1. Here = ctl[a].try /\ At = SourceRegion(ctl[a].at)
      BY <1>3, <2>1 DEF Here, At, Last
    <3> QED BY <3>1 DEF EscapesAt, Throws
  <2>5. \A j \in DOMAIN ctl : ~ (j > a)
    BY <2>1
  <2>6. \A i \in Held, k \in Frames : i <= a /\ k <= l
    BY <2>1, <2>2 DEF Held, Frames
  <2>7. Source!Leave(Nest, "throw") /\ Thunks'
    <3> HIDE DEF EscapesAt
    <3> QED BY <2>3, <2>4, <2>5, <2>6, ThrowSource
  <2> QED BY <1>3, <2>7, CompleteLeave
<1> QED BY <1>2, <1>3

LEMMA ReturnSource ==
  ASSUME TryInv, Supported(prog), Thunks, ReturnHere
  PROVE  Source!Next /\ Thunks'
<1>1. out = "running" /\ "return" \in Exits(prog, Here, At) /\ prog' = prog
  BY DEF ReturnHere, May
<1> USE RunningFacts, <1>1
<1>0. Nested
  BY DEF TryInv
<1> DEFINE m == Len(ctl)
           s == ctl[m].try
           i == IF ctl = <<>> THEN 0 ELSE FinallyAround(prog)[Here]
           last == Max({j \in DOMAIN ctl : ctl[j].try = i})
<1>2. /\ i = 0 => Return(eh)
      /\ i # 0 => ctl' = MoveTo(SubSeq(ctl, 1, last), "leave") /\ out' = out
  BY Zenon DEF ReturnHere
<1>3. i = 0 => \E e : FunctionRet(e)
  BY <1>2 DEF Return
<1>4. CASE ctl = <<>>
  <2>1. PICK e : FunctionRet(e)
    BY <1>3, <1>4
  <2>2. FunctionStart(prog, ctl) = 0
    BY <1>4, NoCall DEF Calls
  <2>3. Thunks' /\ Nest' = <<>> /\ out' = "returned"
    BY <2>1, <2>2, FunctionOver
  <2>4. "return" \in Completion
    BY DEF Completion
  <2> QED BY <1>4, <2>3, <2>4, CompleteOuter
<1>5. CASE ctl # <<>>
  <2>1. m \in DOMAIN ctl /\ m \in Nat \ {0} /\ s \in DOMAIN prog.stmts /\ s # 0
        /\ Here = s /\ At = SourceRegion(ctl[m].at) /\ i = FinallyAround(prog)[s]
    <3>1. m \in DOMAIN ctl /\ m \in Nat \ {0} /\ Last(ctl) = ctl[m]
      BY <1>5 DEF Last
    <3>2. s \in DOMAIN prog.stmts /\ s # 0
      BY <3>1, StatementFacts
    <3> QED BY <3>1, <3>2, <1>5 DEF Here, At
  <2>2. FinallyAround(prog)[s] = IF HasFinally(prog, s) THEN s
                                 ELSE IF IsCall(prog, s) \/ prog.stmts[s].parent = 0 THEN 0
                                 ELSE FinallyAround(prog)[prog.stmts[s].parent]
    BY <2>1, FinallyAroundFacts
  <2>3. ctl[m].at \in {"try", "catch"} /\ At = ctl[m].at
    <3>1. At # "finally"
      BY <2>1, StatementFacts
    <3> QED BY <3>1, <2>1 DEF SourceRegion, Region
  <2>4. ASSUME i = 0, \/ Outermost(prog, s)
                      \/ Calls = {} /\ \A j \in DOMAIN ctl : ~ HasFinally(prog, ctl[j].try)
        PROVE  Source!Next /\ Thunks'
    <3>1. PICK e : FunctionRet(e)
      BY <1>3, <2>4
    <3>2. ~ HasFinally(prog, s)
      BY <2>1, <2>2, <2>4
    <3>3. ~ Source!Takes(Nest[m], "return")
      BY <2>1, <3>2, TakesFacts
    <3>4. Thunks' /\ Source!Leave(Nest, "return")
      BY <1>5, <2>4, <3>1, <3>3, ReturnLeaves
    <3> QED BY <1>5, <3>4, CompleteLeave
  <2>5. CASE PopsAll(prog, s)
    <3>1. FunctionOf(prog)[s] = 0 /\ FinallyAround(prog)[s] = 0
      BY <2>5 DEF PopsAll
    <3>2. Calls = {} /\ i = 0
      BY <1>5, <2>1, <3>1, OuterChain
    <3>3. \A j \in DOMAIN ctl : ~ HasFinally(prog, ctl[j].try)
      BY <1>5, <3>1, NoFinally
    <3> QED BY <2>4, <3>2, <3>3
  <2>6. CASE ctl[m].at = "try" /\ ~ PopsAll(prog, s)
    <3>1. Returns(prog, s, "try")
      BY <2>1, <2>3, <2>6 DEF Returns
    <3>2. HasFinally(prog, s)
      BY <2>1, <2>6, <3>1 DEF Supported
    <3>3. i = s /\ i # 0
      BY <2>1, <2>2, <3>2
    <3>4. last = m
      <4> DEFINE S == {j \in DOMAIN ctl : ctl[j].try = i}
      <4>1. m \in S /\ \A j \in S : j <= m
        BY <2>1, <3>3
      <4>2. S \in SUBSET (0 .. m) /\ m \in Nat
        <5>1. \A j \in DOMAIN ctl : j \in 0 .. m
          OBVIOUS
        <5> QED BY <5>1, <2>1
      <4> HIDE DEF S, m
      <4>3. Max(S) = m
        BY Zenon, <4>1, <4>2, MaxIs
      <4> QED BY <4>3 DEF S
    <3>5. ctl' = MoveTo(SubSeq(ctl, 1, m), "leave") /\ out' = out /\ "leave" \in Place
      <4> HIDE DEF i, last, m
      <4> QED BY <1>2, <3>3, <3>4 DEF Place
    <3> DEFINE t == [try |-> s, at |-> "leave", n |-> ctl[m].n, cp |-> ctl[m].cp, local |-> FALSE]
    <3>6. Thunks' /\ Nest' = Append(SubSeq(Nest, 1, m - 1), Meaning(t))
      BY Zenon, <2>1, <3>5, MovedNest
    <3>7. LeaveReturns(prog, s, "try")
      BY <2>1, <3>1, <3>2, ReturnTaken
    <3>8. Meaning(t) = [try |-> s, at |-> "finally", pend |-> "return"]
      BY <3>7 DEF Meaning, SourceRegion, Region, Pending
    <3>9. Nest[m] = [try |-> s, at |-> "try", pend |-> "none"]
      BY <2>1, <2>6, NestFacts DEF Meaning, SourceRegion, Region, Pending
    <3>10. Source!Takes(Nest[m], "return") /\ ~ Source!Catches(Nest[m], "return")
      BY <2>1, <2>6, <3>2, TakesFacts
    <3>11. Nest' = Append(SubSeq(Nest, 1, m - 1),
                          IF Source!Catches(Nest[m], "return")
                          THEN [Nest[m] EXCEPT !.at = "catch"]
                          ELSE [Nest[m] EXCEPT !.at = "finally", !.pend = "return"])
      <4>1. PICK x : x = s
        OBVIOUS
      <4>2. [[try |-> x, at |-> "try", pend |-> "none"] EXCEPT !.at = "finally"]
            = [try |-> x, at |-> "finally", pend |-> "none"]
        OBVIOUS
      <4>3. [[try |-> x, at |-> "finally", pend |-> "none"] EXCEPT !.pend = "return"]
            = [try |-> x, at |-> "finally", pend |-> "return"]
        OBVIOUS
      <4>4. [Nest[m] EXCEPT !.at = "finally", !.pend = "return"] = Meaning(t)
        <5> HIDE DEF t, s, m
        <5> QED BY Zenon, <3>8, <3>9, <4>1, <4>2, <4>3
      <4> HIDE DEF t, s, m
      <4> QED BY Zenon, <3>6, <3>10, <4>4
    <3>12. FunctionStart(prog, ctl) <= m /\ \A j \in DOMAIN ctl : j <= m
      BY StartFacts
    <3>13. Source!Leave(Nest, "return")
      <4> HIDE DEF s, i, last, t
      <4> QED BY Zenon, <2>1, <3>5, <3>10, <3>11, <3>12, LeaveTaken
    <3> QED BY <1>5, <3>6, <3>13, CompleteLeave
  <2>7. CASE ctl[m].at = "catch" /\ ~ PopsAll(prog, s)
    <3>1. HasCatch(prog, s) /\ Returns(prog, s, "catch")
      BY <2>1, <2>3, <2>7, <1>0 DEF Nested, Returns
    <3>2. ~ HasFinally(prog, s) /\ Outermost(prog, s)
      BY <2>1, <2>7, <3>1 DEF Supported
    <3>3. i = 0
      BY <2>1, <2>2, <3>2 DEF Outermost
    <3> QED BY <2>4, <3>2, <3>3
  <2> QED BY <2>3, <2>5, <2>6, <2>7
<1> QED BY <1>4, <1>5

\* The thunk of the innermost statement is over: the exception goes on.
LEMMA ThunkSource ==
  ASSUME TryInv, out = "running", Supported(prog), Thunks, ctl # <<>>, ctl[Len(ctl)].at = "thunk",
         ThunkDone, prog' = prog
  PROVE  Source!Leave(Nest, "throw") /\ Thunks'
<1> USE RunningFacts
<1>0. Nested /\ Framed
  BY DEF TryInv
<1>1. PICK m \in Nat \ {0} : m = Len(ctl) /\ m \in DOMAIN ctl /\ Last(ctl) = ctl[m]
  <2>1. Len(ctl) \in Nat \ {0} /\ Last(ctl) = ctl[Len(ctl)] /\ Len(ctl) \in DOMAIN ctl
    BY DEF Last
  <2> QED BY Zenon, <2>1
<1>2. m \in Held /\ \A j \in Held : j <= m
  BY <1>1 DEF Held
<1>3. PICK q \in Nat : q = Len(eh)
  BY Zenon
<1>4. q \in Frames /\ q > Len(Base) /\ eh[q].n = ctl[m].n /\ \A k \in Frames : k < q => eh[k].n < ctl[m].n
  BY <1>2, <1>3, TopFrame
<1>5. Max({k \in DOMAIN eh : eh[k].n = Last(ctl).n}) = q
  <2> DEFINE S == {k \in DOMAIN eh : eh[k].n = Last(ctl).n}
  <2>1. q \in S
    BY <1>1, <1>4 DEF Frames
  <2>2. \A k \in DOMAIN eh : k \in 0 .. q /\ k <= q
    BY <1>3
  <2>3. S \in SUBSET (0 .. q) /\ \A k \in S : k <= q
    BY <2>2
  <2> HIDE DEF S
  <2>4. Max(S) = q
    BY Zenon, <2>1, <2>3, MaxIs
  <2> QED BY <2>4 DEF S
<1>6. PICK l \in Len(Base) .. Len(eh) : l = q - 1
  <2>1. Len(Base) \in Nat
    OBVIOUS
  <2>2. q - 1 \in Len(Base) .. Len(eh)
    BY <2>1, <1>3, <1>4
  <2> QED BY <2>2
<1>7. Throw(SubSeq(eh, 1, l))
  BY <1>5, <1>6 DEF ThunkDone
<1>8. PICK a \in 0 .. Len(ctl) : a = m - 1
  <2>1. m - 1 \in 0 .. Len(ctl)
    BY <1>1
  <2> QED BY <2>1
<1>9. a > 0 => EscapesAt(a)
  <2> HAVE a > 0
  <2>1. PICK s \in DOMAIN prog.stmts : s = ctl[m].try
    BY <1>1
  <2>2. ~ HasCatch(prog, s) /\ Throws(prog, s, "try")
    BY <1>1, <2>1 DEF Thunks
  <2>3. s \in Children(prog, ctl[m - 1].try, SourceRegion(ctl[m - 1].at))
    <3>1. m \in DOMAIN ctl /\ m > 1
      BY <1>1, <1>8
    <3>2. ctl[m].try \in Children(prog, ctl[m - 1].try, SourceRegion(ctl[m - 1].at))
      BY Zenon, <1>0, <3>1 DEF Nested
    <3> QED BY Zenon, <2>1, <3>2
  <2>4. s \in Children(prog, ctl[a].try, SourceRegion(ctl[a].at))
    BY <1>8, <2>3
  <2> QED BY <2>2, <2>4, ThrowsFacts DEF EscapesAt
<1>10. \A j \in DOMAIN ctl : j > a => ctl[j].at \notin {"try", "catch"}
  <2> TAKE j \in DOMAIN ctl
  <2> HAVE j > a
  <2>1. j = m
    BY <1>1, <1>8
  <2> QED BY <1>1, <2>1
<1>11. \A i \in Held, k \in Frames : eh[k].n = ctl[i].n => (k <= l <=> i <= a)
  <2> TAKE i \in Held, k \in Frames
  <2> HAVE eh[k].n = ctl[i].n
  <2>1. i \in DOMAIN ctl /\ k \in Nat /\ k <= q
    BY <1>3 DEF Held, Frames
  <2>2. CASE k = q
    <3>1. ~ (i < m)
      <4>1. i < m => ctl[i].n < ctl[m].n
        BY <1>0, <1>1, <2>1 DEF Nested
      <4>2. ctl[i].n = ctl[m].n /\ ctl[m].n \in Nat
        BY <1>1, <1>4, <2>2
      <4> QED BY <4>1, <4>2
    <3>2. ~ (k <= l)
      BY <1>6, <2>2
    <3>3. ~ (i <= a)
      BY <1>8, <2>1, <3>1
    <3> QED BY <3>2, <3>3
  <2>3. CASE k < q
    <3>1. eh[k].n < ctl[m].n
      BY <1>4, <2>3
    <3>2. i # m
      <4>1. ctl[m].n \in Nat
        BY <1>1
      <4> QED BY <3>1, <4>1
    <3>3. k <= l
      BY <1>6, <2>1, <2>3
    <3>4. i <= a
      BY <1>1, <1>8, <2>1, <3>2
    <3> QED BY <3>3, <3>4
  <2> QED BY <2>1, <2>2, <2>3
<1> HIDE DEF EscapesAt
<1> QED BY Zenon, <1>7, <1>9, <1>10, <1>11, ThrowSource

\* A statement that does not take a return with it is left for what follows it.
LEMMA LeaveNormal ==
  ASSUME TryInv, out = "running", Thunks, ctl # <<>>, NEW r, ~ LeaveReturns(prog, ctl[Len(ctl)].try, r),
         TryLeave(r), prog' = prog
  PROVE  Thunks' /\ Nest' = Front(Nest) /\ out' = out
<1> USE RunningFacts
<1>1. Last(ctl) = ctl[Len(ctl)]
  BY DEF Last
<1>2. \E e : Past(e)
  BY <1>1 DEF TryLeave
<1> QED BY <1>2, PastNest

LEMMA LeaveReturning ==
  ASSUME TryInv, out = "running", Supported(prog), Thunks, ctl # <<>>, ctl[Len(ctl)].at \notin {"try", "catch"},
         NEW r, LeaveReturns(prog, ctl[Len(ctl)].try, r), TryLeave(r), prog' = prog
  PROVE  Thunks' /\ Source!Leave(Nest, "return")
<1> USE RunningFacts
<1>1. Last(ctl) = ctl[Len(ctl)] /\ Len(ctl) \in DOMAIN ctl
  BY DEF Last
<1>2. \E e : Return(e)
  BY <1>1 DEF TryLeave
<1>3. PICK e : FunctionRet(e)
  BY <1>2 DEF Return
<1>4. Outermost(prog, ctl[Len(ctl)].try)
  BY <1>1, LeaveFacts
<1>5. ~ Source!Takes(Nest[Len(ctl)], "return")
  BY <1>1, TakesFacts
<1> QED BY <1>3, <1>4, <1>5, ReturnLeaves

LEMMA EndSource ==
  ASSUME TryInv, Supported(prog), Thunks, EndBlock
  PROVE  Source!Next /\ Thunks'
<1>1. out = "running" /\ prog' = prog /\ "normal" \in Exits(prog, Here, At)
  BY DEF EndBlock, May
<1> USE RunningFacts, <1>1
<1>0. Nested
  BY DEF TryInv
<1>2. /\ ctl = <<>> => ctl' = ctl /\ out' = "normal"
      /\ ctl # <<>> /\ Last(ctl).at \in {"try", "catch"} => Fall
      /\ ctl # <<>> /\ Last(ctl).at = "leave" => TryLeave("try")
      /\ ctl # <<>> /\ Last(ctl).at = "leaveCatch" => TryLeave("catch")
      /\ ctl # <<>> /\ Last(ctl).at \notin {"try", "catch", "leave", "leaveCatch"} => ThunkDone
  BY DEF EndBlock
<1>3. CASE ctl = <<>>
  <2>1. Nest' = <<>> /\ Thunks' /\ out' = "normal"
    BY <1>2, <1>3 DEF Nest, Thunks
  <2>2. "normal" \in Completion
    BY DEF Completion
  <2> QED BY <1>3, <2>1, <2>2, CompleteOuter
<1>4. CASE ctl # <<>>
  <2> DEFINE m == Len(ctl)
             s == ctl[m].try
  <2>1. m \in DOMAIN ctl /\ m \in Nat \ {0} /\ Last(ctl) = ctl[m] /\ ctl[m].at \in Place /\ s \in DOMAIN prog.stmts
        /\ Here = s /\ At = SourceRegion(ctl[m].at)
    BY <1>4 DEF Last, Here, At
  <2>2. \A r : LeaveReturns(prog, s, r) => r = "try" /\ HasFinally(prog, s) /\ "normal" \notin Exits(prog, s, "try")
    BY <2>1, LeaveFacts
  <2>3. CASE ctl[m].at \in {"try", "catch"}
    <3>1. Fall /\ At = ctl[m].at /\ At # "finally"
      BY <1>2, <1>4, <2>1, <2>3 DEF SourceRegion, Region
    <3>2. ~ LeaveReturns(prog, s, ctl[m].at)
      BY <1>1, <2>1, <2>2, <3>1
    <3>3. Source!Last(Nest) = Nest[m] /\ Nest[m] = Meaning(ctl[m]) /\ Source!Front(Nest) = Front(Nest)
          /\ Front(Nest) = SubSeq(Nest, 1, m - 1)
      BY Zenon, <2>1, NestFacts, SourceSame DEF Last, Front
    <3>4. Nest[m] = [try |-> s, at |-> ctl[m].at, pend |-> "none"]
      BY <2>3, <3>3 DEF Meaning, SourceRegion, Region, Pending
    <3>5. CASE HasFinally(prog, s)
      <4>1. PICK place \in {"leave", "leaveCatch"} :
              /\ place = (IF ctl[m].at = "try" THEN "leave" ELSE "leaveCatch")
              /\ ctl' = MoveTo(ctl, place) /\ out' = out
        BY <3>1, <3>5, <2>1 DEF Fall
      <4>2. SubSeq(ctl, 1, m) = ctl
        OBVIOUS
      <4> DEFINE t == [try |-> s, at |-> place, n |-> ctl[m].n, cp |-> ctl[m].cp, local |-> FALSE]
      <4>3. Thunks' /\ Nest' = Append(SubSeq(Nest, 1, m - 1), Meaning(t))
        <5>1. place \in Place /\ place # "thunk"
          BY DEF Place
        <5> QED BY Zenon, <2>1, <4>1, <4>2, <5>1, MovedNest
      <4>4. Pending(t) = "normal"
        <5>1. CASE place = "leave"
          <6>1. ~ LeaveReturns(prog, s, "try")
            BY <3>2, <4>1, <5>1, <2>3
          <6> QED BY <5>1, <6>1 DEF Pending
        <5>2. CASE place = "leaveCatch"
          <6>1. ~ LeaveReturns(prog, s, "catch")
            BY <2>2
          <6> QED BY <5>2, <6>1 DEF Pending
        <5> QED BY <5>1, <5>2
      <4>5. Meaning(t) = [try |-> s, at |-> "finally", pend |-> "normal"]
        <5>1. SourceRegion(t.at) = "finally"
          BY DEF SourceRegion, Region
        <5> HIDE DEF s, m
        <5> QED BY <4>4, <5>1 DEF Meaning
      <4>6. Meaning(t) = [Nest[m] EXCEPT !.at = "finally", !.pend = "normal"]
        <5>1. PICK x, y : x = s /\ y = ctl[m].at
          BY Zenon
        <5>2. [[try |-> x, at |-> y, pend |-> "none"] EXCEPT !.at = "finally"]
              = [try |-> x, at |-> "finally", pend |-> "none"]
          OBVIOUS
        <5>3. [[try |-> x, at |-> "finally", pend |-> "none"] EXCEPT !.pend = "normal"]
              = [try |-> x, at |-> "finally", pend |-> "normal"]
          OBVIOUS
        <5> HIDE DEF t, s, m
        <5> QED BY Zenon, <3>4, <4>5, <5>1, <5>2, <5>3
      <4>7. Source!Fall(Nest)
        <5>1. HasFinally(prog, Source!Last(Nest).try)
          BY <3>3, <3>4, <3>5
        <5>2. Nest' = Append(Source!Front(Nest), [Source!Last(Nest) EXCEPT !.at = "finally", !.pend = "normal"])
          <6> HIDE DEF t, s, m
          <6> QED BY <3>3, <4>3, <4>6
        <5> QED BY <4>1, <5>1, <5>2, SourceSame DEF Source!Fall
      <4> QED BY <1>4, <3>1, <4>3, <4>7, CompleteNormal
    <3>6. CASE ~ HasFinally(prog, s)
      <4>1. TryLeave(ctl[m].at)
        BY <3>1, <3>6, <2>1 DEF Fall
      <4>2. Thunks' /\ Nest' = Front(Nest) /\ out' = out
        BY <1>4, <3>2, <4>1, LeaveNormal
      <4>3. Source!Fall(Nest)
        <5>1. ~ HasFinally(prog, Source!Last(Nest).try)
          BY <3>3, <3>4, <3>6
        <5> QED BY Zenon, <3>3, <4>2, <5>1, SourceSame DEF Source!Fall
      <4> QED BY <1>4, <3>1, <4>2, <4>3, CompleteNormal
    <3> QED BY <3>5, <3>6
  <2>4. CASE ctl[m].at \in {"leave", "leaveCatch"}
    <3> DEFINE r == IF ctl[m].at = "leave" THEN "try" ELSE "catch"
    <3>1. TryLeave(r) /\ At = "finally" /\ ctl[m].at \notin {"try", "catch"}
      BY <1>2, <1>4, <2>1, <2>4 DEF SourceRegion, Region
    <3>2. Pending(ctl[m]) = IF LeaveReturns(prog, s, r) THEN "return" ELSE "normal"
      BY <2>4 DEF Pending
    <3> HIDE DEF r
    <3>3. CASE LeaveReturns(prog, s, r)
      <4>1. Thunks' /\ Source!Leave(Nest, "return")
        BY <1>4, <3>1, <3>3, LeaveReturning
      <4>2. Pending(ctl[m]) = "return"
        BY <3>2, <3>3
      <4> QED BY <1>4, <3>1, <4>1, <4>2, CompleteNormal
    <3>4. CASE ~ LeaveReturns(prog, s, r)
      <4>1. Thunks' /\ Nest' = Front(Nest) /\ out' = out
        BY <1>4, <3>1, <3>4, LeaveNormal
      <4>2. Pending(ctl[m]) = "normal"
        BY <3>2, <3>4
      <4> QED BY <1>4, <3>1, <4>1, <4>2, CompleteNormal
    <3> QED BY <3>3, <3>4
  <2>5. CASE ctl[m].at \notin {"try", "catch", "leave", "leaveCatch"}
    <3>1. ctl[m].at = "thunk"
      BY <2>1, <2>5 DEF Place
    <3>2. ThunkDone
      BY <1>2, <1>4, <2>1, <2>5
    <3>3. Source!Leave(Nest, "throw") /\ Thunks'
      BY <1>4, <3>1, <3>2, ThunkSource
    <3>4. At = "finally" /\ Pending(ctl[m]) = "throw"
      BY <2>1, <3>1 DEF SourceRegion, Region, Pending
    <3> QED BY <1>4, <3>3, <3>4, CompleteNormal
  <2> QED BY <2>3, <2>4, <2>5
<1> QED BY <1>3, <1>4

LEMMA SourceInit ==
  ASSUME TryInit
  PROVE  Source!Init /\ Thunks
<1>1. ctl = <<>> /\ out = "running"
  BY DEF TryInit
<1>2. Nest = <<>>
  BY <1>1 DEF Nest
<1> QED BY <1>1, <1>2 DEF Source!Init, Thunks

\* Every step of the emitted code is a step of the source or none at all.
LEMMA SourceStep ==
  ASSUME TryInv, AllSupported, Thunks, [TryNext]_tryVars
  PROVE  [Source!Next]_(Source!vars) /\ Thunks'
<1>1. Supported(prog)
  BY DEF AllSupported, TryInv
<1>2. ASSUME NEW c \in DOMAIN prog.stmts, Enter(c) PROVE Source!Next /\ Thunks'
  BY <1>2, EnterSource
<1>3. CASE Declare
  BY <1>3, DeclareSource
<1>4. CASE EndBlock
  BY <1>1, <1>4, EndSource
<1>5. CASE ThrowHere
  BY <1>1, <1>5, ThrowHereSource
<1>6. CASE ReturnHere
  BY <1>1, <1>6, ReturnSource
<1>7. CASE Await
  <2>1. UNCHANGED <<prog, ctl, out>>
    BY <1>7 DEF Await
  <2> QED BY <2>1, StutterSource
<1>8. CASE Done \/ UNCHANGED tryVars
  <2>1. UNCHANGED <<prog, ctl, out>>
    BY <1>8 DEF Done, tryVars
  <2> QED BY <2>1, StutterSource
<1> QED BY <1>2, <1>3, <1>4, <1>5, <1>6, <1>7, <1>8 DEF TryNext

\* The code emitted for the try statements of a supported program goes from
\* region to region as the program is written.
THEOREM RunsAsWrittenTheorem == AllSupported => (TrySpec => RunsAsWritten)
<1> SUFFICES ASSUME AllSupported PROVE TrySpec => RunsAsWritten
  OBVIOUS
<1>1. TryInit => TryInv /\ Thunks /\ Source!Init
  BY TryInitInv, SourceInit
<1>2. TryInv /\ Thunks /\ [TryNext]_tryVars => (TryInv /\ Thunks)' /\ [Source!Next]_(Source!vars)
  BY TryStepInv, SourceStep
<1> QED BY <1>1, <1>2, PTL DEF TrySpec, RunsAsWritten, Source!Spec
=============================================================================
