------------------------------ MODULE MemPool ------------------------------
(***************************************************************************)
(* core/mempool.c: the allocator behind sessions, timer tasks, queue nodes *)
(* and message blocks.  Its operations run under _light_lock, one at a     *)
(* time.  Memory is a line of bytes; malloc hands out the next ones, with  *)
(* a byte between that is nobody's, until there are MaxMemory.  Requests   *)
(* beyond _MAX_BYTES go to malloc and free and do not touch the pool.      *)
(***************************************************************************)
EXTENDS Integers, Sequences, FiniteSetsExt

CONSTANTS
  Align,      \* _ALIGN, 8
  MaxBytes,   \* _MAX_BYTES, 512
  Batch,      \* the 20 objects mempool_s_refill asks for
  Sizes,      \* bound: the sizes that are requested
  MaxHeld,    \* bound: how many objects are held at a time
  MaxMemory   \* bound: the memory malloc can hand out

ASSUME MemAssumption ==
  /\ Align \in Nat \ {0} /\ Batch \in Nat \ {0, 1} /\ MaxMemory \in Nat /\ MaxHeld \in Nat
  /\ MaxBytes \in Nat /\ MaxBytes % Align = 0
  /\ Sizes \subseteq 1 .. MaxBytes

VARIABLES
  free_list,  \* per index: the addresses on _S_free_list, first one first
  start_free, end_free, heap_size,
  mapped,     \* the blocks malloc has handed out
  held,       \* the objects allocated and not given back, with their sizes
  single      \* history: mempool_s_refill got a single object

memVars == <<free_list, start_free, end_free, heap_size, mapped, held, single>>

Lists == 0 .. MaxBytes \div Align - 1

\* mempool_s_round_up and mempool_s_freelist_index
RoundUp(n) == ((n + Align - 1) \div Align) * Align
Index(n) == (n + Align - 1) \div Align - 1

MemInit ==
  /\ free_list = [i \in Lists |-> << >>]
  /\ start_free = 0 /\ end_free = 0 /\ heap_size = 0
  /\ mapped = {} /\ held = {} /\ single = FALSE

-----------------------------------------------------------------------------
\* What follows when memory that is not the pool's was put on a list is undefined.
CanAllocate == ~single /\ Cardinality(held) < MaxHeld

(* mempool_allocate *)

\* Faulty variant: the first object stays on its list.
TakeStill(n) ==
  /\ CanAllocate
  /\ free_list[Index(n)] # << >>
  /\ held' = held \cup {[at |-> Head(free_list[Index(n)]), size |-> n]}
  /\ UNCHANGED <<free_list, start_free, end_free, heap_size, mapped, single>>

\* There is a free object of the size.
Take(n) ==
  /\ CanAllocate
  /\ free_list[Index(n)] # << >>
  /\ held' = held \cup {[at |-> Head(free_list[Index(n)]), size |-> n]}
  /\ free_list' = [free_list EXCEPT ![Index(n)] = Tail(@)]
  /\ UNCHANGED <<start_free, end_free, heap_size, mapped, single>>

\* Faulty variant: the list gets an object more than there are.
CarvedTooMany(n, lists, start, end) ==
  LET size == RoundUp(n)
      fit == (end - start) \div size
      nobjs == IF fit >= Batch THEN Batch ELSE fit
  IN /\ free_list' = [lists EXCEPT ![Index(n)] = [i \in 1 .. nobjs |-> start + i * size]]
     /\ held' = held \cup {[at |-> start, size |-> n]}
     /\ start_free' = start + nobjs * size
     /\ end_free' = end
     /\ single' = (single \/ nobjs = 1)

\* mempool_s_refill, with the objects mempool_s_chunk_alloc cuts out of the
\* chunk from start to end, which holds one at least: the first is the caller's,
\* and the list of the others begins with the second, whether it is there or not.
Carved(n, lists, start, end) ==
  LET size == RoundUp(n)
      fit == (end - start) \div size
      nobjs == IF fit >= Batch THEN Batch ELSE fit
      rest == IF nobjs = 1 THEN 1 ELSE nobjs - 1
  IN /\ free_list' = [lists EXCEPT ![Index(n)] = [i \in 1 .. rest |-> start + i * size]]
     /\ held' = held \cup {[at |-> start, size |-> n]}
     /\ start_free' = start + nobjs * size
     /\ end_free' = end
     /\ single' = (single \/ nobjs = 1)

Left == end_free - start_free

\* The chunk still holds an object.
Refill(n) ==
  /\ CanAllocate
  /\ free_list[Index(n)] = << >> /\ Left >= RoundUp(n)
  /\ Carved(n, free_list, start_free, end_free)
  /\ UNCHANGED <<heap_size, mapped>>

\* What is left of a chunk too small for the object goes to the list of its size.
Shelved ==
  IF Left > 0 THEN [free_list EXCEPT ![Index(Left)] = <<start_free>> \o @] ELSE free_list

ToGet(n) == 2 * RoundUp(n) * Batch + RoundUp(heap_size \div 16)
Brk == Max({0} \cup {b.at + b.size + 1 : b \in mapped})
Starved(n) == CanAllocate /\ free_list[Index(n)] = << >> /\ Left < RoundUp(n)

\* A new chunk from malloc; the second time it is asked when the first time failed
\* and there was no object to cut up, which makes no difference.
RefillFromHeap(n) ==
  /\ Starved(n)
  /\ Brk + ToGet(n) <= MaxMemory
  /\ mapped' = mapped \cup {[at |-> Brk, size |-> ToGet(n)]}
  /\ heap_size' = heap_size + ToGet(n)
  /\ Carved(n, Shelved, Brk, Brk + ToGet(n))

\* malloc fails: a free object of the next larger size there is becomes the chunk.
\* (When there is none and malloc fails again the program dies.)
RefillFromList(n) ==
  /\ Starved(n)
  /\ Brk + ToGet(n) > MaxMemory
  /\ LET larger == {i \in Lists : i >= Index(n) /\ Shelved[i] # << >>}
         i == Min(larger)
         chunk == Head(Shelved[i])
     IN /\ larger # {}
        /\ Carved(n, [Shelved EXCEPT ![i] = Tail(@)], chunk, chunk + (i + 1) * Align)
  /\ UNCHANGED <<heap_size, mapped>>

-----------------------------------------------------------------------------
\* mempool_deallocate
Give(o) ==
  /\ ~single
  /\ free_list' = [free_list EXCEPT ![Index(o.size)] = <<o.at>> \o @]
  /\ held' = held \ {o}
  /\ UNCHANGED <<start_free, end_free, heap_size, mapped, single>>

MemNext ==
  \/ \E n \in Sizes : Take(n) \/ Refill(n) \/ RefillFromHeap(n) \/ RefillFromList(n)
  \/ \E o \in held : Give(o)

MemSpec == MemInit /\ [][MemNext]_memVars

-----------------------------------------------------------------------------
(* Properties *)

Bytes(at, size) == at .. at + size - 1

\* Every byte that came from malloc is in just one place: in an object somebody
\* holds, in an object at one place of one free list, or in what is left of the
\* chunk; and heap_size is what malloc has handed out.
Partitioned ==
  LET Held == {[at |-> o.at, size |-> RoundUp(o.size), of |-> <<"held", o.size>>] : o \in held}
      Listed(i) == {[at |-> free_list[i][j], size |-> (i + 1) * Align, of |-> <<"free", j>>] :
                      j \in DOMAIN free_list[i]}
      Chunk == IF Left > 0 THEN {[at |-> start_free, size |-> Left, of |-> <<"chunk", 0>>]} ELSE {}
      Parts == Held \cup (UNION {Listed(i) : i \in Lists}) \cup Chunk
  IN /\ UNION {Bytes(p.at, p.size) : p \in Parts} = UNION {Bytes(b.at, b.size) : b \in mapped}
     /\ \A p, q \in Parts : p # q => Bytes(p.at, p.size) \cap Bytes(q.at, q.size) = {}
     /\ heap_size + Cardinality(mapped) = Brk

\* No two holders share a byte, no object is on two lists or on one twice, and no
\* memory gets lost, however objects of all sizes are allocated and given back and
\* chunks are cut up - as long as no refill has got a single object.
\* (mempool_s_refill, mempool_s_chunk_alloc)
MemoryPartitioned == ~single => Partitioned

=============================================================================
