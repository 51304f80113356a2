---------------------------- MODULE Pools_proofs ----------------------------
(***************************************************************************)
(* Proofs about the pools and about what is in a stream.  StreamPool,      *)
(* for any borrowers, any number of userdata and streams and any capacity: *)
(* OwnBytesOnly holds in every state.  PoolIInv is inductive: as long as   *)
(* scripts are careful a stream is in just one place, and what is in the   *)
(* pool is alive, empty and may be written to, so that whoever gets it     *)
(* begins with nothing in it.                                              *)
(*                                                                         *)
(* MemPool, for any alignment, sizes, batch and memory: MemoryPartitioned  *)
(* holds in every state.  MemIInv says of each byte that it is in one      *)
(* place and of the chunk that it can be cut up or put on a list; the four *)
(* ways to get an object are put together from what happens to the places  *)
(* when an object changes lists, a chunk is cut up or malloc gives more.   *)
(*                                                                         *)
(* ByteStream, for any base, buffer sizes, numbers, doubles, floats and    *)
(* strings of bytes: BufferHolds and RoundTrip hold in every state.  The   *)
(* recursive functions (powers, sums of digits, the loop that grows the    *)
(* buffer, the strings of an array) are shown to exist by Recursion and to *)
(* have their types by UpTo.  NumberBack reads a number back from its      *)
(* digits; StoredIs says that what was stored of a number is handed back   *)
(* as it is, CStringIs that a string is cut once; ItemIs reads what is due *)
(* for any item from its bytes.  In ByteIInv the items lie one after the   *)
(* other and fill the buffer, and the place to read from is the end of one *)
(* of them.                                                                *)
(*                                                                         *)
(* MysqlPool, for any number of threads, results and connections: LentOnce *)
(* and SlotsComeBack hold in every state.  They are inductive together:    *)
(* that a free slot is nobody's is what makes lending it safe, and that a  *)
(* connection is lent once is what makes it right to free its slot when    *)
(* one gives it back.  Good states both of a lending, a list of slots and  *)
(* a set of open connections, so that each step is a lemma about these     *)
(* three values.                                                           *)
(***************************************************************************)
EXTENDS StreamPool, MemPool, ByteStream, MysqlPool,
        FiniteSetTheorems, SequenceTheorems, WellFoundedInduction, TLAPS

\* Among some numbers there is a least, and Min is it.
LEMMA LeastIn == ASSUME NEW S \in SUBSET Nat, S # {} PROVE \E m \in S : \A i \in S : m =< i
<1> DEFINE Less == OpToRel(<, Nat)
<1>1. IsWellFoundedOn(Less, Nat)
  BY NatLessThanWellFounded
<1>2. \A i, j \in Nat : i < j => <<i, j>> \in Less
  BY DEF OpToRel
<1>. HIDE DEF Less
<1>3. \E m \in S : \A i \in S : ~(<<i, m>> \in Less)
  BY <1>1, WFMin
<1>4. \E m \in S : \A i \in S : ~(i < m)
  BY <1>2, <1>3
<1>. QED BY <1>4

LEMMA MinIn == ASSUME NEW S \in SUBSET Nat, S # {} PROVE Min(S) \in S
BY LeastIn DEF Min

-----------------------------------------------------------------------------
(* StreamPool *)

StreamRecord == [live : BOOLEAN, readOnly : BOOLEAN, data : Seq(Borrowers \cup {Script})]

Pooled(s) == \E i \in 1 .. Len(pool) : pool[i] = s

\* What may be handed out: a stream that can be filled and cleared.
Usable(s) == mem[s].live /\ ~mem[s].readOnly

PooledIsClean ==
  /\ capacity \in Nat \ {0}
  /\ \A i, j \in 1 .. Len(pool) : pool[i] = pool[j] => i = j
  /\ \A i \in 1 .. Len(pool) : Usable(pool[i]) /\ mem[pool[i]].data = << >>

BorrowedApart ==
  \A t \in Borrowers :
    /\ bpc[t] = "idle" <=> mine[t] = 0
    /\ bpc[t] # "idle" =>
         /\ Usable(mine[t]) /\ ~Pooled(mine[t])
         /\ \A u \in Borrowers \ {t} : mine[u] # mine[t]
         /\ bpc[t] = "append" => mem[mine[t]].data = << >>
         /\ bpc[t] = "use" => mem[mine[t]].data = <<t>>

HeldApart ==
  \A h \in Handles \ lent : handle[h] # 0 =>
    /\ mem[handle[h]].live /\ ~Pooled(handle[h])
    /\ \A t \in Borrowers : mine[t] # handle[h]
    /\ \A g \in Handles \ (lent \cup {h}) : handle[g] # handle[h]

PoolIInv == Careful => PoolTypeOK /\ PooledIsClean /\ BorrowedApart /\ HeldApart

-----------------------------------------------------------------------------
\* What malloc returns was free.
LEMMA LeastIsFree == CanCreate => Min(Free) \in Address /\ ~mem[Min(Free)].live
<1> SUFFICES ASSUME CanCreate PROVE Min(Free) \in Free
  BY DEF Free
<1>1. Free # {} /\ Free \subseteq Nat
  BY StreamPoolAssumption DEF CanCreate, Free, Address
<1>. QED BY <1>1, MinIn

\* A stream that is obtained is in nobody's hands, empty and usable, and no
\* longer in the pool.
LEMMA AcquiredIs ==
  ASSUME Careful, PoolIInv, NEW s \in Address, Acquired(s)
  PROVE  /\ pool' \in Seq(Address) /\ Len(pool') <= Len(pool)
         /\ \A i \in 1 .. Len(pool') : pool'[i] = pool[i] /\ pool'[i] # s
         /\ mem' \in [Address -> StreamRecord]
         /\ mem'[s].live /\ ~mem'[s].readOnly /\ mem'[s].data = << >>
         /\ \A r \in Address \ {s} : mem'[r] = mem[r]
         /\ \A t \in Borrowers : mine[t] # s
         /\ \A h \in Handles \ lent : handle[h] # s
<1>1. PoolTypeOK /\ PooledIsClean /\ BorrowedApart /\ HeldApart
  BY DEF PoolIInv
<1>2. CASE pool # << >>
  <2>1. /\ Len(pool) \in Nat \ {0} /\ s = pool[Len(pool)] /\ mem' = mem
        /\ pool' = SubSeq(pool, 1, Len(pool) - 1)
    BY <1>1, <1>2 DEF Acquired, Last, Front, PoolTypeOK
  <2>2. /\ pool' \in Seq(Address) /\ Len(pool') = Len(pool) - 1
        /\ \A i \in 1 .. Len(pool') : pool'[i] = pool[i]
    <3> DEFINE n == Len(pool) - 1
    <3>1. n \in Nat /\ pool' = SubSeq(pool, 1, n)
      BY <2>1
    <3>2. \A i \in 1 .. n : pool[i] \in Address
      BY <1>1, <2>1 DEF PoolTypeOK
    <3>. HIDE DEF n
    <3>3. /\ pool' \in Seq(Address) /\ Len(pool') = n
          /\ \A i \in 1 .. n : pool'[i] = pool[1 + i - 1]
      BY <3>1, <3>2, SubSeqProperties
    <3>. QED BY <3>1, <3>3 DEF n
  <2>3. \A i \in 1 .. Len(pool') : pool'[i] # s
    <3>1. \A i \in 1 .. Len(pool') : i \in 1 .. Len(pool) /\ i # Len(pool)
      BY <2>1, <2>2
    <3>2. Len(pool) \in 1 .. Len(pool)
      BY <2>1
    <3>. QED BY <1>1, <2>1, <2>2, <3>1, <3>2 DEF PooledIsClean
  <2>4. Pooled(s) /\ Usable(s) /\ mem[s].data = << >>
    BY <1>1, <2>1 DEF Pooled, PooledIsClean
  <2>5. \A t \in Borrowers : mine[t] # s
    BY <1>1, <2>4 DEF BorrowedApart, Address
  <2>6. \A h \in Handles \ lent : handle[h] # s
    BY <1>1, <2>4 DEF HeldApart, Address
  <2>7. mem' \in [Address -> StreamRecord]
    BY <1>1, <2>1 DEF PoolTypeOK, StreamRecord
  <2>8. /\ mem'[s].live /\ ~mem'[s].readOnly /\ mem'[s].data = << >>
        /\ \A r \in Address \ {s} : mem'[r] = mem[r]
    BY <2>1, <2>4 DEF Usable
  <2>9. Len(pool') <= Len(pool)
    BY <2>1, <2>2
  <2>. QED BY <2>2, <2>3, <2>5, <2>6, <2>7, <2>8, <2>9
<1>3. CASE pool = << >>
  <2>1. /\ s = Min(Free) /\ ~mem[s].live /\ pool' = pool /\ Len(pool) = 0
        /\ mem' = [mem EXCEPT ![s] = Stream(FALSE, << >>)]
    BY <1>3, LeastIsFree DEF Acquired
  <2>2. mem' \in [Address -> StreamRecord]
    <3>1. Stream(FALSE, << >>) \in StreamRecord
      BY DEF Stream, StreamRecord
    <3>. QED BY <1>1, <2>1, <3>1 DEF PoolTypeOK, StreamRecord
  <2>3. /\ mem'[s].live /\ ~mem'[s].readOnly /\ mem'[s].data = << >>
        /\ \A r \in Address \ {s} : mem'[r] = mem[r]
    BY <1>1, <2>1 DEF PoolTypeOK, Stream
  <2>4. \A t \in Borrowers : mine[t] # s
    BY <1>1, <2>1 DEF BorrowedApart, Usable, Address
  <2>5. \A h \in Handles \ lent : handle[h] # s
    BY <1>1, <2>1 DEF HeldApart, Address
  <2>6. /\ pool' \in Seq(Address) /\ Len(pool') <= Len(pool)
        /\ \A i \in 1 .. Len(pool') : pool'[i] = pool[i] /\ pool'[i] # s
    BY <1>1, <2>1 DEF PoolTypeOK
  <2>. QED BY <2>2, <2>3, <2>4, <2>5, <2>6
<1>. QED BY <1>2, <1>3

LEMMA AcquiredLeavesPool ==
  ASSUME Careful, PoolIInv, NEW s \in Address, Acquired(s), capacity' = capacity
  PROVE  /\ PooledIsClean'
         /\ \A r \in Address : Pooled(r)' => Pooled(r) /\ r # s
<1>1. PoolTypeOK /\ PooledIsClean
  BY DEF PoolIInv
<1>2. /\ pool' \in Seq(Address) /\ Len(pool') <= Len(pool)
      /\ \A i \in 1 .. Len(pool') : pool'[i] = pool[i] /\ pool'[i] # s
      /\ \A r \in Address \ {s} : mem'[r] = mem[r]
  BY AcquiredIs
<1>3. \A i \in 1 .. Len(pool') :
        i \in 1 .. Len(pool) /\ pool'[i] = pool[i] /\ pool[i] \in Address \ {s}
  BY <1>1, <1>2 DEF PoolTypeOK
<1>4. PooledIsClean'
  <2>1. \A i, j \in 1 .. Len(pool') : pool'[i] = pool'[j] => i = j
    BY <1>1, <1>3 DEF PooledIsClean
  <2>2. \A i \in 1 .. Len(pool') : Usable(pool[i])' /\ mem'[pool[i]].data = << >>
    BY <1>1, <1>2, <1>3 DEF PooledIsClean, Usable
  <2>. QED BY <1>1, <1>3, <2>1, <2>2 DEF PooledIsClean, Usable
<1>5. \A r \in Address : Pooled(r)' => Pooled(r) /\ r # s
  BY <1>2, <1>3 DEF Pooled
<1>. QED BY <1>4, <1>5

\* A stream that is given back is the last of the pool, and empty.
LEMMA ReturnedIs ==
  ASSUME Careful, PoolIInv, NEW s \in Address, Usable(s), ~Pooled(s), Returned(s)
  PROVE  /\ pool' \in Seq(Address) /\ Len(pool') = Len(pool) + 1 /\ pool'[Len(pool')] = s
         /\ \A i \in 1 .. Len(pool) : pool'[i] = pool[i]
         /\ capacity' \in Nat \ {0} /\ Len(pool') <= capacity'
         /\ mem' \in [Address -> StreamRecord]
         /\ mem'[s].live /\ ~mem'[s].readOnly /\ mem'[s].data = << >>
         /\ \A r \in Address \ {s} : mem'[r] = mem[r]
         /\ PooledIsClean'
         /\ \A r \in Address : Pooled(r)' => Pooled(r) \/ r = s
<1>1. PoolTypeOK /\ PooledIsClean
  BY DEF PoolIInv
<1>2. /\ pool' \in Seq(Address) /\ Len(pool') = Len(pool) + 1 /\ pool'[Len(pool')] = s
      /\ \A i \in 1 .. Len(pool) : pool'[i] = pool[i]
  BY <1>1 DEF Returned, PoolTypeOK
<1>3. capacity' \in Nat \ {0} /\ Len(pool') <= capacity'
  BY <1>1, <1>2 DEF Returned, PoolTypeOK, PooledIsClean
<1>4. mem' = [mem EXCEPT ![s] = [mem[s] EXCEPT !.data = << >>]]
  BY <1>1 DEF Returned, Cleared, Usable, PoolTypeOK
<1>5. mem[s] \in StreamRecord
  BY <1>1 DEF PoolTypeOK, StreamRecord
<1>6. mem'[s] = [mem[s] EXCEPT !.data = << >>] /\ \A r \in Address \ {s} : mem'[r] = mem[r]
  BY <1>1, <1>4 DEF PoolTypeOK
<1>7. mem'[s].live /\ ~mem'[s].readOnly /\ mem'[s].data = << >>
  BY <1>5, <1>6 DEF Usable, StreamRecord
<1>8. mem' \in [Address -> StreamRecord]
  <2>1. << >> \in Seq(Borrowers \cup {Script})
    OBVIOUS
  <2>2. [mem[s] EXCEPT !.data = << >>] \in StreamRecord
    BY <1>5, <2>1 DEF StreamRecord
  <2>. QED BY <1>1, <1>4, <2>2 DEF PoolTypeOK, StreamRecord
<1>9. /\ Len(pool) \in Nat
      /\ \A i \in 1 .. Len(pool') : i \in 1 .. Len(pool) \/ i = Len(pool')
  BY <1>1, <1>2 DEF PoolTypeOK
<1>10. PooledIsClean'
  <2>1. \A i \in 1 .. Len(pool) : pool[i] \in Address \ {s}
    BY <1>1 DEF PoolTypeOK, Pooled
  <2>2. \A i, j \in 1 .. Len(pool') : pool'[i] = pool'[j] => i = j
    BY <1>1, <1>2, <1>9, <2>1 DEF PooledIsClean
  <2>3. \A i \in 1 .. Len(pool') : mem'[pool'[i]].live /\ ~mem'[pool'[i]].readOnly
                                    /\ mem'[pool'[i]].data = << >>
    <3>1. \A i \in 1 .. Len(pool) : mem'[pool[i]] = mem[pool[i]]
      BY <1>6, <2>1
    <3>. QED BY <1>1, <1>2, <1>7, <1>9, <3>1 DEF PooledIsClean, Usable
  <2>. QED BY <1>3, <2>2, <2>3 DEF PooledIsClean, Usable
<1>11. \A r \in Address : Pooled(r)' => Pooled(r) \/ r = s
  BY <1>2, <1>9 DEF Pooled
<1>. QED BY <1>2, <1>3, <1>6, <1>7, <1>8, <1>10, <1>11

-----------------------------------------------------------------------------
(* C code *)

LEMMA BObtainStep == ASSUME PoolIInv, NEW t \in Borrowers, BObtain(t) PROVE PoolIInv'
<1>1. Careful /\ PoolTypeOK /\ PooledIsClean /\ BorrowedApart /\ HeldApart
  BY DEF BObtain, PoolIInv
<1>2. PICK s \in Address : Acquired(s) /\ mine' = [mine EXCEPT ![t] = s]
  BY DEF BObtain
<1>3. /\ pool' \in Seq(Address) /\ Len(pool') <= Len(pool)
      /\ \A i \in 1 .. Len(pool') : pool'[i] = pool[i] /\ pool'[i] # s
      /\ mem' \in [Address -> StreamRecord]
      /\ mem'[s].live /\ ~mem'[s].readOnly /\ mem'[s].data = << >>
      /\ \A r \in Address \ {s} : mem'[r] = mem[r]
      /\ \A u \in Borrowers : mine[u] # s
      /\ \A h \in Handles \ lent : handle[h] # s
      /\ PooledIsClean'
      /\ \A r \in Address : Pooled(r)' => Pooled(r) /\ r # s
  BY <1>1, <1>2, AcquiredIs, AcquiredLeavesPool DEF BObtain
<1>4. bpc' = [bpc EXCEPT ![t] = "append"] /\ UNCHANGED <<capacity, handle, lent>>
  BY DEF BObtain, BGoto
<1>5. PoolTypeOK'
  BY <1>1, <1>2, <1>3, <1>4 DEF PoolTypeOK, PooledIsClean, StreamRecord
<1>6. BorrowedApart'
  BY <1>1, <1>2, <1>3, <1>4 DEF BorrowedApart, PoolTypeOK, Usable, Address
<1>7. HeldApart'
  BY <1>1, <1>2, <1>3, <1>4 DEF HeldApart, PoolTypeOK
<1>. QED BY <1>3, <1>5, <1>6, <1>7 DEF PoolIInv

LEMMA BAppendStep == ASSUME PoolIInv, NEW t \in Borrowers, BAppend(t) PROVE PoolIInv'
<1> SUFFICES ASSUME Careful' PROVE (PoolTypeOK /\ PooledIsClean /\ BorrowedApart /\ HeldApart)'
  BY DEF PoolIInv
<1>1. Careful /\ PoolTypeOK /\ PooledIsClean /\ BorrowedApart /\ HeldApart
  BY DEF BAppend, PoolIInv, Careful
<1>2. PICK s \in Address : s = mine[t] /\ Usable(s) /\ mem[s].data = << >> /\ ~Pooled(s)
  BY <1>1 DEF BAppend, PoolTypeOK, BorrowedApart
<1>3. mem' = [mem EXCEPT ![s] = [mem[s] EXCEPT !.data = <<t>>]]
  <2>1. mem' = [mem EXCEPT ![s] = [mem[s] EXCEPT !.data = Append(mem[s].data, t)]]
    BY <1>1, <1>2 DEF BAppend, Filled, Usable, PoolTypeOK
  <2>2. Append(mem[s].data, t) = <<t>>
    BY <1>2
  <2>. QED BY <2>1, <2>2
<1>4. /\ bpc' = [bpc EXCEPT ![t] = "use"] /\ bpc[t] = "append"
      /\ UNCHANGED <<pool, capacity, handle, lent, mine>>
  BY DEF BAppend, BGoto
<1>5. mem[s] \in StreamRecord /\ \A r \in Address \ {s} : mem'[r] = mem[r]
  BY <1>1, <1>3 DEF PoolTypeOK, StreamRecord
<1>6. mem'[s] \in StreamRecord /\ Usable(s)' /\ mem'[s].data = <<t>>
  <2>1. mem'[s] = [mem[s] EXCEPT !.data = <<t>>] /\ <<t>> \in Seq(Borrowers \cup {Script})
    BY <1>1, <1>3 DEF PoolTypeOK
  <2>. QED BY <1>2, <1>5, <2>1 DEF StreamRecord, Usable
<1>7. PoolTypeOK'
  BY <1>1, <1>3, <1>4, <1>5, <1>6 DEF PoolTypeOK, StreamRecord
<1>8. PooledIsClean'
  BY <1>1, <1>2, <1>4, <1>5 DEF PooledIsClean, PoolTypeOK, Pooled, Usable
<1>9. BorrowedApart'
  BY <1>1, <1>2, <1>4, <1>5, <1>6 DEF BorrowedApart, PoolTypeOK, Pooled, Usable, Address
<1>10. HeldApart'
  BY <1>1, <1>2, <1>4, <1>5, <1>6 DEF HeldApart, PoolTypeOK, Pooled, Usable
<1>. QED BY <1>7, <1>8, <1>9, <1>10

LEMMA BSendStep == ASSUME PoolIInv, NEW t \in Borrowers, BSend(t) PROVE PoolIInv'
<1> SUFFICES ASSUME Careful' PROVE (PoolTypeOK /\ PooledIsClean /\ BorrowedApart /\ HeldApart)'
  BY DEF PoolIInv
<1>1. Careful /\ PoolTypeOK /\ PooledIsClean /\ BorrowedApart /\ HeldApart
  BY DEF BSend, PoolIInv, Careful
<1> USE DEF BSend, BGoto
<1>2. PoolTypeOK' /\ PooledIsClean' /\ HeldApart'
  BY <1>1 DEF PoolTypeOK, PooledIsClean, Usable, HeldApart, Pooled
<1>3. BorrowedApart'
  BY <1>1 DEF PoolTypeOK, BorrowedApart, Usable, Pooled
<1>. QED BY <1>2, <1>3

\* The userdata of a message is the consumer's stream once more.
LEMMA BCallStep == ASSUME PoolIInv, BCall PROVE PoolIInv'
<1> SUFFICES ASSUME Careful' PROVE (PoolTypeOK /\ PooledIsClean /\ BorrowedApart /\ HeldApart)'
  BY DEF PoolIInv
<1>1. Careful /\ PoolTypeOK /\ PooledIsClean /\ BorrowedApart /\ HeldApart
  BY DEF BCall, PoolIInv, Careful
<1>2. PICK h \in Handles :
        handle' = [handle EXCEPT ![h] = mine[Consumer]] /\ lent' = lent \cup {h}
  BY DEF BCall
<1> USE StreamPoolAssumption DEF BCall, BGoto
<1>3. PoolTypeOK' /\ PooledIsClean'
  BY <1>1, <1>2 DEF PoolTypeOK, PooledIsClean, Usable
<1>4. BorrowedApart'
  BY <1>1 DEF PoolTypeOK, BorrowedApart, Usable, Pooled
<1>5. HeldApart'
  BY <1>1, <1>2 DEF PoolTypeOK, HeldApart, Pooled
<1>. QED BY <1>3, <1>4, <1>5

LEMMA BReturnStep == ASSUME PoolIInv, BReturn PROVE PoolIInv'
<1> SUFFICES ASSUME Careful' PROVE (PoolTypeOK /\ PooledIsClean /\ BorrowedApart /\ HeldApart)'
  BY DEF PoolIInv
<1>1. Careful /\ PoolTypeOK /\ PooledIsClean /\ BorrowedApart /\ HeldApart
  BY DEF BReturn, PoolIInv, Careful
<1> USE StreamPoolAssumption DEF BReturn, BGoto
<1>2. PoolTypeOK' /\ PooledIsClean' /\ HeldApart'
  BY <1>1 DEF PoolTypeOK, PooledIsClean, Usable, HeldApart, Pooled
<1>3. BorrowedApart'
  BY <1>1 DEF PoolTypeOK, BorrowedApart, Usable, Pooled
<1>. QED BY <1>2, <1>3

\* The borrower's stream goes into the pool, where it is once.
LEMMA BGiveupStep == ASSUME PoolIInv, NEW t \in Borrowers, BGiveup(t) PROVE PoolIInv'
<1> SUFFICES ASSUME Careful' PROVE (PoolTypeOK /\ PooledIsClean /\ BorrowedApart /\ HeldApart)'
  BY DEF PoolIInv
<1>1. Careful /\ PoolTypeOK /\ PooledIsClean /\ BorrowedApart /\ HeldApart
  BY DEF BGiveup, PoolIInv, Careful
<1>2. PICK s \in Address : s = mine[t] /\ Usable(s) /\ ~Pooled(s)
  BY <1>1 DEF BGiveup, PoolTypeOK, BorrowedApart
<1>3. /\ pool' \in Seq(Address) /\ Len(pool') = Len(pool) + 1 /\ pool'[Len(pool')] = s
      /\ \A i \in 1 .. Len(pool) : pool'[i] = pool[i]
      /\ capacity' \in Nat \ {0} /\ Len(pool') <= capacity'
      /\ mem' \in [Address -> StreamRecord]
      /\ mem'[s].live /\ ~mem'[s].readOnly /\ mem'[s].data = << >>
      /\ \A r \in Address \ {s} : mem'[r] = mem[r]
      /\ PooledIsClean'
      /\ \A r \in Address : Pooled(r)' => Pooled(r) \/ r = s
  BY <1>1, <1>2, ReturnedIs DEF BGiveup
<1>4. /\ bpc' = [bpc EXCEPT ![t] = "idle"] /\ mine' = [mine EXCEPT ![t] = 0]
      /\ UNCHANGED <<handle, lent>>
  BY DEF BGiveup, BGoto
<1>5. PoolTypeOK'
  BY <1>1, <1>3, <1>4 DEF PoolTypeOK, StreamRecord
<1>6. BorrowedApart'
  BY <1>1, <1>2, <1>3, <1>4 DEF BorrowedApart, PoolTypeOK, Usable, Address
<1>7. HeldApart'
  BY <1>1, <1>2, <1>3, <1>4 DEF HeldApart, PoolTypeOK, Address
<1>. QED BY <1>3, <1>5, <1>6, <1>7

-----------------------------------------------------------------------------
(* Scripts *)

LEMMA ScriptObtainStep == ASSUME PoolIInv, NEW h \in Handles, ScriptObtain(h) PROVE PoolIInv'
<1>1. Careful /\ PoolTypeOK /\ PooledIsClean /\ BorrowedApart /\ HeldApart
  BY DEF ScriptObtain, PoolIInv
<1>2. PICK s \in Address : Acquired(s) /\ handle' = [handle EXCEPT ![h] = s]
  BY DEF ScriptObtain
<1>3. /\ pool' \in Seq(Address) /\ Len(pool') <= Len(pool)
      /\ \A i \in 1 .. Len(pool') : pool'[i] = pool[i] /\ pool'[i] # s
      /\ mem' \in [Address -> StreamRecord]
      /\ mem'[s].live /\ ~mem'[s].readOnly /\ mem'[s].data = << >>
      /\ \A r \in Address \ {s} : mem'[r] = mem[r]
      /\ \A u \in Borrowers : mine[u] # s
      /\ \A g \in Handles \ lent : handle[g] # s
      /\ PooledIsClean'
      /\ \A r \in Address : Pooled(r)' => Pooled(r) /\ r # s
  BY <1>1, <1>2, AcquiredIs, AcquiredLeavesPool DEF ScriptObtain
<1>4. UNCHANGED <<capacity, lent, bpc, mine>>
  BY DEF ScriptObtain
<1>5. PoolTypeOK'
  BY <1>1, <1>2, <1>3, <1>4 DEF PoolTypeOK, PooledIsClean, StreamRecord
<1>6. BorrowedApart'
  BY <1>1, <1>3, <1>4 DEF BorrowedApart, PoolTypeOK, Usable, Address
<1>7. HeldApart'
  BY <1>1, <1>2, <1>3, <1>4 DEF HeldApart, PoolTypeOK
<1>. QED BY <1>3, <1>5, <1>6, <1>7 DEF PoolIInv

LEMMA ScriptCreateStep ==
  ASSUME PoolIInv, NEW h \in Handles, NEW readOnly \in BOOLEAN, ScriptCreate(h, readOnly)
  PROVE  PoolIInv'
<1>1. Careful /\ PoolTypeOK /\ PooledIsClean /\ BorrowedApart /\ HeldApart
  BY DEF ScriptCreate, PoolIInv
<1>2. PICK s \in Address, new \in StreamRecord :
        /\ ~mem[s].live /\ new.live
        /\ mem' = [mem EXCEPT ![s] = new] /\ handle' = [handle EXCEPT ![h] = s]
  <2> DEFINE r == Stream(readOnly, IF readOnly THEN <<Script>> ELSE << >>)
  <2>1. r \in StreamRecord /\ r.live
    <3>1. << >> \in Seq(Borrowers \cup {Script}) /\ <<Script>> \in Seq(Borrowers \cup {Script})
      OBVIOUS
    <3>. QED BY <3>1 DEF Stream, StreamRecord
  <2>2. Min(Free) \in Address /\ ~mem[Min(Free)].live
    BY LeastIsFree DEF ScriptCreate
  <2>. QED BY <2>1, <2>2 DEF ScriptCreate
<1>3. UNCHANGED <<pool, capacity, lent, bpc, mine>>
  BY DEF ScriptCreate
<1>4. /\ \A r \in Address \ {s} : mem'[r] = mem[r]
      /\ mem'[s] = new
  BY <1>1, <1>2 DEF PoolTypeOK
<1>5. PoolTypeOK'
  BY <1>1, <1>2, <1>3 DEF PoolTypeOK, StreamRecord
<1>6. ~Pooled(s) /\ \A t \in Borrowers : mine[t] # s
  BY <1>1, <1>2 DEF PooledIsClean, BorrowedApart, Pooled, Usable, Address
<1>7. \A g \in Handles \ lent : handle[g] # s
  BY <1>1, <1>2 DEF HeldApart, Address
<1>8. PooledIsClean'
  BY <1>1, <1>3, <1>4, <1>6 DEF PooledIsClean, PoolTypeOK, Pooled, Usable
<1>9. BorrowedApart'
  BY <1>1, <1>3, <1>4, <1>6 DEF BorrowedApart, PoolTypeOK, Pooled, Usable, Address
<1>10. HeldApart'
  BY <1>1, <1>2, <1>3, <1>4, <1>6, <1>7 DEF HeldApart, PoolTypeOK, Pooled
<1>. QED BY <1>5, <1>8, <1>9, <1>10 DEF PoolIInv

\* A script that stays careful writes into its own stream, or into that of the
\* message it is being called for.
LEMMA ScriptWriteStep == ASSUME PoolIInv, NEW h \in Handles, ScriptWrite(h) PROVE PoolIInv'
<1> SUFFICES ASSUME Careful' PROVE (PoolTypeOK /\ PooledIsClean /\ BorrowedApart /\ HeldApart)'
  BY DEF PoolIInv
<1>1. Careful /\ PoolTypeOK /\ PooledIsClean /\ BorrowedApart /\ HeldApart
  BY DEF ScriptWrite, PoolIInv
<1>2. PICK s \in Address : s = handle[h] /\ mem' = [mem EXCEPT ![s] = Filled(mem[s], Script)]
  BY <1>1 DEF ScriptWrite, PoolTypeOK
<1>3. UNCHANGED <<pool, capacity, handle, lent, bpc, mine>>
  BY DEF ScriptWrite
<1>4. h \in lent => bpc[Consumer] = "call" /\ s = mine[Consumer]
  BY <1>2 DEF ScriptWrite, Careful
<1>5. /\ \A r \in Address \ {s} : mem'[r] = mem[r]
      /\ mem'[s] \in StreamRecord
      /\ mem'[s].live = mem[s].live /\ mem'[s].readOnly = mem[s].readOnly
  <2>1. mem[s] \in StreamRecord
    BY <1>1 DEF PoolTypeOK, StreamRecord
  <2>2. Append(mem[s].data, Script) \in Seq(Borrowers \cup {Script})
    <3>1. mem[s].data \in Seq(Borrowers \cup {Script}) /\ Script \in Borrowers \cup {Script}
      BY <2>1 DEF StreamRecord
    <3>. QED BY <3>1
  <2>3. mem'[s] = Filled(mem[s], Script) /\ \A r \in Address \ {s} : mem'[r] = mem[r]
    BY <1>1, <1>2 DEF PoolTypeOK
  <2>. QED BY <2>1, <2>2, <2>3 DEF Filled, StreamRecord
<1>6. PoolTypeOK'
  BY <1>1, <1>2, <1>3, <1>5 DEF PoolTypeOK, StreamRecord
<1>7. ~Pooled(s)
  BY <1>1, <1>2, <1>4, StreamPoolAssumption DEF BorrowedApart, HeldApart, ScriptWrite
<1>8. PooledIsClean'
  <2>1. \A i \in 1 .. Len(pool) : pool[i] \in Address \ {s}
    BY <1>1, <1>7 DEF PoolTypeOK, Pooled
  <2>. QED BY <1>1, <1>3, <1>5, <2>1 DEF PooledIsClean, Usable
<1>9. \A t \in Borrowers : mine[t] = s => t = Consumer /\ bpc[t] = "call"
  BY <1>1, <1>2, <1>4, StreamPoolAssumption DEF BorrowedApart, HeldApart, Address
<1>10. \A r \in Address : /\ Pooled(r)' <=> Pooled(r)
                          /\ Usable(r)' <=> Usable(r)
                          /\ mem'[r].live = mem[r].live
  BY <1>3, <1>5 DEF Pooled, Usable
<1>11. BorrowedApart'
  <2>1. SUFFICES ASSUME NEW t \in Borrowers, bpc[t] # "idle"
                 PROVE  /\ Usable(mine[t])' /\ ~Pooled(mine[t])'
                        /\ bpc[t] = "append" => mem'[mine[t]].data = << >>
                        /\ bpc[t] = "use" => mem'[mine[t]].data = <<t>>
    BY <1>1, <1>3 DEF BorrowedApart
  <2>2. mine[t] \in Address
    BY <1>1, <2>1 DEF PoolTypeOK, BorrowedApart, Address
  <2>3. bpc[t] # "call" => mem'[mine[t]] = mem[mine[t]]
    BY <1>5, <1>9, <2>2
  <2>. QED BY <1>1, <1>3, <1>10, <2>1, <2>2, <2>3 DEF BorrowedApart
<1>12. HeldApart'
  <2>1. \A g \in Handles : handle[g] # 0 => handle[g] \in Address
    BY <1>1 DEF PoolTypeOK, Address
  <2>. QED BY <1>1, <1>3, <1>10, <2>1 DEF HeldApart
<1>. QED BY <1>6, <1>8, <1>11, <1>12

\* A script that stays careful gives back its own stream, which it can write to.
LEMMA ScriptGiveupStep == ASSUME PoolIInv, NEW h \in Handles, ScriptGiveup(h) PROVE PoolIInv'
<1> SUFFICES ASSUME Careful' PROVE (PoolTypeOK /\ PooledIsClean /\ BorrowedApart /\ HeldApart)'
  BY DEF PoolIInv
<1>1. Careful /\ PoolTypeOK /\ PooledIsClean /\ BorrowedApart /\ HeldApart
  BY DEF ScriptGiveup, PoolIInv
<1>2. PICK s \in Address : s = handle[h] /\ Usable(s) /\ ~Pooled(s) /\ h \notin lent
  BY <1>1 DEF ScriptGiveup, PoolTypeOK, HeldApart, Careful, Usable
<1>3. /\ pool' \in Seq(Address) /\ Len(pool') = Len(pool) + 1 /\ pool'[Len(pool')] = s
      /\ \A i \in 1 .. Len(pool) : pool'[i] = pool[i]
      /\ capacity' \in Nat \ {0} /\ Len(pool') <= capacity'
      /\ mem' \in [Address -> StreamRecord]
      /\ mem'[s].live /\ ~mem'[s].readOnly /\ mem'[s].data = << >>
      /\ \A r \in Address \ {s} : mem'[r] = mem[r]
      /\ PooledIsClean'
      /\ \A r \in Address : Pooled(r)' => Pooled(r) \/ r = s
  BY <1>1, <1>2, ReturnedIs DEF ScriptGiveup
<1>4. handle' = [handle EXCEPT ![h] = 0] /\ lent' = lent /\ UNCHANGED <<bpc, mine>>
  BY <1>2 DEF ScriptGiveup
<1>5. PoolTypeOK'
  BY <1>1, <1>3, <1>4 DEF PoolTypeOK, StreamRecord
<1>6. \A t \in Borrowers : mine[t] # s
  BY <1>1, <1>2, <1>4 DEF HeldApart, Address
<1>7. BorrowedApart'
  BY <1>1, <1>3, <1>4, <1>6 DEF BorrowedApart, PoolTypeOK, Usable, Address
<1>8. HeldApart'
  BY <1>1, <1>2, <1>3, <1>4 DEF HeldApart, PoolTypeOK, Address
<1>. QED BY <1>3, <1>5, <1>7, <1>8

-----------------------------------------------------------------------------
LEMMA InitPoolIInv == PoolInit => PoolIInv
<1> SUFFICES ASSUME PoolInit PROVE PoolIInv
  OBVIOUS
<1> USE StreamPoolAssumption DEF PoolInit
<1>1. PoolTypeOK
  BY DEF PoolTypeOK, Freed
<1>2. PooledIsClean /\ BorrowedApart /\ HeldApart
  BY DEF PooledIsClean, BorrowedApart, HeldApart
<1>. QED BY <1>1, <1>2 DEF PoolIInv

LEMMA NextPoolIInv == PoolIInv /\ [PoolNext]_poolVars => PoolIInv'
<1> SUFFICES ASSUME PoolIInv, [PoolNext]_poolVars PROVE PoolIInv'
  OBVIOUS
<1>1. CASE UNCHANGED poolVars
  BY <1>1 DEF PoolIInv, poolVars, Careful, PoolTypeOK, PooledIsClean, BorrowedApart, HeldApart,
              Usable, Pooled
<1>2. ASSUME NEW h \in Handles, Collect(h) PROVE PoolIInv'
  BY <1>2 DEF Collect, PoolIInv, Careful
<1>. QED BY <1>1, <1>2, BObtainStep, BAppendStep, BSendStep, BGiveupStep, BCallStep, BReturnStep,
         ScriptObtainStep, ScriptWriteStep, ScriptGiveupStep, ScriptCreateStep DEF PoolNext

\* The inductive invariant of the pool of byte streams.  (objectpool_acquire,
\* objectpool_release)
THEOREM StreamPoolInvariant == PoolSpec => []PoolIInv
<1>. QED BY InitPoolIInv, NextPoolIInv, PTL DEF PoolSpec

\* As long as scripts are careful, what is sent or handed to a script are the
\* bytes the C code has put into its stream, and a stream is in one place.
\* (socket_send_data, netmsgqueue_thread_run, objectpooltolua.c)
THEOREM StreamPoolOwnBytes == PoolSpec => []OwnBytesOnly
<1>1. PoolIInv => OwnBytesOnly
  <2> SUFFICES ASSUME PoolIInv, Careful PROVE OwnBytesOnly
    BY DEF OwnBytesOnly
  <2>1. PoolTypeOK /\ PooledIsClean /\ BorrowedApart /\ HeldApart
    BY DEF PoolIInv
  <2>2. IsInjective(pool)
    BY <2>1 DEF IsInjective, PooledIsClean, PoolTypeOK
  <2>. QED BY <2>1, <2>2 DEF OwnBytesOnly, BorrowedApart, HeldApart, Pooled, Contains
<1>. QED BY <1>1, StreamPoolInvariant, PTL

-----------------------------------------------------------------------------
(* MemPool: where each byte is *)

\* Byte x is one of the size bytes from at on.
In(x, at, size) == at =< x /\ x < at + size

\* Where byte x may be: in an object of h, in one on a list of l, in a block of m.
HeldAt(h, x) == \E o \in h : In(x, o.at, RoundUp(o.size))
ListedAt(l, x) == \E i \in Lists : \E j \in 1 .. Len(l[i]) : In(x, l[i][j], (i + 1) * Align)
MappedAt(m, x) == \E b \in m : In(x, b.at, b.size)

HeldOnce(h, x) ==
  \A o, q \in h : In(x, o.at, RoundUp(o.size)) /\ In(x, q.at, RoundUp(q.size)) => o = q
ListedOnce(l, x) ==
  \A i, k \in Lists : \A j \in 1 .. Len(l[i]), n \in 1 .. Len(l[k]) :
    In(x, l[i][j], (i + 1) * Align) /\ In(x, l[k][n], (k + 1) * Align) => i = k /\ j = n

\* Byte x is in one place at most, and in one if it came from malloc.
PlaceOf(x, h, l, start, end, m) ==
  /\ HeldAt(h, x) \/ ListedAt(l, x) \/ In(x, start, end - start) <=> MappedAt(m, x)
  /\ ~(HeldAt(h, x) /\ ListedAt(l, x))
  /\ In(x, start, end - start) => ~HeldAt(h, x) /\ ~ListedAt(l, x)
  /\ HeldOnce(h, x) /\ ListedOnce(l, x)

OnePlaceEach(h, l, start, end, m) == \A x \in Nat : PlaceOf(x, h, l, start, end, m)

Lines == [Lists -> Seq(Nat)]

MemTypes ==
  /\ free_list \in Lines
  /\ start_free \in Nat /\ end_free \in Nat /\ heap_size \in Nat
  /\ held \subseteq [at : Nat, size : Sizes]
  /\ mapped \subseteq [at : Nat, size : Nat] /\ IsFiniteSet(mapped)

\* The chunk can be cut into objects of some size, or put on the list of its own.
ChunkFits == start_free =< end_free /\ \E k \in Nat : end_free - start_free = k * Align

\* malloc has nothing behind Brk.
HeapCounted ==
  /\ heap_size + Cardinality(mapped) = Brk
  /\ \A b \in mapped : b.at + b.size < Brk

MemIInv ==
  /\ single \in BOOLEAN
  /\ ~single => /\ MemTypes /\ ChunkFits /\ HeapCounted
                /\ OnePlaceEach(held, free_list, start_free, end_free, mapped)

-----------------------------------------------------------------------------
(* Numbers *)

\* A block that lies in front of another ends before that begins.
LEMMA InFront ==
  ASSUME NEW i \in Nat, NEW k \in Nat, NEW size \in Nat, i < k
  PROVE  i * size \in Nat /\ k * size \in Nat /\ i * size + size =< k * size
<1>1. i * size \in Nat /\ k * size \in Nat
  OBVIOUS
<1>2. PICK d \in Nat : k = i + 1 + d
  <2>1. k - i - 1 \in Nat /\ k = i + 1 + (k - i - 1)
    OBVIOUS
  <2>. QED BY <2>1
<1>3. (i + 1 + d) * size = i * size + size + d * size /\ d * size \in Nat
  OBVIOUS
<1>. QED BY <1>1, <1>2, <1>3

\* A number is so many times size, and less than size more.
LEMMA Divided ==
  ASSUME NEW n \in Nat, NEW size \in Nat \ {0}
  PROVE  /\ n \div size \in Nat /\ (n \div size) * size =< n
         /\ n < (n \div size) * size + size
OBVIOUS

\* The list of a size that is requested, and the size of its objects.
LEMMA SizeClass ==
  ASSUME NEW n \in Sizes
  PROVE  /\ Index(n) \in Lists /\ RoundUp(n) \in Nat \ {0}
         /\ RoundUp(n) = (Index(n) + 1) * Align
<1> DEFINE q == (n + Align - 1) \div Align
           top == MaxBytes \div Align
<1>1. n \in Nat \ {0} /\ n =< MaxBytes /\ Align \in Nat \ {0} /\ MaxBytes \in Nat
  BY MemAssumption
<1>2. q \in Nat /\ q * Align =< n + Align - 1 /\ n + Align - 1 < q * Align + Align
  BY <1>1, Divided
<1>3. top \in Nat /\ MaxBytes = top * Align
  BY <1>1, MemAssumption
<1>4. q * Align \in Nat /\ top * Align \in Nat
  BY <1>1, <1>2, <1>3
<1>5. Index(n) = q - 1 /\ RoundUp(n) = q * Align /\ Lists = 0 .. top - 1
  BY DEF Index, RoundUp, Lists
<1>. HIDE DEF q, top
<1>6. q # 0
  BY <1>1, <1>2, <1>4
<1>7. q =< top
  <2>. SUFFICES ASSUME top < q PROVE FALSE
    BY <1>2, <1>3
  <2>1. top * Align + Align =< q * Align
    BY <1>1, <1>2, <1>3, InFront
  <2>. QED BY <1>1, <1>2, <1>3, <1>4, <2>1
<1>8. q * Align # 0
  BY <1>1, <1>2, <1>4
<1>. QED BY <1>2, <1>3, <1>4, <1>5, <1>6, <1>7, <1>8

\* What is left of a chunk, when it is too small for an object of n bytes, is an
\* object for a list of smaller ones.
LEMMA LeftClass ==
  ASSUME NEW n \in Sizes, NEW k \in Nat \ {0}, k * Align < RoundUp(n)
  PROVE  /\ Index(k * Align) \in Lists /\ Index(k * Align) < Index(n)
         /\ (Index(k * Align) + 1) * Align = k * Align
<1>1. /\ Index(n) \in Lists /\ RoundUp(n) = (Index(n) + 1) * Align
      /\ Align \in Nat \ {0} /\ MaxBytes \in Nat
  BY SizeClass, MemAssumption
<1>2. (k * Align + Align - 1) \div Align = k
  <2>1. k * Align + Align - 1 \in Nat /\ k * Align \in Nat
    BY <1>1
  <2> DEFINE r == (k * Align + Align - 1) \div Align
  <2>2. r \in Nat /\ r * Align =< k * Align + Align - 1 /\ k * Align + Align - 1 < r * Align + Align
    BY <1>1, <2>1, Divided
  <2>3. r * Align \in Nat
    BY <1>1, <2>2
  <2>. HIDE DEF r
  <2>4. ~(r < k)
    <3>1. r < k => r * Align + Align =< k * Align
      BY <1>1, <2>2, InFront
    <3>. QED BY <1>1, <2>1, <2>2, <2>3, <3>1
  <2>5. ~(k < r)
    <3>1. k < r => k * Align + Align =< r * Align
      BY <1>1, <2>2, InFront
    <3>. QED BY <1>1, <2>1, <2>2, <2>3, <3>1
  <2>6. r = k
    BY <2>2, <2>4, <2>5
  <2>. QED BY <2>6 DEF r
<1>3. Index(k * Align) = k - 1
  BY <1>2 DEF Index
<1> DEFINE i == Index(n)
<1>4. i \in Nat /\ i \in Lists /\ Lists = 0 .. MaxBytes \div Align - 1 /\ MaxBytes \div Align \in Nat
  BY <1>1 DEF Lists
<1>5. k * Align < (i + 1) * Align
  BY <1>1
<1>. HIDE DEF i
<1>6. k =< i
  <2>. SUFFICES ASSUME i < k PROVE FALSE
    BY <1>4
  <2>1. CASE i + 1 = k
    BY <1>1, <1>5, <2>1
  <2>2. CASE i + 1 < k
    <3>1. (i + 1) * Align + Align =< k * Align /\ (i + 1) * Align \in Nat /\ k * Align \in Nat
      BY <1>1, <1>4, <2>2, InFront
    <3>. QED BY <1>1, <1>5, <3>1
  <2>. QED BY <1>4, <2>1, <2>2
<1>7. k - 1 \in Lists /\ k - 1 < i /\ (k - 1) + 1 = k
  BY <1>4, <1>6
<1>. QED BY <1>3, <1>7 DEF i

-----------------------------------------------------------------------------
(* Lists that get an object and lose one *)

\* The object at the head of list i is taken off.
LEMMA TakenOff ==
  ASSUME NEW l \in Lines, NEW i \in Lists, l[i] # << >>
  PROVE  LET m == [l EXCEPT ![i] = Tail(@)]
             off(x) == In(x, Head(l[i]), (i + 1) * Align)
         IN /\ m \in Lines /\ Head(l[i]) \in Nat
            /\ \A x : ListedAt(l, x) <=> ListedAt(m, x) \/ off(x)
            /\ \A x : ListedOnce(l, x) => ListedOnce(m, x) /\ ~(ListedAt(m, x) /\ off(x))
<1> DEFINE m == [l EXCEPT ![i] = Tail(@)]
           off(x) == In(x, Head(l[i]), (i + 1) * Align)
<1>1. l[i] \in Seq(Nat) /\ \A k \in Lists : Len(l[k]) \in Nat
  BY DEF Lines
<1>2. /\ Head(l[i]) \in Nat /\ Tail(l[i]) \in Seq(Nat) /\ Head(l[i]) = l[i][1] /\ Len(l[i]) \in Nat \ {0}
      /\ Len(Tail(l[i])) = Len(l[i]) - 1
      /\ \A j \in 1 .. Len(l[i]) - 1 : Tail(l[i])[j] = l[i][j + 1]
  BY <1>1
<1>3. m \in Lines /\ m[i] = Tail(l[i]) /\ \A k \in Lists : k # i => m[k] = l[k]
  BY <1>2 DEF Lines
\* Where an object of m was in l.
<1> DEFINE was(k, j) == IF k = i THEN j + 1 ELSE j
<1>4. \A k \in Lists : \A j \in 1 .. Len(m[k]) :
        was(k, j) \in 1 .. Len(l[k]) /\ m[k][j] = l[k][was(k, j)] /\ ~(k = i /\ was(k, j) = 1)
  <2>. SUFFICES ASSUME NEW k \in Lists, NEW j \in 1 .. Len(m[k])
                PROVE  was(k, j) \in 1 .. Len(l[k]) /\ m[k][j] = l[k][was(k, j)] /\ ~(k = i /\ was(k, j) = 1)
    OBVIOUS
  <2>. HIDE DEF m
  <2>1. CASE k # i
    BY <1>3, <2>1
  <2>2. CASE k = i
    <3>1. j \in 1 .. Len(l[i]) - 1 /\ m[i] = Tail(l[i])
      BY <1>2, <1>3, <2>2
    <3>2. m[i][j] = l[i][j + 1] /\ j + 1 \in 1 .. Len(l[i]) /\ j + 1 # 1
      BY <1>2, <3>1
    <3>. QED BY <2>2, <3>2
  <2>. QED BY <2>1, <2>2
<1>5. \A k \in Lists : \A j \in 1 .. Len(l[k]) :
        (k = i /\ j = 1) \/ \E n \in 1 .. Len(m[k]) : m[k][n] = l[k][j]
  <2>. SUFFICES ASSUME NEW k \in Lists, NEW j \in 1 .. Len(l[k]), ~(k = i /\ j = 1)
                PROVE  \E n \in 1 .. Len(m[k]) : m[k][n] = l[k][j]
    OBVIOUS
  <2>1. CASE k # i
    BY <1>3, <2>1
  <2>2. CASE k = i
    <3>. HIDE DEF m
    <3>1. j - 1 \in 1 .. Len(l[i]) - 1 /\ (j - 1) + 1 = j
      BY <1>2, <2>2
    <3>2. m[k] = Tail(l[i]) /\ j - 1 \in 1 .. Len(m[k])
      BY <1>2, <1>3, <2>2, <3>1
    <3>3. m[k][j - 1] = l[k][j]
      BY <1>2, <2>2, <3>1, <3>2
    <3>. QED BY <3>2, <3>3
  <2>. QED BY <2>1, <2>2
<1>6. 1 \in 1 .. Len(l[i])
  BY <1>2
<1>. HIDE DEF m
<1>7. ASSUME NEW x PROVE ListedAt(l, x) <=> ListedAt(m, x) \/ off(x)
  <2>1. off(x) => ListedAt(l, x)
    BY <1>2, <1>6 DEF ListedAt
  <2>2. ListedAt(m, x) => ListedAt(l, x)
    BY <1>4 DEF ListedAt
  <2>3. ListedAt(l, x) => ListedAt(m, x) \/ off(x)
    BY <1>2, <1>5 DEF ListedAt
  <2>. QED BY <2>1, <2>2, <2>3
<1>8. ASSUME NEW x, ListedOnce(l, x) PROVE ListedOnce(m, x) /\ ~(ListedAt(m, x) /\ off(x))
  <2>1. ListedOnce(m, x)
    <3>. SUFFICES ASSUME NEW k \in Lists, NEW h \in Lists,
                         NEW j \in 1 .. Len(m[k]), NEW n \in 1 .. Len(m[h]),
                         In(x, m[k][j], (k + 1) * Align), In(x, m[h][n], (h + 1) * Align)
                  PROVE  k = h /\ j = n
      BY DEF ListedOnce
    <3>1. k = h /\ was(k, j) = was(h, n)
      <4>1. /\ was(k, j) \in 1 .. Len(l[k]) /\ was(h, n) \in 1 .. Len(l[h])
            /\ m[k][j] = l[k][was(k, j)] /\ m[h][n] = l[h][was(h, n)]
        BY <1>4
      <4>. HIDE DEF was
      <4>. QED BY <1>8, <4>1 DEF ListedOnce
    <3>2. Len(m[k]) \in Nat
      BY <1>3 DEF Lines
    <3>. QED BY <3>1, <3>2
  <2>2. ~(ListedAt(m, x) /\ off(x))
    <3>. SUFFICES ASSUME NEW k \in Lists, NEW j \in 1 .. Len(m[k]),
                         In(x, m[k][j], (k + 1) * Align), off(x)
                  PROVE  FALSE
      BY DEF ListedAt
    <3>1. k = i /\ was(k, j) = 1
      <4>1. was(k, j) \in 1 .. Len(l[k]) /\ m[k][j] = l[k][was(k, j)]
        BY <1>4
      <4>2. In(x, l[i][1], (i + 1) * Align)
        BY <1>2
      <4>. HIDE DEF was
      <4>. QED BY <1>6, <1>8, <4>1, <4>2 DEF ListedOnce
    <3>. QED BY <1>4, <3>1
  <2>. QED BY <2>1, <2>2
<1>. QED BY <1>2, <1>3, <1>7, <1>8 DEF m

\* The object at a is put on list i.
LEMMA PutOn ==
  ASSUME NEW l \in Lines, NEW i \in Lists, NEW a \in Nat
  PROVE  LET m == [l EXCEPT ![i] = <<a>> \o @]
             on(x) == In(x, a, (i + 1) * Align)
         IN /\ m \in Lines
            /\ \A x : ListedAt(m, x) <=> ListedAt(l, x) \/ on(x)
            /\ \A x : ListedOnce(l, x) /\ ~(ListedAt(l, x) /\ on(x)) => ListedOnce(m, x)
<1> DEFINE m == [l EXCEPT ![i] = <<a>> \o @]
           on(x) == In(x, a, (i + 1) * Align)
<1>1. l[i] \in Seq(Nat) /\ \A k \in Lists : Len(l[k]) \in Nat
  BY DEF Lines
<1>2. /\ <<a>> \o l[i] \in Seq(Nat) /\ Len(<<a>> \o l[i]) = Len(l[i]) + 1 /\ (<<a>> \o l[i])[1] = a
      /\ \A j \in 1 .. Len(l[i]) : (<<a>> \o l[i])[j + 1] = l[i][j]
  BY <1>1
<1>3. m \in Lines /\ m[i] = <<a>> \o l[i] /\ \A k \in Lists : k # i => m[k] = l[k]
  BY <1>2 DEF Lines
<1>4. m # << >> /\ m[i] # << >> /\ 1 \in 1 .. Len(m[i])
  BY <1>1, <1>2, <1>3
<1>5. Tail(m[i]) = l[i] /\ Head(m[i]) = a
  <2> DEFINE c == <<a>> \o l[i]
  <2>1. /\ c \in Seq(Nat) /\ c # << >> /\ Len(c) = Len(l[i]) + 1 /\ c[1] = a
        /\ \A j \in 1 .. Len(l[i]) : c[j + 1] = l[i][j]
    BY <1>1, <1>2
  <2>. HIDE DEF c
  <2>2. Tail(c) \in Seq(Nat) /\ Len(Tail(c)) = Len(l[i]) /\ Head(c) = a
        /\ \A j \in 1 .. Len(l[i]) : Tail(c)[j] = c[j + 1]
    BY <1>1, <2>1
  <2>3. Tail(c) = l[i]
    <3>1. /\ Tail(c) \in Seq(Nat) /\ l[i] \in Seq(Nat) /\ Len(Tail(c)) = Len(l[i])
          /\ \A j \in 1 .. Len(Tail(c)) : Tail(c)[j] = l[i][j]
      BY <1>1, <2>1, <2>2
    <3>. QED BY <3>1, SeqEqual, Zenon
  <2>. QED BY <1>3, <2>2, <2>3 DEF c
<1>6. [m EXCEPT ![i] = Tail(@)] = l
  <2>. HIDE DEF m
  <2>. QED BY <1>3, <1>5 DEF Lines
<1>. HIDE DEF m
<1>7. \A x : ListedAt(m, x) <=> ListedAt(l, x) \/ on(x)
  BY <1>3, <1>4, <1>5, <1>6, TakenOff
<1>8. ASSUME NEW x, ListedOnce(l, x), ~(ListedAt(l, x) /\ on(x)) PROVE ListedOnce(m, x)
  <2>. SUFFICES ASSUME NEW k \in Lists, NEW h \in Lists,
                       NEW j \in 1 .. Len(m[k]), NEW n \in 1 .. Len(m[h]),
                       In(x, m[k][j], (k + 1) * Align), In(x, m[h][n], (h + 1) * Align)
                PROVE  k = h /\ j = n
    BY DEF ListedOnce
  \* Either is the new one, or the place before it is one of l.
  <2>1. ASSUME NEW g \in Lists, NEW p \in 1 .. Len(m[g]), ~(g = i /\ p = 1)
        PROVE  LET q == IF g = i THEN p - 1 ELSE p IN q \in 1 .. Len(l[g]) /\ m[g][p] = l[g][q]
    <3>1. CASE g # i
      BY <1>3, <2>1, <3>1
    <3>2. CASE g = i
      <4>1. p - 1 \in 1 .. Len(l[i]) /\ (p - 1) + 1 = p
        BY <1>1, <1>2, <1>3, <2>1, <3>2
      <4>2. m[g][p] = l[g][p - 1]
        BY <1>2, <1>3, <3>2, <4>1
      <4>. QED BY <3>2, <4>1, <4>2
    <3>. QED BY <3>1, <3>2
  <2>2. m[i][1] = a
    BY <1>2, <1>3
  <2>3. CASE k = i /\ j = 1 /\ h = i /\ n = 1
    BY <2>3
  <2>4. CASE k = i /\ j = 1 /\ ~(h = i /\ n = 1)
    <3>1. on(x) /\ ListedAt(l, x)
      BY <2>1, <2>2, <2>4 DEF ListedAt
    <3>. QED BY <1>8, <3>1
  <2>5. CASE ~(k = i /\ j = 1) /\ h = i /\ n = 1
    <3>1. on(x) /\ ListedAt(l, x)
      BY <2>1, <2>2, <2>5 DEF ListedAt
    <3>. QED BY <1>8, <3>1
  <2>6. CASE ~(k = i /\ j = 1) /\ ~(h = i /\ n = 1)
    <3> DEFINE p == IF k = i THEN j - 1 ELSE j
               q == IF h = i THEN n - 1 ELSE n
    <3>1. p \in 1 .. Len(l[k]) /\ m[k][j] = l[k][p] /\ q \in 1 .. Len(l[h]) /\ m[h][n] = l[h][q]
      BY <2>1, <2>6
    <3>2. k = h /\ p = q
      <4>. HIDE DEF p, q
      <4>. QED BY <1>8, <3>1 DEF ListedOnce
    <3>3. Len(m[k]) \in Nat
      BY <1>3 DEF Lines
    <3>. QED BY <3>2, <3>3
  <2>. QED BY <2>3, <2>4, <2>5, <2>6
<1>. QED BY <1>3, <1>7, <1>8 DEF m

-----------------------------------------------------------------------------
(* A chunk that is cut up *)

\* The objects behind the first of n that are cut out of a chunk, and their bytes.
Others(start, size, n) == [j \in 1 .. n - 1 |-> start + j * size]
InOthers(x, start, size, n) == \E j \in 1 .. n - 1 : In(x, start + j * size, size)

\* Byte x of the chunk is in just one of n objects or behind them.
CutApart(x, start, end, size, n) ==
  /\ start =< x /\ x < end <=>
       (start + n * size =< x /\ x < end) \/ \E i \in 0 .. n - 1 : In(x, start + i * size, size)
  /\ \A i \in 0 .. n - 1 : ~(In(x, start + i * size, size) /\ start + n * size =< x)
  /\ \A i, k \in 0 .. n - 1 :
       In(x, start + i * size, size) /\ In(x, start + k * size, size) => i = k

LEMMA CutUp ==
  ASSUME NEW start \in Nat, NEW end \in Nat, NEW size \in Nat \ {0}, NEW n \in Nat,
         start + n * size =< end, NEW x \in Nat
  PROVE  CutApart(x, start, end, size, n)
<1>1. n * size \in Nat /\ \A i \in 0 .. n - 1 : i * size \in Nat /\ i * size + size =< n * size
  BY InFront
<1>2. \A i \in 0 .. n - 1 : In(x, start + i * size, size) =>
        start =< x /\ x < end /\ x < start + n * size
  BY <1>1 DEF In
<1>3. ASSUME start =< x, ~(start + n * size =< x)
      PROVE  \E i \in 0 .. n - 1 : In(x, start + i * size, size)
  <2> DEFINE i == (x - start) \div size
  <2>1. i \in Nat /\ i * size =< x - start /\ x - start < i * size + size /\ i * size \in Nat
    BY <1>3, Divided
  <2>. HIDE DEF i
  <2>2. i < n
    <3>1. n < i => n * size + size =< i * size
      BY <2>1, InFront
    <3>. QED BY <1>1, <1>3, <2>1, <3>1
  <2>3. In(x, start + i * size, size)
    BY <2>1 DEF In
  <2>. QED BY <2>1, <2>2, <2>3
<1>4. ASSUME NEW i \in 0 .. n - 1, NEW k \in 0 .. n - 1,
             In(x, start + i * size, size), In(x, start + k * size, size)
      PROVE  ~(i < k)
  <2>. SUFFICES ASSUME i < k PROVE FALSE
    OBVIOUS
  <2>1. i * size + size =< k * size /\ i * size \in Nat /\ k * size \in Nat
    BY InFront
  <2>. QED BY <1>4, <2>1 DEF In
<1>5. \A i, k \in 0 .. n - 1 :
        In(x, start + i * size, size) /\ In(x, start + k * size, size) => i = k
  BY <1>4
<1>6. \A i \in 0 .. n - 1 : ~(In(x, start + i * size, size) /\ start + n * size =< x)
  BY <1>1, <1>2
<1>7. start =< x /\ x < end <=>
        (start + n * size =< x /\ x < end) \/ \E i \in 0 .. n - 1 : In(x, start + i * size, size)
  <2>1. start + n * size =< x => start =< x
    BY <1>1
  <2>. QED BY <1>2, <1>3, <2>1
<1>. QED BY <1>5, <1>6, <1>7 DEF CutApart

\* List i, which was empty, gets the objects behind the first of n.
LEMMA CutList ==
  ASSUME NEW l \in Lines, NEW i \in Lists, l[i] = << >>, NEW start \in Nat, NEW n \in Nat \ {0},
         NEW size, size = (i + 1) * Align
  PROVE  LET m == [l EXCEPT ![i] = Others(start, size, n)]
             cut(x) == InOthers(x, start, size, n)
         IN /\ m \in Lines
            /\ \A x : ListedAt(m, x) <=> ListedAt(l, x) \/ cut(x)
            /\ \A x : /\ ListedOnce(l, x) /\ ~(ListedAt(l, x) /\ cut(x))
                      /\ \A j, k \in 1 .. n - 1 :
                           In(x, start + j * size, size) /\ In(x, start + k * size, size) => j = k
                      => ListedOnce(m, x)
<1> DEFINE c == Others(start, size, n)
           m == [l EXCEPT ![i] = c]
           cut(x) == InOthers(x, start, size, n)
<1>1. size \in Nat
  BY MemAssumption DEF Lists
<1>2. c \in Seq(Nat) /\ Len(c) = n - 1 /\ \A j \in 1 .. n - 1 : c[j] = start + j * size
  <2>1. \A j \in 1 .. n - 1 : start + j * size \in Nat
    BY <1>1
  <2>. QED BY <2>1 DEF Others
<1>. HIDE DEF c
<1>3. m \in Lines /\ m[i] = c /\ \A k \in Lists : k # i => m[k] = l[k]
  BY <1>2 DEF Lines
<1>. HIDE DEF m
<1>4. Len(m[i]) = n - 1 /\ 1 .. Len(l[i]) = {}
  BY <1>2, <1>3
<1>5. ASSUME NEW x PROVE ListedAt(m, x) <=> ListedAt(l, x) \/ cut(x)
  <2>1. cut(x) => ListedAt(m, x)
    BY <1>2, <1>3, <1>4 DEF ListedAt, InOthers
  <2>2. ListedAt(l, x) => ListedAt(m, x)
    BY <1>3, <1>4 DEF ListedAt
  <2>3. ASSUME NEW k \in Lists, NEW j \in 1 .. Len(m[k]), In(x, m[k][j], (k + 1) * Align)
        PROVE  ListedAt(l, x) \/ cut(x)
    <3>1. CASE k = i
      <4>1. j \in 1 .. n - 1 /\ m[k][j] = start + j * size
        BY <1>2, <1>3, <1>4, <3>1
      <4>. QED BY <2>3, <3>1, <4>1 DEF InOthers
    <3>2. CASE k # i
      BY <1>3, <2>3, <3>2 DEF ListedAt
    <3>. QED BY <3>1, <3>2
  <2>. QED BY <2>1, <2>2, <2>3 DEF ListedAt
<1>6. ASSUME NEW x, ListedOnce(l, x), ~(ListedAt(l, x) /\ cut(x)),
             \A j, k \in 1 .. n - 1 :
               In(x, start + j * size, size) /\ In(x, start + k * size, size) => j = k
      PROVE  ListedOnce(m, x)
  <2>. SUFFICES ASSUME NEW k \in Lists, NEW h \in Lists,
                       NEW j \in 1 .. Len(m[k]), NEW p \in 1 .. Len(m[h]),
                       In(x, m[k][j], (k + 1) * Align), In(x, m[h][p], (h + 1) * Align)
                PROVE  k = h /\ j = p
    BY DEF ListedOnce
  <2>1. CASE k = i /\ h = i
    <3>1. j \in 1 .. n - 1 /\ p \in 1 .. n - 1 /\ m[k][j] = start + j * size /\ m[h][p] = start + p * size
      BY <1>2, <1>3, <1>4, <2>1
    <3>. QED BY <1>6, <2>1, <3>1
  <2>2. CASE k = i /\ h # i
    <3>1. cut(x)
      BY <1>2, <1>3, <1>4, <2>2 DEF InOthers
    <3>2. ListedAt(l, x)
      BY <1>3, <2>2 DEF ListedAt
    <3>. QED BY <1>6, <3>1, <3>2
  <2>3. CASE k # i /\ h = i
    <3>1. cut(x)
      BY <1>2, <1>3, <1>4, <2>3 DEF InOthers
    <3>2. ListedAt(l, x)
      BY <1>3, <2>3 DEF ListedAt
    <3>. QED BY <1>6, <3>1, <3>2
  <2>4. CASE k # i /\ h # i
    BY <1>3, <1>6, <2>4 DEF ListedOnce
  <2>. QED BY <2>1, <2>2, <2>3, <2>4
<1>. QED BY <1>3, <1>5, <1>6 DEF m, c

-----------------------------------------------------------------------------
(* Objects that change places *)

\* Somebody gets an object, and gives it back.
LEMMA HeldMore ==
  ASSUME NEW h, NEW o, NEW x
  PROVE  LET in == In(x, o.at, RoundUp(o.size))
         IN /\ HeldAt(h \cup {o}, x) <=> HeldAt(h, x) \/ in
            /\ HeldOnce(h, x) /\ ~(HeldAt(h, x) /\ in) => HeldOnce(h \cup {o}, x)
BY DEF HeldAt, HeldOnce

LEMMA HeldLess ==
  ASSUME NEW h, NEW o \in h, NEW x
  PROVE  LET in == In(x, o.at, RoundUp(o.size))
         IN /\ HeldAt(h, x) <=> HeldAt(h \ {o}, x) \/ in
            /\ HeldOnce(h, x) => HeldOnce(h \ {o}, x) /\ ~(HeldAt(h \ {o}, x) /\ in)
BY DEF HeldAt, HeldOnce

\* From a list to who asked for it.
LEMMA PlaceTaken ==
  ASSUME NEW h, NEW l \in Lines, NEW start, NEW end, NEW m, OnePlaceEach(h, l, start, end, m),
         NEW i \in Lists, l[i] # << >>, NEW n \in Sizes, RoundUp(n) = (i + 1) * Align
  PROVE  OnePlaceEach(h \cup {[at |-> Head(l[i]), size |-> n]},
                      [l EXCEPT ![i] = Tail(@)], start, end, m)
<1> DEFINE g == h \cup {[at |-> Head(l[i]), size |-> n]}
           k == [l EXCEPT ![i] = Tail(@)]
<1>. SUFFICES ASSUME NEW x \in Nat PROVE PlaceOf(x, g, k, start, end, m)
  BY DEF OnePlaceEach
<1> DEFINE in == In(x, Head(l[i]), (i + 1) * Align)
<1>1. PlaceOf(x, h, l, start, end, m)
  BY DEF OnePlaceEach
<1>2. (ListedAt(l, x) <=> ListedAt(k, x) \/ in) /\ (ListedOnce(l, x) => ListedOnce(k, x) /\ ~(ListedAt(k, x) /\ in))
  BY TakenOff
<1>3. (HeldAt(g, x) <=> HeldAt(h, x) \/ in) /\ (HeldOnce(h, x) /\ ~(HeldAt(h, x) /\ in) => HeldOnce(g, x))
  <2> DEFINE o == [at |-> Head(l[i]), size |-> n]
  <2>1. o.at = Head(l[i]) /\ RoundUp(o.size) = (i + 1) * Align /\ g = h \cup {o}
    OBVIOUS
  <2>. HIDE DEF o, g
  <2>. QED BY <2>1, HeldMore
<1>. HIDE DEF g, k, in
<1>. QED BY <1>1, <1>2, <1>3 DEF PlaceOf

\* And back.
LEMMA PlaceGiven ==
  ASSUME NEW h, NEW l \in Lines, NEW start, NEW end, NEW m, OnePlaceEach(h, l, start, end, m),
         NEW o \in h, o.at \in Nat, NEW i \in Lists, RoundUp(o.size) = (i + 1) * Align
  PROVE  OnePlaceEach(h \ {o}, [l EXCEPT ![i] = <<o.at>> \o @], start, end, m)
<1> DEFINE g == h \ {o}
           k == [l EXCEPT ![i] = <<o.at>> \o @]
<1>. SUFFICES ASSUME NEW x \in Nat PROVE PlaceOf(x, g, k, start, end, m)
  BY DEF OnePlaceEach
<1> DEFINE in == In(x, o.at, (i + 1) * Align)
<1>1. PlaceOf(x, h, l, start, end, m)
  BY DEF OnePlaceEach
<1>2. (ListedAt(k, x) <=> ListedAt(l, x) \/ in) /\ (ListedOnce(l, x) /\ ~(ListedAt(l, x) /\ in) => ListedOnce(k, x))
  BY PutOn
<1>3. (HeldAt(h, x) <=> HeldAt(g, x) \/ in) /\ (HeldOnce(h, x) => HeldOnce(g, x) /\ ~(HeldAt(g, x) /\ in))
  BY HeldLess
<1>. HIDE DEF g, k, in
<1>. QED BY <1>1, <1>2, <1>3 DEF PlaceOf

\* What is left of the chunk goes to the list of its size, and the chunk is empty.
LEMMA PlaceShelved ==
  ASSUME NEW h, NEW l \in Lines, NEW start \in Nat, NEW end \in Nat, NEW m,
         OnePlaceEach(h, l, start, end, m),
         NEW i \in Lists, end - start = (i + 1) * Align
  PROVE  OnePlaceEach(h, [l EXCEPT ![i] = <<start>> \o @], 0, 0, m)
<1> DEFINE k == [l EXCEPT ![i] = <<start>> \o @]
<1>. SUFFICES ASSUME NEW x \in Nat PROVE PlaceOf(x, h, k, 0, 0, m)
  BY DEF OnePlaceEach
<1> DEFINE in == In(x, start, (i + 1) * Align)
<1>1. PlaceOf(x, h, l, start, end, m)
  BY DEF OnePlaceEach
<1>2. (ListedAt(k, x) <=> ListedAt(l, x) \/ in) /\ (ListedOnce(l, x) /\ ~(ListedAt(l, x) /\ in) => ListedOnce(k, x))
  BY PutOn
<1>3. In(x, start, end - start) <=> in
  OBVIOUS
<1>4. ~In(x, 0, 0 - 0)
  BY DEF In
<1>. HIDE DEF k, in
<1>. QED BY <1>1, <1>2, <1>3, <1>4 DEF PlaceOf

\* An object on a list becomes the chunk.
LEMMA PlaceOpened ==
  ASSUME NEW h, NEW l \in Lines, NEW m, OnePlaceEach(h, l, 0, 0, m),
         NEW i \in Lists, l[i] # << >>
  PROVE  OnePlaceEach(h, [l EXCEPT ![i] = Tail(@)],
                      Head(l[i]), Head(l[i]) + (i + 1) * Align, m)
<1> DEFINE k == [l EXCEPT ![i] = Tail(@)]
           a == Head(l[i])
<1>. SUFFICES ASSUME NEW x \in Nat PROVE PlaceOf(x, h, k, a, a + (i + 1) * Align, m)
  BY DEF OnePlaceEach
<1> DEFINE in == In(x, a, (i + 1) * Align)
<1>1. PlaceOf(x, h, l, 0, 0, m)
  BY DEF OnePlaceEach
<1>2. (ListedAt(l, x) <=> ListedAt(k, x) \/ in) /\ (ListedOnce(l, x) => ListedOnce(k, x) /\ ~(ListedAt(k, x) /\ in))
  BY TakenOff
<1> DEFINE e == a + (i + 1) * Align
<1>3. e - a = (i + 1) * Align
  <2>1. a \in Nat /\ (i + 1) * Align \in Nat
    <3>1. i \in Nat /\ Align \in Nat /\ (i + 1) * Align \in Nat
      BY MemAssumption DEF Lists
    <3>. QED BY <3>1, TakenOff
  <2>. HIDE DEF a
  <2>. QED BY <2>1
<1>4. ~In(x, 0, 0 - 0)
  BY DEF In
<1>5. In(x, a, e - a) <=> in
  <2>. HIDE DEF e, a
  <2>. QED BY <1>3
<1>. HIDE DEF k, in, a, e
<1>6. PlaceOf(x, h, k, a, e, m)
  BY <1>1, <1>2, <1>4, <1>5 DEF PlaceOf
<1>. QED BY <1>6 DEF e

\* A block from malloc becomes the chunk, and lies behind all that came before.
LEMMA PlaceFromHeap ==
  ASSUME NEW h, NEW l, NEW m \in SUBSET [at : Nat, size : Nat], OnePlaceEach(h, l, 0, 0, m),
         NEW at \in Nat, NEW size \in Nat, \A b \in m : b.at + b.size < at
  PROVE  OnePlaceEach(h, l, at, at + size, m \cup {[at |-> at, size |-> size]})
<1> DEFINE k == m \cup {[at |-> at, size |-> size]}
<1>. SUFFICES ASSUME NEW x \in Nat PROVE PlaceOf(x, h, l, at, at + size, k)
  BY DEF OnePlaceEach
<1>1. PlaceOf(x, h, l, 0, 0, m)
  BY DEF OnePlaceEach
<1>2. ~In(x, 0, 0 - 0) /\ at + size - at = size
  BY DEF In
<1>3. MappedAt(k, x) <=> MappedAt(m, x) \/ In(x, at, size)
  <2> DEFINE b == [at |-> at, size |-> size]
  <2>1. b.at = at /\ b.size = size /\ k = m \cup {b}
    OBVIOUS
  <2>. HIDE DEF b, k
  <2>. QED BY <2>1 DEF MappedAt
<1>4. ~(MappedAt(m, x) /\ In(x, at, size))
  <2>. SUFFICES ASSUME NEW b \in m, In(x, b.at, b.size), In(x, at, size) PROVE FALSE
    BY DEF MappedAt
  <2>1. b.at \in Nat /\ b.size \in Nat
    OBVIOUS
  <2>. QED BY <2>1 DEF In
<1>. HIDE DEF k
<1>. QED BY <1>1, <1>2, <1>3, <1>4 DEF PlaceOf

\* n objects are cut out of the chunk: the first is the caller's, the others go to the list.
LEMMA PlaceCarved ==
  ASSUME NEW h, NEW l \in Lines, NEW start \in Nat, NEW end \in Nat, NEW m,
         OnePlaceEach(h, l, start, end, m),
         NEW i \in Lists, l[i] = << >>, NEW n \in Sizes, RoundUp(n) = (i + 1) * Align,
         NEW nobjs \in Nat \ {0}, start + nobjs * RoundUp(n) =< end
  PROVE  OnePlaceEach(h \cup {[at |-> start, size |-> n]},
                      [l EXCEPT ![i] = Others(start, RoundUp(n), nobjs)],
                      start + nobjs * RoundUp(n), end, m)
<1> DEFINE size == RoundUp(n)
           g == h \cup {[at |-> start, size |-> n]}
           k == [l EXCEPT ![i] = Others(start, size, nobjs)]
<1>0. size \in Nat \ {0} /\ start + nobjs * size =< end
  BY SizeClass
<1>. SUFFICES ASSUME NEW x \in Nat PROVE PlaceOf(x, g, k, start + nobjs * size, end, m)
  BY DEF OnePlaceEach
<1> DEFINE first == In(x, start, size)
           cut == InOthers(x, start, size, nobjs)
           rest == In(x, start + nobjs * size, end - (start + nobjs * size))
           all == In(x, start, end - start)
<1>1. PlaceOf(x, h, l, start, end, m)
  BY DEF OnePlaceEach
<1>2. (HeldAt(g, x) <=> HeldAt(h, x) \/ first) /\ (HeldOnce(h, x) /\ ~(HeldAt(h, x) /\ first) => HeldOnce(g, x))
  <2> DEFINE o == [at |-> start, size |-> n]
  <2>1. o.at = start /\ o.size = n /\ g = h \cup {o}
    OBVIOUS
  <2>. HIDE DEF o, g
  <2>. QED BY <2>1, HeldMore
<1>3. CutApart(x, start, end, size, nobjs)
  <2>. HIDE DEF size
  <2>. QED BY <1>0, CutUp
<1>4. \A j, p \in 1 .. nobjs - 1 : In(x, start + j * size, size) /\ In(x, start + p * size, size) => j = p
  <2>. HIDE DEF size
  <2>. QED BY <1>3 DEF CutApart
<1>5. (ListedAt(k, x) <=> ListedAt(l, x) \/ cut) /\ (ListedOnce(l, x) /\ ~(ListedAt(l, x) /\ cut) => ListedOnce(k, x))
  <2>1. size = (i + 1) * Align
    OBVIOUS
  <2>. HIDE DEF size
  <2>. QED BY <1>4, <2>1, CutList
<1>6. (all <=> rest \/ first \/ cut) /\ ~(first /\ cut) /\ ~(first /\ rest) /\ ~(cut /\ rest)
  <2> DEFINE piece(j) == In(x, start + j * size, size)
             behind == start + nobjs * size =< x /\ x < end
  <2>1. /\ all <=> behind \/ \E j \in 0 .. nobjs - 1 : piece(j)
        /\ \A j \in 0 .. nobjs - 1 : ~(piece(j) /\ behind)
        /\ \A j, p \in 0 .. nobjs - 1 : piece(j) /\ piece(p) => j = p
    <3>1. all <=> start =< x /\ x < end
      BY DEF In
    <3>2. /\ start =< x /\ x < end <=> behind \/ \E j \in 0 .. nobjs - 1 : piece(j)
          /\ \A j \in 0 .. nobjs - 1 : ~(piece(j) /\ start + nobjs * size =< x)
          /\ \A j, p \in 0 .. nobjs - 1 : piece(j) /\ piece(p) => j = p
      <4>. HIDE DEF size
      <4>. QED BY <1>3 DEF CutApart
    <3>. HIDE DEF piece, all, size
    <3>. QED BY <3>1, <3>2
  <2>2. rest <=> behind
    <3>1. nobjs * size \in Nat
      BY <1>0
    <3>. HIDE DEF size
    <3>. QED BY <3>1 DEF In
  <2>3. first <=> piece(0)
    <3>. HIDE DEF size
    <3>. QED BY <1>0
  <2>4. cut <=> \E j \in 1 .. nobjs - 1 : piece(j)
    BY DEF InOthers
  <2>. HIDE DEF piece, behind, all, rest, first, cut
  <2>. QED BY <2>1, <2>2, <2>3, <2>4
<1>. HIDE DEF first, cut, rest, all, g, k, size
<1>7. /\ In(x, start, end - start) <=> all
      /\ In(x, start + nobjs * size, end - (start + nobjs * size)) <=> rest
  BY DEF all, rest
<1>. QED BY <1>1, <1>2, <1>5, <1>6, <1>7 DEF PlaceOf

-----------------------------------------------------------------------------
(* The operations *)

LEMMA MaxIs ==
  ASSUME NEW S \in SUBSET Nat, NEW m \in S, \A x \in S : x =< m
  PROVE  Max(S) = m
<1>1. \A x \in S : m >= x
  OBVIOUS
<1>2. Max(S) \in S /\ \A x \in S : Max(S) >= x
  BY <1>1 DEF Max
<1>3. Max(S) \in Nat /\ m \in Nat /\ Max(S) =< m /\ Max(S) >= m
  BY <1>2
<1>. QED BY <1>3

\* malloc's next block begins where the last one has ended.
LEMMA BrkMoves ==
  ASSUME MemTypes, HeapCounted, NEW size \in Nat,
         mapped' = mapped \cup {[at |-> Brk, size |-> size]}, heap_size' = heap_size + size
  PROVE  /\ HeapCounted' /\ heap_size' \in Nat
         /\ mapped' \subseteq [at : Nat, size : Nat] /\ IsFiniteSet(mapped')
<1> DEFINE b == [at |-> Brk, size |-> size]
<1>1. Cardinality(mapped) \in Nat /\ Brk \in Nat
  BY FS_CardinalityType DEF MemTypes, HeapCounted
<1>2. b \in [at : Nat, size : Nat] /\ b.at = Brk /\ b.size = size /\ mapped' = mapped \cup {b}
  BY <1>1
<1>. HIDE DEF b
<1>3. \A c \in mapped : c.at \in Nat /\ c.size \in Nat /\ c.at + c.size < Brk
  BY DEF MemTypes, HeapCounted
<1>4. b \notin mapped
  BY <1>1, <1>2, <1>3
<1>5. IsFiniteSet(mapped') /\ Cardinality(mapped') = Cardinality(mapped) + 1
  <2>1. IsFiniteSet(mapped)
    BY DEF MemTypes
  <2>. QED BY <1>2, <1>4, <2>1, FS_AddElement
<1> DEFINE S == {0} \cup {c.at + c.size + 1 : c \in mapped'}
           end == Brk + size + 1
<1>6. S \subseteq Nat /\ end \in S /\ \A x \in S : x =< end
  <2>1. \A c \in mapped' : c.at + c.size + 1 \in Nat /\ c.at + c.size + 1 =< end
    BY <1>1, <1>2, <1>3
  <2>2. b \in mapped' /\ b.at + b.size + 1 = end
    BY <1>2
  <2>3. end \in S
    BY <2>2
  <2>4. 0 =< end
    BY <1>1
  <2>. HIDE DEF end
  <2>. QED BY <2>1, <2>3, <2>4
<1>7. Max(S) = end
  <2>. HIDE DEF S, end
  <2>. QED BY <1>6, MaxIs
<1>8. Brk' = Brk + size + 1
  BY <1>7 DEF Brk
<1>9. heap_size' \in Nat /\ heap_size' + Cardinality(mapped') = Brk'
  BY <1>1, <1>5, <1>8 DEF MemTypes, HeapCounted
<1>10. \A c \in mapped' : c.at + c.size < Brk'
  BY <1>1, <1>2, <1>3, <1>8
<1>. QED BY <1>2, <1>5, <1>9, <1>10 DEF HeapCounted, MemTypes

\* What is left of the chunk is put away, and not on the list that needs a new one.
LEMMA ShelvedFits ==
  ASSUME MemTypes, ChunkFits, OnePlaceEach(held, free_list, start_free, end_free, mapped),
         NEW n \in Sizes, free_list[Index(n)] = << >>, Left < RoundUp(n)
  PROVE  /\ Shelved \in Lines /\ Shelved[Index(n)] = << >>
         /\ OnePlaceEach(held, Shelved, 0, 0, mapped)
<1>1. free_list \in Lines /\ start_free \in Nat /\ end_free \in Nat /\ Left = end_free - start_free
  BY DEF MemTypes, Left
<1>2. PICK k \in Nat : Left = k * Align
  BY <1>1 DEF ChunkFits
<1>3. CASE k = 0
  <2>1. Left = 0 /\ Shelved = free_list
    BY <1>2, <1>3, MemAssumption DEF Shelved
  <2>2. \A x \in Nat : ~In(x, start_free, end_free - start_free) /\ ~In(x, 0, 0 - 0)
    BY <1>1, <2>1 DEF In
  <2>. QED BY <1>1, <2>1, <2>2 DEF OnePlaceEach, PlaceOf
<1>4. CASE k # 0
  <2> DEFINE i == Index(k * Align)
  <2>1. i \in Lists /\ i < Index(n) /\ (i + 1) * Align = k * Align
    BY <1>2, <1>4, LeftClass
  <2>2. Left > 0
    <3>1. k * Align # 0 /\ k * Align \in Nat
      BY <1>4, MemAssumption
    <3>. QED BY <1>2, <3>1
  <2>3. Shelved = [free_list EXCEPT ![i] = <<start_free>> \o @]
    BY <1>2, <2>2 DEF Shelved
  <2>4. Index(n) \in Lists /\ Index(n) # i
    <3>1. Index(n) \in Lists /\ Lists \subseteq Int
      BY SizeClass DEF Lists
    <3>. HIDE DEF i
    <3>. QED BY <2>1, <3>1
  <2>. HIDE DEF i
  <2>5. Shelved \in Lines /\ Shelved[Index(n)] = << >>
    BY <1>1, <2>1, <2>3, <2>4, PutOn DEF Lines
  <2>6. end_free - start_free = (i + 1) * Align
    BY <1>1, <1>2, <2>1
  <2>. QED BY <1>1, <2>1, <2>3, <2>5, <2>6, PlaceShelved
<1>. QED BY <1>3, <1>4

\* mempool_s_refill has cut up the chunk from start to end.
LEMMA CarvedKeeps ==
  ASSUME held \subseteq [at : Nat, size : Sizes],
         NEW n \in Sizes, NEW l \in Lines, NEW start \in Nat, NEW end \in Nat, NEW m,
         OnePlaceEach(held, l, start, end, m),
         l[Index(n)] = << >>, end - start >= RoundUp(n), \E k \in Nat : end - start = k * Align,
         single \in BOOLEAN, Carved(n, l, start, end), ~single'
  PROVE  /\ free_list' \in Lines /\ start_free' \in Nat /\ end_free' \in Nat
         /\ held' \subseteq [at : Nat, size : Sizes] /\ ChunkFits'
         /\ OnePlaceEach(held', free_list', start_free', end_free', m)
<1> DEFINE size == RoundUp(n)
           fit == (end - start) \div size
           nobjs == IF fit >= Batch THEN Batch ELSE fit
           rest == IF nobjs = 1 THEN 1 ELSE nobjs - 1
           i == Index(n)
<1>1. i \in Lists /\ size \in Nat \ {0} /\ size = (i + 1) * Align
  BY SizeClass
<1>2. /\ free_list' = [l EXCEPT ![i] = [j \in 1 .. rest |-> start + j * size]]
      /\ held' = held \cup {[at |-> start, size |-> n]}
      /\ start_free' = start + nobjs * size /\ end_free' = end
      /\ single' = (single \/ nobjs = 1)
  BY DEF Carved
<1>. HIDE DEF size
<1>3. end - start \in Nat /\ end - start >= size
  BY <1>1 DEF size
<1>4. fit \in Nat /\ fit * size =< end - start /\ end - start < fit * size + size
  BY <1>1, <1>3, Divided
<1>. HIDE DEF fit
<1>5. fit # 0
  BY <1>1, <1>3, <1>4
<1>6. nobjs \in Nat \ {0} /\ nobjs # 1 /\ nobjs =< fit /\ rest = nobjs - 1
  <2>1. nobjs # 1
    BY <1>2
  <2>2. Batch \in Nat \ {0, 1}
    BY MemAssumption
  <2>. QED BY <1>4, <1>5, <2>1, <2>2
<1>7. nobjs * size \in Nat /\ start + nobjs * size =< end
  <2>1. CASE nobjs = fit
    BY <1>1, <1>3, <1>4, <2>1
  <2>2. CASE nobjs < fit
    <3>. HIDE DEF nobjs
    <3>1. nobjs * size \in Nat /\ nobjs * size + size =< fit * size /\ fit * size \in Nat
      BY <1>1, <1>4, <1>6, <2>2, InFront
    <3> DEFINE a == nobjs * size
               b == fit * size
    <3>2. b =< end - start
      BY <1>4
    <3>. HIDE DEF a, b
    <3>3. a =< b /\ a \in Nat /\ b \in Nat
      BY <1>1, <3>1 DEF a, b
    <3>4. start + a =< end
      BY <1>3, <3>2, <3>3
    <3>. QED BY <3>3, <3>4 DEF a
  <2>. QED BY <1>4, <1>6, <2>1, <2>2
<1>8. free_list' = [l EXCEPT ![i] = Others(start, size, nobjs)]
  BY <1>2, <1>6 DEF Others
<1>. HIDE DEF nobjs, rest, i
<1>9. free_list' \in Lines
  BY <1>1, <1>6, <1>8, CutList DEF i
<1>10. ChunkFits'
  <2>1. PICK k \in Nat : end - start = k * Align
    OBVIOUS
  <2> DEFINE d == k - nobjs * (i + 1)
  <2>2. i \in Nat /\ Align \in Nat \ {0}
    BY <1>1, MemAssumption DEF Lists
  <2>3. d \in Int /\ d * Align = k * Align - nobjs * size
    BY <1>1, <1>6, <2>2
  <2>. HIDE DEF d
  <2>4. end - (start + nobjs * size) = d * Align /\ d * Align >= 0
    BY <1>3, <1>7, <2>1, <2>3
  <2>5. d \in Nat
    BY <2>2, <2>3, <2>4
  <2>. QED BY <1>2, <1>7, <2>4, <2>5 DEF ChunkFits
<1>11. OnePlaceEach(held', free_list', start_free', end_free', m)
  <2>1. l[i] = << >> /\ RoundUp(n) = (i + 1) * Align
    BY <1>1 DEF i, size
  <2>2. OnePlaceEach(held \cup {[at |-> start, size |-> n]}, [l EXCEPT ![i] = Others(start, size, nobjs)],
                     start + nobjs * size, end, m)
    BY <1>1, <1>6, <1>7, <2>1, PlaceCarved DEF size
  <2>. QED BY <1>2, <1>8, <2>2
<1>. QED BY <1>2, <1>7, <1>9, <1>10, <1>11

\* What every step that is taken before the first single object has to show.
MemGood ==
  MemTypes /\ ChunkFits /\ HeapCounted /\ OnePlaceEach(held, free_list, start_free, end_free, mapped)

LEMMA TakeKeeps == ASSUME MemGood, NEW n \in Sizes, Take(n) PROVE MemGood'
<1> DEFINE i == Index(n)
<1>1. i \in Lists /\ RoundUp(n) = (i + 1) * Align /\ free_list \in Lines /\ free_list[i] # << >>
  BY SizeClass DEF Take, MemGood, MemTypes
<1>2. /\ held' = held \cup {[at |-> Head(free_list[i]), size |-> n]}
      /\ free_list' = [free_list EXCEPT ![i] = Tail(@)]
      /\ UNCHANGED <<start_free, end_free, heap_size, mapped>>
  BY DEF Take
<1>. HIDE DEF i
<1>3. Head(free_list[i]) \in Nat /\ free_list' \in Lines
  BY <1>1, <1>2, TakenOff
<1>4. OnePlaceEach(held', free_list', start_free', end_free', mapped')
  <2>1. OnePlaceEach(held \cup {[at |-> Head(free_list[i]), size |-> n]},
                     [free_list EXCEPT ![i] = Tail(@)], start_free, end_free, mapped)
    BY <1>1, PlaceTaken DEF MemGood
  <2>. QED BY <1>2, <2>1
<1>5. MemTypes' /\ ChunkFits' /\ HeapCounted'
  BY <1>2, <1>3 DEF MemGood, MemTypes, ChunkFits, HeapCounted, Brk
<1>. QED BY <1>4, <1>5 DEF MemGood

LEMMA GiveKeeps == ASSUME MemGood, NEW o \in held, Give(o) PROVE MemGood'
<1> DEFINE i == Index(o.size)
<1>1. o.at \in Nat /\ o.size \in Sizes /\ free_list \in Lines
  BY DEF MemGood, MemTypes
<1>2. i \in Lists /\ RoundUp(o.size) = (i + 1) * Align
  BY <1>1, SizeClass
<1>3. /\ held' = held \ {o} /\ free_list' = [free_list EXCEPT ![i] = <<o.at>> \o @]
      /\ UNCHANGED <<start_free, end_free, heap_size, mapped>>
  BY DEF Give
<1>. HIDE DEF i
<1>4. free_list' \in Lines
  BY <1>1, <1>2, <1>3, PutOn
<1>5. OnePlaceEach(held', free_list', start_free', end_free', mapped')
  <2>1. OnePlaceEach(held \ {o}, [free_list EXCEPT ![i] = <<o.at>> \o @], start_free, end_free, mapped)
    BY <1>1, <1>2, PlaceGiven DEF MemGood
  <2>. QED BY <1>3, <2>1
<1>6. MemTypes' /\ ChunkFits' /\ HeapCounted'
  BY <1>3, <1>4 DEF MemGood, MemTypes, ChunkFits, HeapCounted, Brk
<1>. QED BY <1>5, <1>6 DEF MemGood

LEMMA RefillKeeps ==
  ASSUME MemGood, single \in BOOLEAN, NEW n \in Sizes, Refill(n), ~single' PROVE MemGood'
<1>1. /\ MemTypes /\ ChunkFits /\ HeapCounted
      /\ OnePlaceEach(held, free_list, start_free, end_free, mapped)
      /\ free_list \in Lines /\ start_free \in Nat /\ end_free \in Nat
  BY DEF MemGood, MemTypes
<1>2. /\ free_list[Index(n)] = << >> /\ end_free - start_free >= RoundUp(n)
      /\ Carved(n, free_list, start_free, end_free) /\ UNCHANGED <<heap_size, mapped>>
  BY DEF Refill, Left
<1>3. /\ free_list' \in Lines /\ start_free' \in Nat /\ end_free' \in Nat
      /\ held' \subseteq [at : Nat, size : Sizes] /\ ChunkFits'
      /\ OnePlaceEach(held', free_list', start_free', end_free', mapped)
  BY <1>1, <1>2, CarvedKeeps DEF ChunkFits, MemTypes
<1>4. MemTypes' /\ HeapCounted'
  BY <1>1, <1>2, <1>3 DEF MemTypes, HeapCounted, Brk
<1>. QED BY <1>2, <1>3, <1>4 DEF MemGood

LEMMA RefillFromHeapKeeps ==
  ASSUME MemGood, single \in BOOLEAN, NEW n \in Sizes, RefillFromHeap(n), ~single' PROVE MemGood'
<1> DEFINE size == ToGet(n)
           m == mapped \cup {[at |-> Brk, size |-> size]}
<1>1. /\ MemTypes /\ ChunkFits /\ HeapCounted
      /\ OnePlaceEach(held, free_list, start_free, end_free, mapped)
      /\ mapped \in SUBSET [at : Nat, size : Nat]
  BY DEF MemGood, MemTypes
<1>2. /\ free_list[Index(n)] = << >> /\ Left < RoundUp(n)
      /\ mapped' = m /\ heap_size' = heap_size + size
      /\ Carved(n, Shelved, Brk, Brk + size)
  BY DEF RefillFromHeap, Starved
<1>3. /\ Shelved \in Lines /\ Shelved[Index(n)] = << >>
      /\ OnePlaceEach(held, Shelved, 0, 0, mapped)
  BY <1>1, <1>2, ShelvedFits
<1>4. PICK k \in Nat : size = k * Align /\ size >= RoundUp(n)
  <2> DEFINE p == (Index(n) + 1) * Batch
             q == (heap_size \div 16 + Align - 1) \div Align
  <2>1. Index(n) \in Nat /\ RoundUp(n) = (Index(n) + 1) * Align
    BY SizeClass DEF Lists
  <2>2. Batch \in Nat \ {0, 1} /\ Align \in Nat \ {0} /\ heap_size \in Nat
    BY <1>1, MemAssumption DEF MemTypes
  <2>3. q \in Nat /\ size = 2 * RoundUp(n) * Batch + q * Align
    <3>1. heap_size \div 16 + Align - 1 \in Nat
      BY <2>2
    <3>2. q \in Nat
      BY <2>2, <3>1, Divided
    <3>. QED BY <3>2 DEF ToGet, RoundUp
  <2>4. RoundUp(n) \in Nat /\ RoundUp(n) * Batch \in Nat /\ RoundUp(n) * Batch >= RoundUp(n)
    <3>1. RoundUp(n) \in Nat
      BY SizeClass
    <3>2. PICK b \in Nat : Batch = 1 + b
      <4>1. Batch - 1 \in Nat /\ Batch = 1 + (Batch - 1)
        BY <2>2
      <4>. QED BY <4>1
    <3>3. RoundUp(n) * Batch = RoundUp(n) + RoundUp(n) * b /\ RoundUp(n) * b \in Nat
      BY <3>1, <3>2
    <3>. QED BY <3>1, <3>3
  <2>5. q * Align \in Nat
    BY <2>2, <2>3
  <2>6. 2 * RoundUp(n) * Batch = 2 * (RoundUp(n) * Batch)
    BY <2>2, <2>4
  <2>7. RoundUp(n) * Batch = p * Align /\ p \in Nat
    BY <2>1, <2>2
  <2>. HIDE DEF q, p, size
  <2>8. size = (2 * p + q) * Align
    <3>1. (2 * p + q) * Align = 2 * (p * Align) + q * Align
      BY <2>2, <2>3, <2>7
    <3>. QED BY <2>3, <2>6, <2>7, <3>1
  <2>9. size >= RoundUp(n) /\ 2 * p + q \in Nat
    BY <2>3, <2>4, <2>5, <2>6, <2>7
  <2>. QED BY <2>8, <2>9
<1>. HIDE DEF size
<1>5. Brk \in Nat /\ size \in Nat /\ \A b \in mapped : b.at + b.size < Brk
  BY <1>1, <1>4, MemAssumption, FS_CardinalityType DEF MemTypes, HeapCounted
<1>6. HeapCounted' /\ heap_size' \in Nat /\ mapped' \subseteq [at : Nat, size : Nat] /\ IsFiniteSet(mapped')
  BY <1>1, <1>2, <1>5, BrkMoves
<1>7. OnePlaceEach(held, Shelved, Brk, Brk + size, m)
  BY <1>1, <1>3, <1>5, PlaceFromHeap
<1>8. /\ free_list' \in Lines /\ start_free' \in Nat /\ end_free' \in Nat
      /\ held' \subseteq [at : Nat, size : Sizes] /\ ChunkFits'
      /\ OnePlaceEach(held', free_list', start_free', end_free', m)
  <2> DEFINE end == Brk + size
  <2>1. end \in Nat /\ end - Brk = size
    BY <1>5
  <2>2. held \subseteq [at : Nat, size : Sizes]
    BY <1>1 DEF MemTypes
  <2>3. OnePlaceEach(held, Shelved, Brk, end, m) /\ Carved(n, Shelved, Brk, end)
    BY <1>2, <1>7
  <2>. HIDE DEF end, m
  <2>. QED BY <1>3, <1>4, <1>5, <2>1, <2>2, <2>3, CarvedKeeps
<1>9. MemTypes'
  BY <1>6, <1>8 DEF MemTypes
<1>. QED BY <1>2, <1>6, <1>8, <1>9 DEF MemGood

LEMMA RefillFromListKeeps ==
  ASSUME MemGood, single \in BOOLEAN, NEW n \in Sizes, RefillFromList(n), ~single' PROVE MemGood'
<1> DEFINE larger == {i \in Lists : i >= Index(n) /\ Shelved[i] # << >>}
           i == Min(larger)
           chunk == Head(Shelved[i])
           l == [Shelved EXCEPT ![i] = Tail(@)]
           size == (i + 1) * Align
<1>1. /\ MemTypes /\ ChunkFits /\ HeapCounted
      /\ OnePlaceEach(held, free_list, start_free, end_free, mapped)
  BY DEF MemGood
<1>2. /\ free_list[Index(n)] = << >> /\ Left < RoundUp(n)
      /\ larger # {} /\ Carved(n, l, chunk, chunk + size)
      /\ UNCHANGED <<heap_size, mapped>>
  BY DEF RefillFromList, Starved
<1>3. /\ Shelved \in Lines /\ Shelved[Index(n)] = << >>
      /\ OnePlaceEach(held, Shelved, 0, 0, mapped)
  BY <1>1, <1>2, ShelvedFits
<1>4. i \in Lists /\ i >= Index(n) /\ Shelved[i] # << >>
  <2>1. larger \in SUBSET Nat
    BY DEF Lists
  <2>2. i \in larger
    <3>. HIDE DEF larger
    <3>. QED BY <1>2, <2>1, MinIn
  <2>. QED BY <2>2
<1>. HIDE DEF larger, i
<1>5. i \in Nat /\ Index(n) \in Nat /\ Index(n) \in Lists /\ i # Index(n)
  BY <1>3, <1>4, SizeClass DEF Lists
<1>6. l \in Lines /\ chunk \in Nat
  BY <1>3, <1>4, TakenOff
<1>7. l[Index(n)] = << >>
  BY <1>3, <1>5 DEF Lines
<1>8. size \in Nat /\ size >= RoundUp(n)
  <2>1. Align \in Nat /\ RoundUp(n) = (Index(n) + 1) * Align /\ RoundUp(n) \in Nat
    BY SizeClass, MemAssumption
  <2>2. (Index(n) + 1) * Align + Align =< (i + 1) * Align
    <3>1. Index(n) + 1 \in Nat /\ i + 1 \in Nat /\ Index(n) + 1 < i + 1
      BY <1>4, <1>5
    <3>. QED BY <2>1, <3>1, InFront
  <2>3. (i + 1) * Align \in Nat
    BY <1>5, <2>1
  <2>. QED BY <2>1, <2>2, <2>3
<1>9. OnePlaceEach(held, l, chunk, chunk + size, mapped)
  BY <1>3, <1>4, PlaceOpened
<1>10. /\ free_list' \in Lines /\ start_free' \in Nat /\ end_free' \in Nat
       /\ held' \subseteq [at : Nat, size : Sizes] /\ ChunkFits'
       /\ OnePlaceEach(held', free_list', start_free', end_free', mapped)
  <2> DEFINE end == chunk + size
  <2>1. i + 1 \in Nat /\ size = (i + 1) * Align
    BY <1>5
  <2>. HIDE DEF size, chunk, l
  <2>2. end \in Nat /\ end - chunk = size
    BY <1>6, <1>8
  <2>3. held \subseteq [at : Nat, size : Sizes]
    BY <1>1 DEF MemTypes
  <2>4. OnePlaceEach(held, l, chunk, end, mapped) /\ Carved(n, l, chunk, end)
    BY <1>2, <1>9
  <2>. HIDE DEF end
  <2>. QED BY <1>6, <1>7, <1>8, <2>1, <2>2, <2>3, <2>4, CarvedKeeps
<1>11. MemTypes' /\ HeapCounted'
  BY <1>1, <1>2, <1>10 DEF MemTypes, HeapCounted, Brk
<1>. QED BY <1>2, <1>10, <1>11 DEF MemGood

-----------------------------------------------------------------------------
LEMMA InitMemIInv == MemInit => MemIInv
<1>. SUFFICES ASSUME MemInit PROVE MemIInv
  OBVIOUS
<1>1. free_list \in Lines /\ \A i \in Lists : 1 .. Len(free_list[i]) = {}
  BY DEF MemInit, Lines
<1>2. IsFiniteSet(mapped) /\ Cardinality(mapped) = 0
  BY FS_EmptySet DEF MemInit
<1>3. Brk = 0
  <2>1. {0} \cup {b.at + b.size + 1 : b \in mapped} = {0}
    BY DEF MemInit
  <2>2. Max({0}) = 0
    BY MaxIs
  <2>. QED BY <2>1, <2>2 DEF Brk
<1>4. MemTypes /\ ChunkFits /\ HeapCounted
  <2>1. end_free - start_free = 0 * Align
    BY MemAssumption DEF MemInit
  <2>2. ChunkFits
    BY <2>1 DEF ChunkFits, MemInit
  <2>. QED BY <1>1, <1>2, <1>3, <2>2 DEF MemInit, MemTypes, HeapCounted
<1>5. OnePlaceEach(held, free_list, start_free, end_free, mapped)
  <2>1. \A x \in Nat : ~In(x, 0, 0 - 0)
    BY DEF In
  <2>. QED BY <1>1, <2>1 DEF MemInit, OnePlaceEach, PlaceOf, HeldAt, ListedAt, MappedAt, HeldOnce, ListedOnce
<1>. QED BY <1>4, <1>5 DEF MemInit, MemIInv

LEMMA NextMemIInv == MemIInv /\ [MemNext]_memVars => MemIInv'
<1>. SUFFICES ASSUME MemIInv, [MemNext]_memVars PROVE MemIInv'
  OBVIOUS
<1>0. single \in BOOLEAN /\ (~single => MemGood)
  BY DEF MemIInv, MemGood
<1>1. ASSUME single' \in BOOLEAN, ~single' => MemGood' PROVE MemIInv'
  BY <1>1 DEF MemIInv, MemGood
<1>2. ASSUME NEW n \in Sizes, Take(n) PROVE MemIInv'
  BY <1>0, <1>1, <1>2, TakeKeeps DEF Take, CanAllocate
<1>3. ASSUME NEW n \in Sizes, Refill(n) PROVE MemIInv'
  BY <1>0, <1>1, <1>3, RefillKeeps DEF Refill, CanAllocate, Carved
<1>4. ASSUME NEW n \in Sizes, RefillFromHeap(n) PROVE MemIInv'
  <2>1. ~single /\ single' \in BOOLEAN
    BY <1>0, <1>4 DEF RefillFromHeap, Starved, CanAllocate, Carved
  <2>. QED BY <1>0, <1>1, <1>4, <2>1, RefillFromHeapKeeps
<1>5. ASSUME NEW n \in Sizes, RefillFromList(n) PROVE MemIInv'
  <2>1. ~single /\ single' \in BOOLEAN
    BY <1>0, <1>5, Zenon DEF RefillFromList, Starved, CanAllocate, Carved
  <2>. QED BY <1>0, <1>1, <1>5, <2>1, RefillFromListKeeps
<1>6. ASSUME NEW o \in held, Give(o) PROVE MemIInv'
  BY <1>0, <1>1, <1>6, GiveKeeps DEF Give
<1>7. CASE UNCHANGED memVars
  BY <1>7 DEF memVars, MemIInv, MemTypes, ChunkFits, HeapCounted, Brk, OnePlaceEach
<1>. QED BY <1>2, <1>3, <1>4, <1>5, <1>6, <1>7 DEF MemNext

\* The inductive invariant of the allocator.  (mempool_allocate,
\* mempool_deallocate, mempool_s_refill, mempool_s_chunk_alloc)
THEOREM MemInvariant == MemSpec => []MemIInv
<1>. QED BY InitMemIInv, NextMemIInv, PTL DEF MemSpec

\* Every byte malloc has handed out is in one held object, in one object on a
\* list or in the chunk, whatever sizes are asked for and given back, until a
\* refill gets a single object.
THEOREM MemPartitioned == MemSpec => []MemoryPartitioned
<1>1. MemIInv => MemoryPartitioned
  <2>. SUFFICES ASSUME MemGood PROVE Partitioned
    BY DEF MemIInv, MemGood, MemoryPartitioned
  <2> DEFINE Held == {[at |-> o.at, size |-> RoundUp(o.size), of |-> <<"held", o.size>>] : o \in held}
             Listed(i) == {[at |-> free_list[i][j], size |-> (i + 1) * Align, of |-> <<"free", j>>] :
                             j \in DOMAIN free_list[i]}
             Chunk == IF Left > 0 THEN {[at |-> start_free, size |-> Left, of |-> <<"chunk", 0>>]} ELSE {}
             All == UNION {Listed(i) : i \in Lists}
             Parts == Held \cup All \cup Chunk
             Object(o) == [at |-> o.at, size |-> RoundUp(o.size), of |-> <<"held", o.size>>]
             Line(i, j) == [at |-> free_list[i][j], size |-> (i + 1) * Align, of |-> <<"free", j>>]
             Rest == [at |-> start_free, size |-> Left, of |-> <<"chunk", 0>>]
  <2>1. \A i \in Lists : /\ DOMAIN free_list[i] = 1 .. Len(free_list[i])
                         /\ \A j \in 1 .. Len(free_list[i]) : free_list[i][j] \in Nat
                         /\ (i + 1) * Align \in Nat
    <3>1. \A i \in Lists : i + 1 \in Nat
      BY DEF Lists
    <3>2. \A i \in Lists : (i + 1) * Align \in Nat
      BY <3>1, MemAssumption
    <3>3. \A i \in Lists : free_list[i] \in Seq(Nat)
      BY DEF MemGood, MemTypes, Lines
    <3>. QED BY <3>2, <3>3
  <2>2. \A o \in held : o.at \in Nat /\ RoundUp(o.size) \in Nat
    BY SizeClass DEF MemGood, MemTypes
  <2>3. start_free \in Nat /\ end_free \in Nat /\ Left = end_free - start_free /\ Left \in Nat
    BY DEF MemGood, MemTypes, ChunkFits, Left
  \* The parts of each kind.
  <2>4. /\ \A o \in held : Object(o) \in Held
        /\ \A p \in Held : \E o \in held : p = Object(o)
    OBVIOUS
  <2>5. /\ \A i \in Lists : \A j \in 1 .. Len(free_list[i]) : Line(i, j) \in All
        /\ \A p \in All : \E i \in Lists : \E j \in 1 .. Len(free_list[i]) : p = Line(i, j)
    BY <2>1
  <2>6. (Left > 0 => Rest \in Chunk) /\ \A p \in Chunk : Left > 0 /\ p = Rest
    OBVIOUS
  <2>. HIDE DEF Held, Listed, All, Chunk
  <2>7. \A p \in Parts : p.at \in Nat /\ p.size \in Nat
    <3>1. \A p \in Held : p.at \in Nat /\ p.size \in Nat
      BY <2>2, <2>4
    <3>2. \A p \in All : p.at \in Nat /\ p.size \in Nat
      BY <2>1, <2>5
    <3>3. \A p \in Chunk : p.at \in Nat /\ p.size \in Nat
      BY <2>3, <2>6
    <3>. QED BY <3>1, <3>2, <3>3
  <2>8. \A at, size \in Nat : \A x : x \in Bytes(at, size) <=> x \in Nat /\ In(x, at, size)
    BY DEF Bytes, In
  <2>9. ASSUME NEW x \in Nat
        PROVE  /\ (\E p \in Parts : In(x, p.at, p.size)) <=> MappedAt(mapped, x)
               /\ \A p, q \in Parts : In(x, p.at, p.size) /\ In(x, q.at, q.size) => p = q
    <3> DEFINE On(p) == In(x, p.at, p.size)
    <3>1. PlaceOf(x, held, free_list, start_free, end_free, mapped)
      BY DEF MemGood, OnePlaceEach
    <3>2. /\ HeldAt(held, x) <=> \E p \in Held : On(p)
          /\ \A p, q \in Held : On(p) /\ On(q) => p = q
      <4>1. \A o \in held : On(Object(o)) <=> In(x, o.at, RoundUp(o.size))
        OBVIOUS
      <4>. HIDE DEF On, Object
      <4>2. HeldAt(held, x) <=> \E p \in Held : On(p)
        BY <2>4, <4>1 DEF HeldAt
      <4>3. \A p, q \in Held : On(p) /\ On(q) => p = q
        BY <2>4, <3>1, <4>1 DEF PlaceOf, HeldOnce
      <4>. QED BY <4>2, <4>3
    <3>3. /\ ListedAt(free_list, x) <=> \E p \in All : On(p)
          /\ \A p, q \in All : On(p) /\ On(q) => p = q
      <4>1. \A i \in Lists : \A j \in 1 .. Len(free_list[i]) :
              On(Line(i, j)) <=> In(x, free_list[i][j], (i + 1) * Align)
        OBVIOUS
      <4>. HIDE DEF On, Line
      <4>2. ListedAt(free_list, x) <=> \E p \in All : On(p)
        BY <2>5, <4>1 DEF ListedAt
      <4>3. \A p, q \in All : On(p) /\ On(q) => p = q
        <5>. SUFFICES ASSUME NEW p \in All, NEW q \in All, On(p), On(q) PROVE p = q
          OBVIOUS
        <5>1. PICK i \in Lists : \E j \in 1 .. Len(free_list[i]) : p = Line(i, j)
          BY <2>5
        <5>2. PICK k \in Lists : \E n \in 1 .. Len(free_list[k]) : q = Line(k, n)
          BY <2>5
        <5>3. PICK j \in 1 .. Len(free_list[i]) : p = Line(i, j)
          BY <5>1
        <5>4. PICK n \in 1 .. Len(free_list[k]) : q = Line(k, n)
          BY <5>2
        <5>5. i = k /\ j = n
          BY <3>1, <4>1, <5>3, <5>4 DEF PlaceOf, ListedOnce
        <5>. QED BY <5>3, <5>4, <5>5
      <4>. QED BY <4>2, <4>3
    <3>4. /\ In(x, start_free, end_free - start_free) <=> \E p \in Chunk : On(p)
          /\ \A p, q \in Chunk : p = q
      <4>1. On(Rest) <=> In(x, start_free, end_free - start_free)
        BY <2>3
      <4>2. In(x, start_free, end_free - start_free) => Left > 0
        BY <2>3 DEF In
      <4>. HIDE DEF On, Rest
      <4>. QED BY <2>6, <4>1, <4>2
    <3>. HIDE DEF On
    <3>5. (\E p \in Parts : On(p)) <=> MappedAt(mapped, x)
      BY <3>1, <3>2, <3>3, <3>4 DEF PlaceOf
    <3>6. \A p, q \in Parts : On(p) /\ On(q) => p = q
      <4>1. /\ ~((\E p \in Held : On(p)) /\ (\E p \in All : On(p)))
            /\ ~((\E p \in Held : On(p)) /\ (\E p \in Chunk : On(p)))
            /\ ~((\E p \in All : On(p)) /\ (\E p \in Chunk : On(p)))
        BY <3>1, <3>2, <3>3, <3>4 DEF PlaceOf
      <4>. QED BY <3>2, <3>3, <3>4, <4>1
    <3>. QED BY <3>5, <3>6 DEF On
  <2>. HIDE DEF Parts
  <2>10. \A b \in mapped : b.at \in Nat /\ b.size \in Nat
    BY DEF MemGood, MemTypes
  <2>11. UNION {Bytes(p.at, p.size) : p \in Parts} = UNION {Bytes(b.at, b.size) : b \in mapped}
    <3>1. \A x : x \in UNION {Bytes(p.at, p.size) : p \in Parts}
                   <=> x \in Nat /\ \E p \in Parts : In(x, p.at, p.size)
      BY <2>7, <2>8
    <3>2. \A x : x \in UNION {Bytes(b.at, b.size) : b \in mapped} <=> x \in Nat /\ MappedAt(mapped, x)
      BY <2>8, <2>10 DEF MappedAt
    <3>. QED BY <2>9, <3>1, <3>2
  <2>12. \A p, q \in Parts : p # q => Bytes(p.at, p.size) \cap Bytes(q.at, q.size) = {}
    BY <2>7, <2>8, <2>9
  <2>13. heap_size + Cardinality(mapped) = Brk
    BY DEF MemGood, HeapCounted
  <2>. QED BY <2>11, <2>12, <2>13 DEF Partitioned, Parts, Held, Listed, All, Chunk
<1>. QED BY <1>1, MemInvariant, PTL

-----------------------------------------------------------------------------
(* ByteStream: what its recursive functions compute. *)

\* What holds at 0 and passes on from each number to the next holds up to N.
Inductive(P, N) == 0 \in P /\ \A i \in 1 .. N : i - 1 \in P => i \in P

LEMMA UpTo == ASSUME NEW N \in Nat, NEW P, Inductive(P, N) PROVE 0 .. N \subseteq P
<1> DEFINE Out == {i \in 0 .. N : i \notin P}
<1>1. ASSUME Out # {} PROVE FALSE
  <2>1. Out \in SUBSET Nat
    OBVIOUS
  <2>2. PICK m \in Out : \A i \in Out : m =< i
    <3>. HIDE DEF Out
    <3>. QED BY <1>1, <2>1, LeastIn
  <2>4. m \in 0 .. N /\ m \notin P /\ \A i \in Out : m =< i
    BY <2>2
  <2>5. m # 0
    BY <2>4 DEF Inductive
  <2>6. m - 1 \in 0 .. N /\ m \in 1 .. N
    BY <2>4, <2>5
  <2>7. m - 1 \in P
    BY <2>4, <2>6
  <2>. QED BY <2>4, <2>6, <2>7 DEF Inductive
<1>. QED BY <1>1

\* There is a function that begins with a and goes on by the steps given.
Goes(f, N, a, step) == f[0] = a /\ \A i \in 1 .. N : f[i] = step[i][f[i - 1]]

LEMMA Recursion ==
  ASSUME NEW S, NEW N \in Nat, NEW a \in S, NEW step \in [1 .. N -> [S -> S]]
  PROVE  \E f \in [0 .. N -> S] : Goes(f, N, a, step)
<1> DEFINE P == {n \in 0 .. N : \E f \in [0 .. n -> S] : Goes(f, n, a, step)}
<1>1. 0 \in P
  <2> DEFINE f == [i \in 0 .. 0 |-> a]
  <2>1. f \in [0 .. 0 -> S] /\ Goes(f, 0, a, step)
    BY DEF Goes
  <2>. QED BY <2>1
<1>2. ASSUME NEW i \in 1 .. N, i - 1 \in P PROVE i \in P
  <2>1. PICK g \in [0 .. i - 1 -> S] : Goes(g, i - 1, a, step)
    BY <1>2
  <2> DEFINE f == [j \in 0 .. i |-> IF j = i THEN step[i][g[i - 1]] ELSE g[j]]
  <2>2. step[i] \in [S -> S] /\ i - 1 \in 0 .. i - 1
    OBVIOUS
  <2>3. g[i - 1] \in S
    BY <2>2
  <2>4. step[i][g[i - 1]] \in S
    BY <2>2, <2>3
  <2>5. f \in [0 .. i -> S]
    BY <2>4
  <2>6. f[0] = a
    BY <2>1 DEF Goes
  <2>7. ASSUME NEW j \in 1 .. i PROVE f[j] = step[j][f[j - 1]]
    <3>1. f[j - 1] = g[j - 1]
      OBVIOUS
    <3>2. CASE j = i
      BY <3>1, <3>2
    <3>3. CASE j # i
      BY <2>1, <3>1, <3>3 DEF Goes
    <3>. QED BY <3>2, <3>3
  <2>. HIDE DEF f
  <2>8. Goes(f, i, a, step)
    BY <2>6, <2>7 DEF Goes
  <2>. QED BY <2>5, <2>8
<1>3. N \in P
  <2>. HIDE DEF P
  <2>1. Inductive(P, N)
    BY <1>1, <1>2 DEF Inductive
  <2>2. 0 .. N \subseteq P
    BY <2>1, UpTo
  <2>. QED BY <2>2
<1>. QED BY <1>3

IsPower(f) == f = [i \in 0 .. 8 |-> IF i = 0 THEN 1 ELSE Radix * f[i - 1]]

\* The constants, and the powers of the base.
LEMMA RadixIs == Radix \in Nat /\ Radix >= 2
BY ByteStreamAssumption

LEMMA PowerIs ==
  /\ Power[0] = 1
  /\ \A i \in 1 .. 8 : Power[i] = Radix * Power[i - 1]
  /\ \A i \in 0 .. 8 : Power[i] \in Nat \ {0}
<1> DEFINE step == [i \in 1 .. 8 |-> [n \in Nat |-> Radix * n]]
<1>1. Radix \in Nat \ {0, 1}
  BY ByteStreamAssumption
<1>2. PICK f \in [0 .. 8 -> Nat] : Goes(f, 8, 1, step)
  <2>1. \A n \in Nat : Radix * n \in Nat
    BY <1>1
  <2>2. step \in [1 .. 8 -> [Nat -> Nat]]
    BY <2>1
  <2>. HIDE DEF step
  <2>. QED BY <2>2, Recursion
<1>3. IsPower(f)
  BY <1>2 DEF IsPower, Goes
<1>4. Power = CHOOSE g : IsPower(g)
  BY DEF Power, IsPower
<1>5. IsPower(Power)
  BY <1>3, <1>4
<1>6. Power[0] = 1 /\ \A i \in 1 .. 8 : Power[i] = Radix * Power[i - 1]
  BY <1>5 DEF IsPower
<1>7. \A i \in 0 .. 8 : Power[i] \in Nat \ {0}
  <2> DEFINE P == {i \in 0 .. 8 : Power[i] \in Nat \ {0}}
  <2>1. 0 \in P
    BY <1>6
  <2>2. ASSUME NEW i \in 1 .. 8, i - 1 \in P PROVE i \in P
    <3>1. \A n \in Nat \ {0} : Radix * n \in Nat \ {0}
      BY <1>1
    <3>. QED BY <1>6, <2>2, <3>1
  <2>3. 0 .. 8 \subseteq P
    <3>. HIDE DEF P
    <3>1. Inductive(P, 8)
      BY <2>1, <2>2 DEF Inductive
    <3>. QED BY <3>1, UpTo
  <2>. QED BY <2>3
<1>. QED BY <1>6, <1>7

Byte == 0 .. Radix - 1

LEMMA WidthIs ==
  /\ Scalars = {"byte", "bool", "short", "int", "float", "double", "long64_t", "uint64_t"}
  /\ \A kind \in Scalars : Width[kind] \in {1, 2, 4, 8}
  /\ Width["int"] = 4
BY DEF Scalars, Width

\* A number is packed into the digits of its quotients.
LEMMA PackedIs ==
  ASSUME NEW n \in Int, NEW w \in 0 .. 8
  PROVE  /\ Packed(n, w) \in Seq(Byte) /\ Len(Packed(n, w)) = w
         /\ \A i \in 1 .. w : Packed(n, w)[i] = (n \div Power[i - 1]) % Radix
<1>1. ASSUME NEW i \in 1 .. w PROVE (n \div Power[i - 1]) % Radix \in Byte
  <2>1. Power[i - 1] \in Nat \ {0}
    BY PowerIs
  <2>2. n \div Power[i - 1] \in Int
    BY <2>1
  <2>. QED BY <2>2, ByteStreamAssumption DEF Byte
<1>. QED BY <1>1 DEF Packed

IsSum(f, bytes) ==
  f = [i \in 0 .. Len(bytes) |-> IF i = 0 THEN 0 ELSE f[i - 1] + bytes[i] * Power[i - 1]]

SumOf(bytes) == CHOOSE f : IsSum(f, bytes)

LEMMA SumIs ==
  ASSUME NEW bytes \in Seq(Byte), Len(bytes) \in 0 .. 8
  PROVE  /\ SumOf(bytes)[0] = 0
         /\ \A i \in 1 .. Len(bytes) :
              SumOf(bytes)[i] = SumOf(bytes)[i - 1] + bytes[i] * Power[i - 1]
         /\ \A i \in 0 .. Len(bytes) : SumOf(bytes)[i] \in Nat
<1> DEFINE w == Len(bytes)
           step == [i \in 1 .. w |-> [n \in Nat |-> n + bytes[i] * Power[i - 1]]]
<1>. w \in 0 .. 8 /\ bytes \in [1 .. w -> Byte] /\ w = Len(bytes)
  OBVIOUS
<1>. HIDE DEF w
<1>1. \A i \in 1 .. w : bytes[i] * Power[i - 1] \in Nat
  <2> SUFFICES ASSUME NEW i \in 1 .. w PROVE bytes[i] * Power[i - 1] \in Nat
    OBVIOUS
  <2>1. bytes[i] \in Byte
    OBVIOUS
  <2>2. i - 1 \in 0 .. 8
    OBVIOUS
  <2>3. bytes[i] \in Nat
    BY <2>1, RadixIs DEF Byte
  <2>4. Power[i - 1] \in Nat
    BY <2>2, PowerIs
  <2>. QED BY <2>3, <2>4
<1>2. PICK f \in [0 .. w -> Nat] : Goes(f, w, 0, step)
  <2>1. step \in [1 .. w -> [Nat -> Nat]]
    BY <1>1
  <2>2. w \in Nat
    OBVIOUS
  <2>. HIDE DEF step
  <2>. QED BY <2>1, <2>2, Recursion
<1>3. IsSum(f, bytes)
  <2>1. \A i \in 1 .. w : f[i] = f[i - 1] + bytes[i] * Power[i - 1]
    <3> SUFFICES ASSUME NEW i \in 1 .. w PROVE f[i] = f[i - 1] + bytes[i] * Power[i - 1]
      OBVIOUS
    <3>1. f[i] = step[i][f[i - 1]]
      BY <1>2 DEF Goes
    <3>2. i - 1 \in 0 .. w
      OBVIOUS
    <3>3. f[i - 1] \in Nat
      BY <1>2, <3>2
    <3>. QED BY <3>1, <3>3
  <2>2. f[0] = 0 /\ f \in [0 .. w -> Nat]
    BY <1>2 DEF Goes
  <2>. QED BY <2>1, <2>2 DEF IsSum
<1> DEFINE s == SumOf(bytes)
<1>4. IsSum(s, bytes)
  BY <1>3 DEF SumOf
<1>. HIDE DEF s
<1>5. s[0] = 0 /\ \A i \in 1 .. w : s[i] = s[i - 1] + bytes[i] * Power[i - 1]
  <2>1. \A i \in 0 .. w : s[i] = IF i = 0 THEN 0 ELSE s[i - 1] + bytes[i] * Power[i - 1]
    BY <1>4 DEF IsSum
  <2>2. 0 \in 0 .. w
    OBVIOUS
  <2>3. \A i \in 1 .. w : i \in 0 .. w /\ i # 0
    OBVIOUS
  <2>. QED BY <2>1, <2>2, <2>3
<1>6. \A i \in 0 .. w : s[i] \in Nat
  <2> DEFINE P == {i \in 0 .. w : s[i] \in Nat}
  <2>1. 0 \in P
    BY <1>5
  <2>2. ASSUME NEW i \in 1 .. w, i - 1 \in P PROVE i \in P
    BY <1>1, <1>5, <2>2
  <2>3. 0 .. w \subseteq P
    <3>. HIDE DEF P
    <3>1. Inductive(P, w) /\ w \in Nat
      BY <2>1, <2>2 DEF Inductive
    <3>. QED BY <3>1, UpTo
  <2>. QED BY <2>3
<1>. QED BY <1>5, <1>6 DEF s

LEMMA UnpackedIs ==
  ASSUME NEW kind, NEW bytes \in Seq(Byte), Len(bytes) \in 0 .. 8
  PROVE  /\ Unpacked(kind, bytes) =
              LET n == SumOf(bytes)[Len(bytes)]
              IN IF kind \in Signed /\ 2 * n >= Power[Len(bytes)] THEN n - Power[Len(bytes)] ELSE n
         /\ Unpacked(kind, bytes) \in Int
<1>1. Unpacked(kind, bytes) =
              LET n == SumOf(bytes)[Len(bytes)]
              IN IF kind \in Signed /\ 2 * n >= Power[Len(bytes)] THEN n - Power[Len(bytes)] ELSE n
  BY DEF Unpacked, SumOf, IsSum
<1>2. SumOf(bytes)[Len(bytes)] \in Nat /\ Power[Len(bytes)] \in Nat
  <2>1. Len(bytes) \in 0 .. Len(bytes)
    OBVIOUS
  <2>. QED BY <2>1, SumIs, PowerIs
<1>. QED BY <1>1, <1>2

\* A quotient is the next one's Radix-fold and a digit.
LEMMA Quotients ==
  ASSUME NEW n \in Int, NEW i \in 1 .. 8
  PROVE  LET q == n \div Power[i - 1]
             d == q % Radix
         IN /\ q \in Int /\ d \in Byte
            /\ q * Power[i - 1] = d * Power[i - 1] + (n \div Power[i]) * Power[i]
<1> DEFINE p == Power[i - 1]
           q == n \div p
           d == q % Radix
           h == q \div Radix
           r == n % p
<1>1. Radix \in Nat \ {0, 1} /\ p \in Nat \ {0} /\ Power[i] = Radix * p
  <2>1. i - 1 \in 0 .. 8
    OBVIOUS
  <2>2. p \in Nat \ {0} /\ Power[i] = Radix * p
    BY <2>1, PowerIs
  <2>. QED BY <2>2, ByteStreamAssumption
<1>2. q \in Int /\ r \in 0 .. p - 1 /\ n = q * p + r
  <2>. HIDE DEF p
  <2>. QED BY <1>1
<1>3. h \in Int /\ d \in 0 .. Radix - 1 /\ q = h * Radix + d
  <2>. HIDE DEF q
  <2>. QED BY <1>1, <1>2
<1>. HIDE DEF p, q, d, h, r
<1>4. q * p = h * (Radix * p) + d * p
  BY <1>1, <1>2, <1>3
<1>5. d * p + r \in 0 .. Radix * p - 1
  <2>1. d * p >= 0
    BY <1>1, <1>3
  <2>2. (Radix - 1 - d) * p >= 0
    BY <1>1, <1>3
  <2>3. (Radix - 1 - d) * p = Radix * p - p - d * p
    BY <1>1, <1>3
  <2>4. Radix * p \in Int /\ d * p \in Int
    BY <1>1, <1>3
  <2>. QED BY <2>1, <2>2, <2>3, <2>4, <1>1, <1>2
<1>6. n \div (Radix * p) = h
  <2> DEFINE b == Radix * p
             e == d * p + r
  <2>1. b \in Nat \ {0} /\ n = h * b + e /\ e \in 0 .. b - 1
    BY <1>1, <1>2, <1>3, <1>4, <1>5
  <2>. HIDE DEF b, e
  <2>2. n \div b = h
    <3>1. n \div b \in Int /\ n % b \in 0 .. b - 1 /\ n = (n \div b) * b + (n % b)
      BY <2>1
    <3> DEFINE k == n \div b
               m == n % b
    <3>. HIDE DEF k, m
    <3>2. k \in Int /\ m \in 0 .. b - 1 /\ k * b + m = h * b + e
      BY <2>1, <3>1 DEF k, m
    <3>3. (k - h) * b = e - m
      BY <2>1, <3>2, <1>3
    <3>4. ~(k > h)
      <4> SUFFICES ASSUME k > h PROVE FALSE
        OBVIOUS
      <4>1. (k - h - 1) * b >= 0
        BY <2>1, <3>2, <1>3
      <4>2. (k - h - 1) * b = (k - h) * b - b
        BY <2>1, <3>2, <1>3
      <4>. QED BY <4>1, <4>2, <3>3, <3>2, <2>1
    <3>5. ~(k < h)
      <4> SUFFICES ASSUME k < h PROVE FALSE
        OBVIOUS
      <4>1. (h - k - 1) * b >= 0
        BY <2>1, <3>2, <1>3
      <4>2. (h - k - 1) * b = -((k - h) * b) - b
        BY <2>1, <3>2, <1>3
      <4>. QED BY <4>1, <4>2, <3>3, <3>2, <2>1
    <3>6. k = h
      BY <3>2, <3>4, <3>5, <1>3
    <3>. QED BY <3>6 DEF k
  <2>. QED BY <2>2 DEF b
<1>7. (n \div Power[i]) * Power[i] = h * (Radix * p)
  BY <1>1, <1>6
<1>8. q * p = d * p + h * (Radix * p)
  <2>1. h * (Radix * p) \in Int /\ d * p \in Int
    BY <1>1, <1>3
  <2>. QED BY <1>4, <2>1
<1>. QED BY <1>2, <1>3, <1>7, <1>8 DEF p, q, d, Byte

\* The sum of the digits is the number less its last quotient.
LEMMA SumOfDigits ==
  ASSUME NEW n \in Int, NEW w \in 0 .. 8
  PROVE  SumOf(Packed(n, w))[w] = n - (n \div Power[w]) * Power[w]
<1> DEFINE bytes == Packed(n, w)
           s == SumOf(bytes)
           Rest(i) == (n \div Power[i]) * Power[i]
           P == {i \in 0 .. w : s[i] = n - Rest(i)}
<1>1. /\ bytes \in Seq(Byte) /\ Len(bytes) = w
      /\ \A i \in 1 .. w : bytes[i] = (n \div Power[i - 1]) % Radix
  BY PackedIs
<1>. HIDE DEF bytes
<1>2. /\ s[0] = 0
      /\ \A i \in 1 .. w : s[i] = s[i - 1] + bytes[i] * Power[i - 1]
      /\ \A i \in 0 .. w : s[i] \in Nat
  BY <1>1, SumIs
<1>. HIDE DEF s
<1>3. 0 \in P
  <2>1. Rest(0) = n
    BY PowerIs
  <2>. QED BY <1>2, <2>1
<1>4. ASSUME NEW i \in 1 .. w, i - 1 \in P PROVE i \in P
  <2>1. i \in 1 .. 8 /\ i - 1 \in 0 .. 8
    OBVIOUS
  <2>2. Power[i] \in Nat \ {0} /\ Power[i - 1] \in Nat \ {0}
    BY <2>1, PowerIs
  <2>3. Rest(i - 1) = bytes[i] * Power[i - 1] + Rest(i)
    BY <1>1, <2>1, Quotients
  <2>4. Rest(i - 1) \in Int /\ Rest(i) \in Int
    <3>1. n \div Power[i] \in Int /\ n \div Power[i - 1] \in Int
      BY <2>2
    <3>. QED BY <2>2, <3>1
  <2>5. bytes[i] \in Nat
    BY <1>1, RadixIs DEF Byte
  <2>6. bytes[i] * Power[i - 1] \in Nat
    BY <2>2, <2>5
  <2>7. s[i - 1] = n - Rest(i - 1) /\ s[i] = s[i - 1] + bytes[i] * Power[i - 1]
    BY <1>2, <1>4
  <2>. HIDE DEF Rest
  <2>8. s[i] = n - Rest(i)
    BY <2>3, <2>4, <2>6, <2>7
  <2>. QED BY <2>8
<1>5. 0 .. w \subseteq P
  <2>. HIDE DEF P
  <2>1. Inductive(P, w)
    BY <1>3, <1>4 DEF Inductive
  <2>. QED BY <2>1, UpTo
<1>6. s[w] = n - Rest(w)
  BY <1>5
<1>. QED BY <1>6 DEF s, bytes

\* What is read of the bytes of a number is that number.
LEMMA NumberBack ==
  ASSUME NEW kind \in Scalars, NEW n \in Int, Holds(kind, n)
  PROVE  Unpacked(kind, Packed(n, Width[kind])) = n
<1> DEFINE w == Width[kind]
           p == Power[w]
           s == SumOf(Packed(n, w))[w]
<1>1. w \in 1 .. 8
  BY WidthIs
<1>2. p \in Nat \ {0}
  BY <1>1, PowerIs
<1>3. Unpacked(kind, Packed(n, w)) = IF kind \in Signed /\ 2 * s >= p THEN s - p ELSE s
  <2>. w \in 0 .. 8
    BY <1>1
  <2>. HIDE DEF w
  <2>1. Packed(n, w) \in Seq(Byte) /\ Len(Packed(n, w)) = w
    BY PackedIs
  <2>. QED BY <2>1, UnpackedIs
<1>4. s = n - (n \div p) * p
  BY <1>1, SumOfDigits
<1>5. CASE kind = "bool"
  <2>1. p = Radix /\ n \in {0, 1} /\ kind \notin Signed
    BY <1>5, PowerIs, RadixIs DEF Holds, Width, Signed
  <2>2. n \div p = 0
    BY <2>1, RadixIs
  <2>. HIDE DEF p, s
  <2>. QED BY <1>2, <1>3, <1>4, <2>1, <2>2 DEF w
<1>6. CASE kind \in Signed
  <2>1. 2 * n >= -p /\ 2 * n < p
    BY <1>6 DEF Holds, Signed
  <2>. HIDE DEF p, s
  <2>2. CASE n >= 0
    <3>1. n \div p = 0
      BY <1>2, <2>1, <2>2
    <3>2. s = n
      BY <1>2, <1>4, <3>1
    <3>. QED BY <1>2, <1>3, <2>1, <3>2 DEF w
  <2>3. CASE n < 0
    <3>1. n \div p = -1
      BY <1>2, <2>1, <2>3
    <3>2. s = n + p
      BY <1>2, <1>4, <3>1
    <3>. QED BY <1>2, <1>3, <1>6, <2>1, <3>2 DEF w
  <2>. QED BY <2>2, <2>3
<1>7. CASE kind \notin Signed /\ kind # "bool"
  <2>1. n >= 0 /\ n < p
    BY <1>7 DEF Holds
  <2>. HIDE DEF p, s
  <2>2. n \div p = 0
    BY <1>2, <2>1
  <2>3. s = n
    BY <1>2, <1>4, <2>2
  <2>. QED BY <1>3, <1>7, <2>3 DEF w
<1>. QED BY <1>5, <1>6, <1>7

\* Counts and lengths are numbers an int holds.
LEMMA IntHolds == ASSUME NEW n \in Nat, n <= 3 \/ 2 * n < Power[4] PROVE Holds("int", n)
<1>1. Power[4] \in Nat /\ Power[4] >= 16
  <2>1. /\ Power[0] = 1 /\ Power[1] = Radix * Power[0] /\ Power[2] = Radix * Power[1]
        /\ Power[3] = Radix * Power[2] /\ Power[4] = Radix * Power[3]
    BY PowerIs
  <2>2. \A m \in Nat : Radix * m \in Nat /\ Radix * m >= 2 * m
    BY RadixIs
  <2>. QED BY <2>1, <2>2
<1>2. Width["int"] = 4 /\ "int" \in Signed
  BY WidthIs DEF Signed
<1>. QED BY <1>1, <1>2 DEF Holds

\* The loop of checkbufferoverflow adds at least one byte each time, but for a
\* buffer of one byte.
LEMMA GrownIs ==
  ASSUME NEW size \in Nat, size # 1, NEW required \in Nat
  PROVE  Grown(size, required) \in Nat /\ Grown(size, required) >= required
<1> DEFINE first == IF size = 0 THEN InitSize ELSE size
           More(s) == IF s < required THEN s + (s \div 2) ELSE s
           step == [i \in 1 .. required |-> [s \in Nat |-> More(s)]]
           IsGrow(f) == f = [i \in 0 .. required |-> IF i = 0 THEN first ELSE More(f[i - 1])]
           g == CHOOSE f : IsGrow(f)
<1>1. first \in Nat /\ first >= 2
  BY ByteStreamAssumption
<1>2. PICK f \in [0 .. required -> Nat] : Goes(f, required, first, step)
  <2>1. \A s \in Nat : More(s) \in Nat
    OBVIOUS
  <2>2. step \in [1 .. required -> [Nat -> Nat]]
    BY <2>1
  <2>. HIDE DEF first, step
  <2>. QED BY <1>1, <2>2, Recursion
<1>3. IsGrow(f)
  <2>1. \A i \in 1 .. required : f[i] = More(f[i - 1])
    <3> SUFFICES ASSUME NEW i \in 1 .. required PROVE f[i] = More(f[i - 1])
      OBVIOUS
    <3>1. f[i] = step[i][f[i - 1]]
      BY <1>2 DEF Goes
    <3>2. i - 1 \in 0 .. required
      OBVIOUS
    <3>3. f[i - 1] \in Nat
      BY <1>2, <3>2
    <3>. HIDE DEF More
    <3>. QED BY <3>1, <3>3
  <2>2. f[0] = first
    BY <1>2 DEF Goes
  <2>. HIDE DEF More, first, step
  <2>. QED BY <2>1, <2>2
<1>4. Grown(size, required) = g[required]
  BY DEF Grown
<1>5. IsGrow(g)
  <2>. HIDE DEF IsGrow
  <2>. QED BY <1>3
<1>. HIDE DEF g
<1>6. g[0] = first /\ \A i \in 1 .. required : g[i] = More(g[i - 1])
  <2>. HIDE DEF first, More
  <2>1. \A i \in 0 .. required : g[i] = IF i = 0 THEN first ELSE More(g[i - 1])
    BY <1>5
  <2>2. 0 \in 0 .. required /\ \A i \in 1 .. required : i \in 0 .. required /\ i # 0
    OBVIOUS
  <2>. QED BY <2>1, <2>2
<1> DEFINE P == {i \in 0 .. required : g[i] \in Nat /\ g[i] >= 2 /\ (g[i] >= i \/ g[i] >= required)}
<1>7. 0 \in P
  BY <1>1, <1>6
<1>8. ASSUME NEW i \in 1 .. required, i - 1 \in P PROVE i \in P
  <2>1. g[i] = More(g[i - 1])
    BY <1>6
  <2>2. g[i - 1] \in Nat /\ g[i - 1] >= 2 /\ (g[i - 1] >= i - 1 \/ g[i - 1] >= required)
    BY <1>8
  <2> DEFINE s == g[i - 1]
  <2>3. s \div 2 \in Nat /\ s \div 2 >= 1
    BY <2>2
  <2>4. s \in Nat /\ s >= 2 /\ (s >= i - 1 \/ s >= required) /\ g[i] = More(s)
    BY <2>1, <2>2
  <2>. HIDE DEF s
  <2>5. CASE s < required
    <3>1. g[i] = s + (s \div 2)
      BY <2>4, <2>5
    <3>. QED BY <2>3, <2>4, <2>5, <3>1
  <2>6. CASE ~(s < required)
    <3>1. g[i] = s
      BY <2>4, <2>6
    <3>. QED BY <2>4, <2>6, <3>1
  <2>. QED BY <2>5, <2>6
<1>9. required \in P
  <2>. HIDE DEF P
  <2>1. Inductive(P, required)
    BY <1>7, <1>8 DEF Inductive
  <2>2. 0 .. required \subseteq P
    BY <2>1, UpTo
  <2>. QED BY <2>2
<1>. QED BY <1>4, <1>9

\* A flattened sequence of one or two.
LEMMA FlattenFew ==
  ASSUME NEW s, Len(s) \in 1 .. 2
  PROVE  FlattenSeq(s) = IF Len(s) = 1 THEN s[1] ELSE s[1] \o s[2]
<1> DEFINE IsFlat(f) == f = [i \in 1 .. Len(s) |-> IF i = 1 THEN s[i] ELSE f[i - 1] \o s[i]]
           f == CHOOSE f : IsFlat(f)
           h == [i \in 1 .. Len(s) |-> IF i = 1 THEN s[1] ELSE s[1] \o s[2]]
<1>0. Len(s) = 1 \/ Len(s) = 2
  OBVIOUS
<1>1. IsFlat(h)
  <2>1. CASE Len(s) = 1
    BY <2>1
  <2>2. CASE Len(s) = 2
    <3>1. h[1] = s[1]
      BY <2>2
    <3>2. \A i \in 1 .. 2 : i # 1 => i = 2 /\ i - 1 = 1
      OBVIOUS
    <3>3. \A i \in 1 .. 2 : h[i] = IF i = 1 THEN s[i] ELSE h[i - 1] \o s[i]
      BY <2>2, <3>1, <3>2
    <3>4. h = [i \in 1 .. 2 |-> h[i]]
      BY <2>2
    <3>. HIDE DEF h
    <3>. QED BY <2>2, <3>3, <3>4
  <2>. QED BY <1>0, <2>1, <2>2
<1>2. IsFlat(f)
  <2>. HIDE DEF IsFlat, h
  <2>. QED BY <1>1
<1>3. FlattenSeq(s) = f[Len(s)]
  BY DEF FlattenSeq
<1>. HIDE DEF f
<1>4. \A i \in 1 .. Len(s) : f[i] = IF i = 1 THEN s[i] ELSE f[i - 1] \o s[i]
  BY <1>2
<1>5. CASE Len(s) = 1
  BY <1>3, <1>4, <1>5
<1>6. CASE Len(s) = 2
  <2>1. f[1] = s[1]
    BY <1>4, <1>6
  <2>2. f[2] = f[2 - 1] \o s[2]
    BY <1>4, <1>6
  <2>3. 2 - 1 = 1
    OBVIOUS
  <2>. QED BY <1>3, <1>6, <2>1, <2>2, <2>3
<1>. QED BY <1>0, <1>5, <1>6

LEMMA JoinIs ==
  ASSUME NEW a \in Seq(Byte), NEW b \in Seq(Byte)
  PROVE  a \o b \in Seq(Byte) /\ Len(a \o b) = Len(a) + Len(b)
OBVIOUS

-----------------------------------------------------------------------------
(* Conversions of numbers and strings. *)

\* The nearest of some numbers is one of them, and of one of them it is itself.
LEMMA NearestIs ==
  ASSUME NEW S \in SUBSET Int, NEW n \in Int, \E m \in S : IsNearest(m, n, S)
  PROVE  /\ Nearest(n, S) \in S
         /\ n \in S => Nearest(n, S) = n
<1> DEFINE m == Nearest(n, S)
<1>1. m \in S /\ IsNearest(m, n, S)
  BY DEF Nearest
<1>. HIDE DEF m
<1>2. ASSUME n \in S PROVE m = n
  <2>1. Distance(m, n) <= Distance(n, n)
    BY <1>1, <1>2 DEF IsNearest
  <2>. QED BY <1>1, <2>1 DEF Distance
<1>. QED BY <1>1, <1>2 DEF m

\* What is written of a number is an integer, and its reader does not change it.
LEMMA StoredIs ==
  ASSUME NEW kind, NEW n \in Numbers
  PROVE  Stored(kind, n) \in Int /\ Pushed(kind, Stored(kind, n)) = Stored(kind, n)
<1>1. /\ n \in Int /\ Doubles \in SUBSET Int /\ Floats \in SUBSET Int
      /\ \E m \in Doubles : IsNearest(m, n, Doubles)
      /\ \A k \in Doubles : \E m \in Floats : IsNearest(m, k, Floats)
  BY ByteStreamAssumption
<1> DEFINE d == Nearest(n, Doubles)
<1>2. d \in Doubles /\ d \in Int
  BY <1>1, NearestIs
<1>3. Nearest(d, Doubles) = d
  <2>1. \E m \in Doubles : IsNearest(m, d, Doubles)
    <3>1. \A k \in Doubles : Distance(d, d) <= Distance(k, d)
      <4>. HIDE DEF d
      <4>. QED BY <1>1, <1>2 DEF Distance
    <3>. QED BY <1>2, <3>1 DEF IsNearest
  <2>. HIDE DEF d
  <2>. QED BY <1>1, <1>2, <2>1, NearestIs
<1>4. Nearest(d, Floats) \in Int
  <2>. HIDE DEF d
  <2>1. \E m \in Floats : IsNearest(m, d, Floats)
    BY <1>1, <1>2
  <2>2. Nearest(d, Floats) \in Floats
    BY <1>1, <1>2, <2>1, NearestIs
  <2>. QED BY <1>1, <2>2
<1>5. CASE kind = "float"
  <2>1. Stored(kind, n) = Nearest(d, Floats) /\ kind \notin Converted
    BY <1>5 DEF Stored, Converted
  <2>. QED BY <1>4, <2>1 DEF Pushed
<1>6. CASE kind \in Converted
  <2>1. Stored(kind, n) = d
    <3>1. kind # "float"
      BY <1>6 DEF Converted
    <3>. QED BY <1>6, <3>1 DEF Stored
  <2>. HIDE DEF d
  <2>. QED BY <1>2, <1>3, <1>6, <2>1 DEF Pushed
<1>7. CASE kind # "float" /\ kind \notin Converted
  <2>1. Stored(kind, n) = n
    BY <1>7 DEF Stored
  <2>. QED BY <1>1, <1>7, <2>1 DEF Pushed
<1>. QED BY <1>5, <1>6, <1>7

\* The place of the first 0, or the end.
EndsAt(s, n) == (\A i \in 1 .. n : s[i] # 0) /\ (n < Len(s) => s[n + 1] = 0)

LEMMA StrLenIs ==
  ASSUME NEW s \in Seq(Byte)
  PROVE  StrLen(s) \in 0 .. Len(s) /\ EndsAt(s, StrLen(s))
<1>1. \E n \in 0 .. Len(s) : EndsAt(s, n)
  <2> DEFINE I == {i \in 1 .. Len(s) : s[i] = 0}
  <2>1. CASE I = {}
    <3>1. Len(s) \in 0 .. Len(s) /\ EndsAt(s, Len(s))
      BY <2>1 DEF EndsAt
    <3>. QED BY <3>1
  <2>2. CASE I # {}
    <3>1. I \in SUBSET Nat
      OBVIOUS
    <3>2. PICK j \in I : \A i \in I : j =< i
      <4>. HIDE DEF I
      <4>. QED BY <2>2, <3>1, LeastIn
    <3> DEFINE n == j - 1
    <3>3. j \in 1 .. Len(s) /\ s[j] = 0
      BY <3>2
    <3>4. n \in 0 .. Len(s) /\ n + 1 = j
      BY <3>3
    <3>5. \A i \in 1 .. n : s[i] # 0
      BY <3>2, <3>3
    <3>. HIDE DEF n
    <3>6. EndsAt(s, n)
      BY <3>3, <3>4, <3>5 DEF EndsAt
    <3>. QED BY <3>4, <3>6
  <2>. QED BY <2>1, <2>2
<1>. QED BY <1>1 DEF StrLen, EndsAt

\* A C string holds no 0, so that it is its own.
LEMMA CStringIs ==
  ASSUME NEW s \in Seq(Byte)
  PROVE  /\ CString(s) \in Seq(Byte) /\ Len(CString(s)) = StrLen(s) /\ StrLen(s) \in 0 .. Len(s)
         /\ CString(CString(s)) = CString(s)
<1> DEFINE n == StrLen(s)
           c == CString(s)
<1>1. n \in 0 .. Len(s) /\ EndsAt(s, n)
  BY StrLenIs
<1>2. c = SubSeq(s, 1, n)
  BY DEF CString
<1>. HIDE DEF n, c
<1>3. c \in Seq(Byte) /\ Len(c) = n /\ \A i \in 1 .. n : c[i] = s[i]
  BY <1>1, <1>2
<1>4. \A i \in 1 .. Len(c) : c[i] # 0
  BY <1>1, <1>3 DEF EndsAt
<1> DEFINE k == StrLen(c)
<1>5. k \in 0 .. Len(c) /\ EndsAt(c, k)
  BY <1>3, StrLenIs
<1>6. CString(c) = SubSeq(c, 1, k)
  BY DEF CString
<1>. HIDE DEF k
<1>7. k = Len(c)
  <2> SUFFICES ASSUME k < Len(c) PROVE FALSE
    BY <1>3, <1>5
  <2>1. c[k + 1] = 0 /\ k + 1 \in 1 .. Len(c)
    BY <1>3, <1>5 DEF EndsAt
  <2>. QED BY <1>4, <2>1
<1>8. CString(c) = c
  BY <1>3, <1>6, <1>7
<1>. QED BY <1>1, <1>3, <1>8 DEF c, n

-----------------------------------------------------------------------------
(* What lies in the buffer. *)

\* From there on lie these bytes.
Lies(at, bytes) ==
  /\ at \in Nat /\ at + Len(bytes) <= Len(bs.data)
  /\ \A j \in 1 .. Len(bytes) : bs.data[at + j] = bytes[j]

StreamType == [readOnly : BOOLEAN, foreign : BOOLEAN, gone : BOOLEAN, size : Nat, data : Seq(Byte), at : Nat]

LEMMA SliceIs ==
  ASSUME bs \in StreamType, NEW at \in Nat, NEW n \in Nat, at + n <= Len(bs.data)
  PROVE  /\ Slice(at, n) \in Seq(Byte) /\ Len(Slice(at, n)) = n
         /\ \A j \in 1 .. n : Slice(at, n)[j] = bs.data[at + j]
BY DEF Slice, StreamType

LEMMA SliceLies ==
  ASSUME bs \in StreamType, NEW bytes \in Seq(Byte), NEW at, Lies(at, bytes)
  PROVE  Slice(at, Len(bytes)) = bytes
<1>1. Len(bytes) \in Nat /\ at \in Nat /\ at + Len(bytes) <= Len(bs.data)
  BY DEF Lies
<1> DEFINE s == Slice(at, Len(bytes))
<1>2. s \in Seq(Byte) /\ Len(s) = Len(bytes) /\ \A j \in 1 .. Len(bytes) : s[j] = bs.data[at + j]
  BY <1>1, SliceIs
<1>. HIDE DEF s
<1>3. \A j \in 1 .. Len(bytes) : s[j] = bytes[j]
  BY <1>2 DEF Lies
<1>4. s = bytes
  BY <1>2, <1>3
<1>. QED BY <1>4 DEF s

LEMMA LiesJoin ==
  ASSUME NEW a \in Seq(Byte), NEW b \in Seq(Byte), NEW at, bs \in StreamType, Lies(at, a \o b)
  PROVE  Lies(at, a) /\ Lies(at + Len(a), b)
<1>1. Len(a \o b) = Len(a) + Len(b) /\ Len(a) \in Nat /\ Len(b) \in Nat
  OBVIOUS
<1>2. at \in Nat /\ at + Len(a) + Len(b) <= Len(bs.data) /\ Len(bs.data) \in Nat
  BY <1>1 DEF Lies, StreamType
<1>3. \A j \in 1 .. Len(a) : bs.data[at + j] = a[j]
  <2> SUFFICES ASSUME NEW j \in 1 .. Len(a) PROVE bs.data[at + j] = a[j]
    OBVIOUS
  <2>1. j \in 1 .. Len(a \o b)
    BY <1>1
  <2>. QED BY <2>1 DEF Lies
<1>4. \A j \in 1 .. Len(b) : bs.data[at + Len(a) + j] = b[j]
  <2> SUFFICES ASSUME NEW j \in 1 .. Len(b) PROVE bs.data[at + Len(a) + j] = b[j]
    OBVIOUS
  <2>1. Len(a) + j \in 1 .. Len(a \o b) /\ (a \o b)[Len(a) + j] = b[j]
    BY <1>1
  <2>2. bs.data[at + (Len(a) + j)] = b[j]
    BY <2>1 DEF Lies
  <2>. QED BY <1>1, <1>2, <2>2
<1>. QED BY <1>1, <1>2, <1>3, <1>4 DEF Lies

\* A count that lies there is read.
LEMMA CountBack ==
  ASSUME bs \in StreamType, NEW n \in Nat, n <= 3 \/ 2 * n < Power[4],
         NEW at, Lies(at, Packed(n, 4))
  PROVE  IntAt(at) = [n |-> n, at |-> at + 4]
<1>1. Packed(n, 4) \in Seq(Byte) /\ Len(Packed(n, 4)) = 4
  BY PackedIs
<1>2. Slice(at, 4) = Packed(n, 4)
  BY <1>1, SliceLies
<1>3. Unpacked("int", Packed(n, 4)) = n
  <2>1. Holds("int", n) /\ "int" \in Scalars /\ Width["int"] = 4
    BY IntHolds, WidthIs
  <2>. QED BY <2>1, NumberBack
<1>4. at + 4 <= Len(bs.data) /\ at \in Nat
  <2>1. at \in Nat /\ at + Len(Packed(n, 4)) <= Len(bs.data)
    BY DEF Lies
  <2>. QED BY <1>1, <2>1
<1>5. Len(bs.data) \in Nat
  BY DEF StreamType
<1>. QED BY <1>2, <1>3, <1>4, <1>5 DEF IntAt

\* Whatever lies there, an int is read, and no more than there is.
LEMMA IntAtIs ==
  ASSUME bs \in StreamType, NEW at \in 0 .. Len(bs.data)
  PROVE  IntAt(at).n \in Int /\ IntAt(at).at \in 0 .. Len(bs.data) /\ IntAt(at).at >= at
<1>1. Len(bs.data) \in Nat
  BY DEF StreamType
<1>2. CASE at + 4 > Len(bs.data)
  BY <1>2, <1>1 DEF IntAt
<1>3. CASE at + 4 <= Len(bs.data)
  <2>. at \in Nat /\ 4 \in Nat
    BY <1>1
  <2>1. Slice(at, 4) \in Seq(Byte) /\ Len(Slice(at, 4)) = 4
    BY <1>3, SliceIs
  <2>2. Unpacked("int", Slice(at, 4)) \in Int
    BY <2>1, UnpackedIs
  <2>. QED BY <1>1, <1>3, <2>2 DEF IntAt
<1>. QED BY <1>1, <1>2, <1>3

LEMMA TextsAre ==
  ASSUME NEW text \in Texts
  PROVE  /\ text \in Seq(Byte) /\ CString(text) \in Seq(Byte) /\ Len(CString(text)) \in Nat
         /\ 2 * Len(CString(text)) < Power[4]
         /\ PackedText(text) = Packed(Len(CString(text)), 4) \o CString(text)
         /\ PackedText(text) \in Seq(Byte) /\ Len(PackedText(text)) = 4 + Len(CString(text))
         /\ CString(CString(text)) = CString(text)
<1> DEFINE cut == CString(text)
<1>1. text \in Seq(Byte) /\ 2 * Len(text) < Power[4] /\ Power[4] \in Nat
  <2>1. text \in Seq(Byte) /\ 2 * Len(text) < Power[4]
    BY ByteStreamAssumption DEF Byte
  <2>2. Power[4] \in Nat
    BY PowerIs
  <2>. QED BY <2>1, <2>2
<1>2. cut \in Seq(Byte) /\ Len(cut) = StrLen(text) /\ StrLen(text) \in 0 .. Len(text) /\ CString(cut) = cut
  BY <1>1, CStringIs
<1>. HIDE DEF cut
<1>3. Len(cut) \in Nat /\ 2 * Len(cut) < Power[4]
  BY <1>1, <1>2
<1>4. Packed(Len(cut), 4) \in Seq(Byte) /\ Len(Packed(Len(cut), 4)) = 4
  BY <1>3, PackedIs
<1>5. PackedText(text) = Packed(Len(cut), 4) \o cut
  BY <1>2, WidthIs DEF PackedText, cut
<1>6. PackedText(text) \in Seq(Byte) /\ Len(PackedText(text)) = 4 + Len(cut)
  BY <1>2, <1>4, <1>5, JoinIs
<1>. QED BY <1>1, <1>2, <1>3, <1>5, <1>6 DEF cut

\* A string that lies there is read; an empty one is read as none.
OrNil(bytes) == IF bytes = << >> THEN nil ELSE bytes

LEMMA TextBack ==
  ASSUME bs \in StreamType, NEW text \in Texts, NEW at, Lies(at, PackedText(text))
  PROVE  TextAt(at) = [text |-> OrNil(CString(text)), at |-> at + 4 + Len(CString(text))]
<1> DEFINE cut == CString(text)
<1>1. /\ cut \in Seq(Byte) /\ Len(cut) \in Nat /\ 2 * Len(cut) < Power[4]
      /\ Packed(Len(cut), 4) \in Seq(Byte) /\ Len(Packed(Len(cut), 4)) = 4
      /\ CString(cut) = cut
  BY TextsAre, PackedIs
<1>2. Lies(at, Packed(Len(cut), 4)) /\ Lies(at + 4, cut)
  <2>1. Lies(at, Packed(Len(cut), 4) \o cut)
    BY TextsAre
  <2>. HIDE DEF cut
  <2>. QED BY <1>1, <2>1, LiesJoin
<1>. HIDE DEF cut
<1>3. IntAt(at) = [n |-> Len(cut), at |-> at + 4]
  BY <1>1, <1>2, CountBack
<1>4. at \in Nat /\ at + 4 + Len(cut) <= Len(bs.data) /\ Len(bs.data) \in Nat
  BY <1>2 DEF Lies, StreamType
<1>5. Slice(at + 4, Len(cut)) = cut
  BY <1>1, <1>2, SliceLies
<1>6. CASE Len(cut) = 0
  <2>1. cut = << >>
    BY <1>1, <1>6
  <2>. QED BY <1>3, <1>4, <1>6, <2>1 DEF TextAt, OrNil, cut
<1>7. CASE Len(cut) > 0
  <2>1. cut # << >>
    BY <1>7
  <2>. QED BY <1>1, <1>3, <1>4, <1>5, <1>7, <2>1 DEF TextAt, OrNil, cut
<1>. QED BY <1>1, <1>6, <1>7

LEMMA TextAtIs ==
  ASSUME bs \in StreamType, NEW at \in 0 .. Len(bs.data)
  PROVE  TextAt(at).text \in Seq(Byte) \cup {nil} /\ TextAt(at).at \in 0 .. Len(bs.data)
<1> DEFINE c == IntAt(at)
<1>1. c.n \in Int /\ c.at \in 0 .. Len(bs.data) /\ Len(bs.data) \in Nat
  BY IntAtIs DEF StreamType
<1>. HIDE DEF c
<1>2. CASE c.n <= 0 \/ c.at + c.n > Len(bs.data)
  BY <1>1, <1>2 DEF TextAt, c
<1>3. CASE ~(c.n <= 0 \/ c.at + c.n > Len(bs.data))
  <2>1. Slice(c.at, c.n) \in Seq(Byte)
    BY <1>1, <1>3, SliceIs
  <2>2. CString(Slice(c.at, c.n)) \in Seq(Byte)
    BY <2>1, CStringIs
  <2>3. TextAt(at) = [text |-> CString(Slice(c.at, c.n)), at |-> c.at + c.n]
    BY <1>3 DEF TextAt, c
  <2>. QED BY <1>1, <1>3, <2>2, <2>3
<1>. QED BY <1>2, <1>3

-----------------------------------------------------------------------------
(* The readers get back what was written. *)

LEMMA ScalarBack ==
  ASSUME bs \in StreamType, NEW kind \in Scalars, NEW n \in Int, Holds(kind, n), Pushed(kind, n) = n,
         Lies(bs.at, Packed(n, Width[kind]))
  PROVE  ReadScalar(kind) = Answer(<<n>>, bs.at + Width[kind], "running")
<1> DEFINE w == Width[kind]
<1>. w \in 0 .. 8
  BY WidthIs
<1>1. Unpacked(kind, Packed(n, w)) = n
  BY NumberBack
<1>. HIDE DEF w
<1>2. Packed(n, w) \in Seq(Byte) /\ Len(Packed(n, w)) = w
  BY PackedIs
<1>3. Lies(bs.at, Packed(n, w))
  BY DEF w
<1>4. Slice(bs.at, w) = Packed(n, w)
  BY <1>2, <1>3, SliceLies
<1>5. bs.at \in Nat /\ Len(bs.data) \in Nat
  BY DEF StreamType
<1>6. bs.at + w <= Len(bs.data)
  BY <1>2, <1>3 DEF Lies
<1>7. ~(Unread < w)
  BY <1>5, <1>6 DEF Unread
<1>8. ReadScalar(kind) = Answer(<<Pushed(kind, Unpacked(kind, Slice(bs.at, w)))>>, bs.at + w, "running")
  BY <1>7 DEF ReadScalar, w
<1>. QED BY <1>1, <1>4, <1>8 DEF w

LEMMA AllPacked ==
  ASSUME NEW kind \in Scalars, NEW values \in Seq(Int), Len(values) \in 1 .. 2
  PROVE  PackedAll(kind, values) = IF Len(values) = 1 THEN Packed(values[1], Width[kind])
                                   ELSE Packed(values[1], Width[kind]) \o Packed(values[2], Width[kind])
<1> DEFINE s == [i \in DOMAIN values |-> Packed(values[i], Width[kind])]
<1>1. Len(values) = 1 \/ Len(values) = 2
  OBVIOUS
<1>2. DOMAIN values = 1 .. Len(values)
  OBVIOUS
<1>3. Len(s) = Len(values) /\ s[1] = Packed(values[1], Width[kind])
  BY <1>1, <1>2
<1>4. Len(values) = 2 => s[2] = Packed(values[2], Width[kind])
  BY <1>2
<1>5. PackedAll(kind, values) = FlattenSeq(s)
  BY DEF PackedAll
<1>. HIDE DEF s
<1>. QED BY <1>1, <1>3, <1>4, <1>5, FlattenFew

LEMMA AllPackedIs ==
  ASSUME NEW kind \in Scalars, NEW values \in Seq(Int), Len(values) \in 1 .. 2
  PROVE  PackedAll(kind, values) \in Seq(Byte) /\ Len(PackedAll(kind, values)) = Len(values) * Width[kind]
<1> DEFINE w == Width[kind]
           a == Packed(values[1], w)
           b == Packed(values[2], w)
<1>. w \in 0 .. 8
  BY WidthIs
<1>1. PackedAll(kind, values) = IF Len(values) = 1 THEN a ELSE a \o b
  BY AllPacked
<1>. HIDE DEF w
<1>2. a \in Seq(Byte) /\ Len(a) = w
  <2>1. values[1] \in Int
    OBVIOUS
  <2>. QED BY <2>1, PackedIs
<1>3. CASE Len(values) = 1
  BY <1>1, <1>2, <1>3 DEF w
<1>4. CASE Len(values) = 2
  <2>1. values[2] \in Int
    BY <1>4
  <2>2. b \in Seq(Byte) /\ Len(b) = w
    BY <2>1, PackedIs
  <2>3. a \o b \in Seq(Byte) /\ Len(a \o b) = w + w
    BY <1>2, <2>2, JoinIs
  <2>. QED BY <1>1, <1>4, <2>3 DEF w
<1>. QED BY <1>3, <1>4

LEMMA ArrayBack ==
  ASSUME bs \in StreamType, NEW kind \in Scalars, NEW values \in Seq(Int), Len(values) \in 1 .. 2,
         \A i \in 1 .. Len(values) : Holds(kind, values[i]) /\ Pushed(kind, values[i]) = values[i],
         Lies(bs.at, Packed(Len(values), 4) \o PackedAll(kind, values))
  PROVE  ReadArray(kind) = Answer(values, bs.at + 4 + Len(values) * Width[kind], "running")
<1> DEFINE w == Width[kind]
           m == Len(values)
           from == bs.at + 4
<1>0. w \in 0 .. 8 /\ m \in {1, 2} /\ bs.at \in Nat /\ Len(bs.data) \in Nat
  BY WidthIs DEF StreamType
<1>1. /\ Packed(m, 4) \in Seq(Byte) /\ Len(Packed(m, 4)) = 4
      /\ PackedAll(kind, values) \in Seq(Byte) /\ Len(PackedAll(kind, values)) = m * w
  <2>1. m \in Int /\ 4 \in 0 .. 8
    OBVIOUS
  <2>2. Packed(m, 4) \in Seq(Byte) /\ Len(Packed(m, 4)) = 4
    <3>. HIDE DEF m
    <3>. QED BY <2>1, PackedIs
  <2>. QED BY <2>2, AllPackedIs
<1>2. Lies(bs.at, Packed(m, 4)) /\ Lies(from, PackedAll(kind, values))
  BY <1>1, LiesJoin
<1>3. IntAt(bs.at) = [n |-> m, at |-> from]
  <2>1. Lies(bs.at, Packed(m, 4))
    BY <1>2
  <2>. HIDE DEF m
  <2>2. m \in Nat /\ m <= 3
    BY <1>0
  <2>. QED BY <2>1, <2>2, CountBack
<1>4. from + m * w <= Len(bs.data)
  BY <1>1, <1>2 DEF Lies
<1>5. ASSUME NEW i \in 1 .. m
      PROVE  Lies(from + (i - 1) * w, Packed(values[i], w))
  <2>1. PackedAll(kind, values) = IF m = 1 THEN Packed(values[1], w) ELSE Packed(values[1], w) \o Packed(values[2], w)
    BY AllPacked
  <2>2. CASE m = 1
    <3>1. i = 1 /\ from + (i - 1) * w = from
      BY <1>0, <2>2
    <3>. QED BY <1>2, <2>1, <2>2, <3>1
  <2>3. CASE m = 2
    <3>0. 1 \in 1 .. Len(values) /\ 2 \in 1 .. Len(values)
      BY <2>3
    <3>1. values[1] \in Int /\ values[2] \in Int
      BY <3>0
    <3>2. /\ Packed(values[1], w) \in Seq(Byte) /\ Len(Packed(values[1], w)) = w
          /\ Packed(values[2], w) \in Seq(Byte)
      BY <1>0, <3>1, PackedIs
    <3>3. Lies(from, Packed(values[1], w) \o Packed(values[2], w))
      BY <1>2, <2>1, <2>3
    <3>4. Lies(from, Packed(values[1], w)) /\ Lies(from + w, Packed(values[2], w))
      <4>. HIDE DEF w, from
      <4>. QED BY <3>2, <3>3, LiesJoin
    <3>5. \/ i = 1 /\ from + (i - 1) * w = from
          \/ i = 2 /\ from + (i - 1) * w = from + w
      BY <1>0, <2>3
    <3>. QED BY <3>4, <3>5
  <2>. QED BY <1>0, <2>2, <2>3
<1>6. ASSUME NEW i \in 1 .. m
      PROVE  Pushed(kind, Unpacked(kind, Slice(from + (i - 1) * w, w))) = values[i]
  <2>1. values[i] \in Int /\ Holds(kind, values[i]) /\ Pushed(kind, values[i]) = values[i]
    OBVIOUS
  <2>2. Packed(values[i], w) \in Seq(Byte) /\ Len(Packed(values[i], w)) = w
    BY <1>0, <2>1, PackedIs
  <2>3. Slice(from + (i - 1) * w, w) = Packed(values[i], w)
    <3> DEFINE start == from + (i - 1) * w
    <3>1. Lies(start, Packed(values[i], w))
      BY <1>5
    <3>. HIDE DEF start, w
    <3>2. Slice(start, w) = Packed(values[i], w)
      BY <2>2, <3>1, SliceLies
    <3>. QED BY <3>2 DEF start
  <2>4. Unpacked(kind, Packed(values[i], w)) = values[i]
    BY <2>1, NumberBack
  <2>. QED BY <2>1, <2>3, <2>4
<1> DEFINE back == [i \in 1 .. m |-> Pushed(kind, Unpacked(kind, Slice(from + (i - 1) * w, w)))]
<1>7. back = values
  <2>1. back = [i \in 1 .. m |-> values[i]]
    BY <1>6
  <2>2. values = [i \in 1 .. m |-> values[i]]
    OBVIOUS
  <2>. HIDE DEF back
  <2>. QED BY <2>1, <2>2
<1>8. ReadArray(kind) = Answer(back, from + m * w, "running")
  <2> DEFINE c == IntAt(bs.at)
  <2>1. c.n = m /\ c.at = from
    BY <1>3
  <2>2. ~(c.n <= 0) /\ ~(c.at + c.n * w > Len(bs.data))
    <3>. HIDE DEF c, w
    <3>1. ~(m <= 0) /\ ~(from + m * w > Len(bs.data))
      <4>1. from \in Nat
        BY <1>0
      <4>. HIDE DEF m, from
      <4>2. m * w \in Nat
        BY <1>0
      <4>. QED BY <1>0, <1>4, <4>1, <4>2
    <3>. QED BY <2>1, <3>1
  <2>3. ReadArray(kind) =
          Answer([i \in 1 .. c.n |-> Pushed(kind, Unpacked(kind, Slice(c.at + (i - 1) * w, w)))],
                 c.at + c.n * w, "running")
    <3>. HIDE DEF c
    <3>. QED BY <2>2 DEF ReadArray, c
  <2>. HIDE DEF c
  <2>. QED BY <2>1, <2>3
<1>. QED BY <1>7, <1>8

\* What readstringarray has done after some strings.
IsUpto(f, from, n) ==
  f = [i \in 0 .. n |->
        IF i = 0 THEN [texts |-> << >>, at |-> from, failed |-> FALSE]
        ELSE LET u == f[i - 1]
                 t == TextAt(u.at)
             IN IF u.failed THEN u
                ELSE [texts |-> IF t.text = nil THEN u.texts ELSE Append(u.texts, t.text),
                      at |-> t.at, failed |-> t.text = nil]]

Upto(from, n) == CHOOSE f : IsUpto(f, from, n)

OneMore(u) ==
  LET t == TextAt(u.at)
  IN IF u.failed THEN u
     ELSE [texts |-> IF t.text = nil THEN u.texts ELSE Append(u.texts, t.text),
           at |-> t.at, failed |-> t.text = nil]

SoFar == [texts : Seq(Seq(Byte)), at : 0 .. Len(bs.data), failed : BOOLEAN]

LEMMA OneMoreIs == ASSUME bs \in StreamType, NEW u \in SoFar PROVE OneMore(u) \in SoFar
<1>1. u.texts \in Seq(Seq(Byte)) /\ u.at \in 0 .. Len(bs.data) /\ u.failed \in BOOLEAN
  BY DEF SoFar
<1> DEFINE t == TextAt(u.at)
<1>2. t.text \in Seq(Byte) \cup {nil} /\ t.at \in 0 .. Len(bs.data)
  BY <1>1, TextAtIs
<1>. HIDE DEF t
<1>3. t.text # nil => Append(u.texts, t.text) \in Seq(Seq(Byte))
  BY <1>1, <1>2
<1>. QED BY <1>1, <1>2, <1>3 DEF OneMore, SoFar, t

LEMMA UptoIs ==
  ASSUME bs \in StreamType, NEW from \in 0 .. Len(bs.data), NEW n \in Nat
  PROVE  /\ Upto(from, n)[0] = [texts |-> << >>, at |-> from, failed |-> FALSE]
         /\ \A i \in 1 .. n : Upto(from, n)[i] = OneMore(Upto(from, n)[i - 1])
         /\ \A i \in 0 .. n : Upto(from, n)[i] \in SoFar
<1> DEFINE first == [texts |-> << >>, at |-> from, failed |-> FALSE]
           step == [i \in 1 .. n |-> [u \in SoFar |-> OneMore(u)]]
           g == Upto(from, n)
<1>1. first \in SoFar
  BY DEF SoFar
<1>2. PICK f \in [0 .. n -> SoFar] : Goes(f, n, first, step)
  <2>1. step \in [1 .. n -> [SoFar -> SoFar]]
    BY OneMoreIs
  <2>. HIDE DEF first, step
  <2>. QED BY <1>1, <2>1, Recursion
<1>3. \A h : IsUpto(h, from, n) <=> h = [i \in 0 .. n |-> IF i = 0 THEN first ELSE OneMore(h[i - 1])]
  BY DEF IsUpto, OneMore
<1>4. IsUpto(f, from, n)
  <2>1. \A i \in 1 .. n : f[i] = OneMore(f[i - 1])
    <3> SUFFICES ASSUME NEW i \in 1 .. n PROVE f[i] = OneMore(f[i - 1])
      OBVIOUS
    <3>1. f[i] = step[i][f[i - 1]]
      BY <1>2 DEF Goes
    <3>2. i - 1 \in 0 .. n
      OBVIOUS
    <3>3. f[i - 1] \in SoFar
      BY <1>2, <3>2
    <3>. QED BY <3>1, <3>3
  <2>2. f[0] = first
    BY <1>2 DEF Goes
  <2>. HIDE DEF first, step
  <2>3. f = [i \in 0 .. n |-> IF i = 0 THEN first ELSE OneMore(f[i - 1])]
    BY <2>1, <2>2
  <2>. QED BY <1>3, <2>3
<1>5. IsUpto(g, from, n)
  BY <1>4 DEF Upto
<1>. HIDE DEF g, first
<1>6. g[0] = first /\ \A i \in 1 .. n : g[i] = OneMore(g[i - 1])
  <2>1. \A i \in 0 .. n : g[i] = IF i = 0 THEN first ELSE OneMore(g[i - 1])
    BY <1>3, <1>5
  <2>2. 0 \in 0 .. n /\ \A i \in 1 .. n : i \in 0 .. n /\ i # 0
    OBVIOUS
  <2>. QED BY <2>1, <2>2
<1> DEFINE P == {i \in 0 .. n : g[i] \in SoFar}
<1>7. \A i \in 0 .. n : g[i] \in SoFar
  <2>1. 0 \in P
    BY <1>1, <1>6
  <2>2. ASSUME NEW i \in 1 .. n, i - 1 \in P PROVE i \in P
    BY <1>6, <2>2, OneMoreIs
  <2>3. 0 .. n \subseteq P
    <3>. HIDE DEF P
    <3>1. Inductive(P, n)
      BY <2>1, <2>2 DEF Inductive
    <3>. QED BY <3>1, UpTo
  <2>. QED BY <2>3
<1>. QED BY <1>6, <1>7 DEF g, first

\* readstringarray, by the strings it has come to.
LEMMA StringsRead ==
  LET c == IntAt(bs.at)
      u == Upto(c.at, c.n)[c.n]
  IN ReadStringArray =
       IF c.n <= 0 THEN Answer(nil, c.at, "running")
       ELSE IF u.failed THEN Answer(nil, u.at, IF u.texts = << >> THEN "running" ELSE "undefined")
       ELSE Answer(u.texts, u.at, "running")
BY DEF ReadStringArray, Upto, IsUpto

PackedTexts(texts) == FlattenSeq([i \in DOMAIN texts |-> PackedText(texts[i])])

LEMMA AllTextsPacked ==
  ASSUME NEW texts \in Seq(Texts), Len(texts) \in 1 .. 2
  PROVE  /\ PackedTexts(texts) \in Seq(Byte)
         /\ Len(texts) = 1 => /\ PackedTexts(texts) = PackedText(texts[1])
                              /\ Len(PackedTexts(texts)) = 4 + Len(CString(texts[1]))
         /\ Len(texts) = 2 => /\ PackedTexts(texts) = PackedText(texts[1]) \o PackedText(texts[2])
                              /\ Len(PackedTexts(texts)) = 8 + Len(CString(texts[1])) + Len(CString(texts[2]))
<1> DEFINE s == [i \in DOMAIN texts |-> PackedText(texts[i])]
<1>1. Len(texts) = 1 \/ Len(texts) = 2
  OBVIOUS
<1>2. DOMAIN texts = 1 .. Len(texts)
  OBVIOUS
<1>3. Len(s) = Len(texts) /\ s[1] = PackedText(texts[1])
  BY <1>1, <1>2
<1>4. Len(texts) = 2 => s[2] = PackedText(texts[2])
  BY <1>2
<1>5. PackedTexts(texts) = FlattenSeq(s)
  BY DEF PackedTexts
<1>. HIDE DEF s
<1>6. PackedTexts(texts) = IF Len(texts) = 1 THEN PackedText(texts[1])
                           ELSE PackedText(texts[1]) \o PackedText(texts[2])
  BY <1>1, <1>3, <1>4, <1>5, FlattenFew
<1>7. texts[1] \in Texts
  OBVIOUS
<1>8. PackedText(texts[1]) \in Seq(Byte) /\ Len(PackedText(texts[1])) = 4 + Len(CString(texts[1]))
  BY <1>7, TextsAre
<1>9. CASE Len(texts) = 1
  BY <1>6, <1>8, <1>9
<1>10. CASE Len(texts) = 2
  <2> DEFINE a == PackedText(texts[1])
             b == PackedText(texts[2])
  <2>0. 2 \in 1 .. Len(texts)
    BY <1>10
  <2>1. texts[2] \in Texts
    BY <2>0
  <2>2. b \in Seq(Byte) /\ Len(b) = 4 + Len(CString(texts[2])) /\ Len(CString(texts[1])) \in Nat /\ Len(CString(texts[2])) \in Nat
    BY <1>7, <2>1, TextsAre
  <2>3. a \in Seq(Byte) /\ Len(a) = 4 + Len(CString(texts[1])) /\ PackedTexts(texts) = a \o b
    BY <1>6, <1>8, <1>10
  <2>. HIDE DEF a, b
  <2>4. a \o b \in Seq(Byte) /\ Len(a \o b) = Len(a) + Len(b)
    BY <2>2, <2>3, JoinIs
  <2>5. Len(PackedTexts(texts)) = 8 + Len(CString(texts[1])) + Len(CString(texts[2]))
    <3> DEFINE i == Len(CString(texts[1]))
               j == Len(CString(texts[2]))
    <3>1. i \in Nat /\ j \in Nat /\ Len(PackedTexts(texts)) = (4 + i) + (4 + j)
      BY <2>2, <2>3, <2>4
    <3>. HIDE DEF i, j
    <3>2. Len(PackedTexts(texts)) = 8 + i + j
      BY <3>1
    <3>. QED BY <3>2 DEF i, j
  <2>6. PackedTexts(texts) \in Seq(Byte)
    BY <2>3, <2>4
  <2>. QED BY <1>6, <1>10, <2>5, <2>6
<1>. QED BY <1>1, <1>9, <1>10

\* A string that is not empty goes to those that have been read.
LEMMA OneText ==
  ASSUME bs \in StreamType, NEW text \in Texts, CString(text) # << >>,
         NEW at, Lies(at, PackedText(text)), NEW ts
  PROVE  OneMore([texts |-> ts, at |-> at, failed |-> FALSE])
           = [texts |-> Append(ts, CString(text)), at |-> at + 4 + Len(CString(text)), failed |-> FALSE]
<1> DEFINE cut == CString(text)
           t == TextAt(at)
<1>1. TextAt(at) = [text |-> cut, at |-> at + 4 + Len(cut)]
  BY TextBack DEF OrNil
<1>2. cut # nil
  <2>1. cut \in Seq(Byte)
    BY TextsAre
  <2>. QED BY <2>1, ByteStreamAssumption DEF Byte
<1>. HIDE DEF cut
<1>3. t.text = cut /\ t.at = at + 4 + Len(cut)
  BY <1>1
<1>. HIDE DEF t
<1>4. OneMore([texts |-> ts, at |-> at, failed |-> FALSE])
        = [texts |-> IF t.text = nil THEN ts ELSE Append(ts, t.text), at |-> t.at, failed |-> t.text = nil]
  BY DEF OneMore, t
<1>. QED BY <1>2, <1>3, <1>4 DEF cut

LEMMA StringsWhole ==
  ASSUME NEW m \in Nat \ {0}, NEW from, IntAt(bs.at) = [n |-> m, at |-> from],
         NEW ts, NEW to, Upto(from, m)[m] = [texts |-> ts, at |-> to, failed |-> FALSE]
  PROVE  ReadStringArray = Answer(ts, to, "running")
<1> DEFINE c == IntAt(bs.at)
           u == Upto(c.at, c.n)[c.n]
<1>1. c.n = m /\ c.at = from /\ ~(c.n <= 0)
  OBVIOUS
<1>2. u = [texts |-> ts, at |-> to, failed |-> FALSE]
  <2>. HIDE DEF c
  <2>. QED BY <1>1
<1>3. ReadStringArray =
       IF c.n <= 0 THEN Answer(nil, c.at, "running")
       ELSE IF u.failed THEN Answer(nil, u.at, IF u.texts = << >> THEN "running" ELSE "undefined")
       ELSE Answer(u.texts, u.at, "running")
  BY StringsRead
<1>. HIDE DEF c, u
<1>. QED BY <1>1, <1>2, <1>3

Cuts(texts) == [i \in 1 .. Len(texts) |-> CString(texts[i])]

LEMMA StringsBack ==
  ASSUME bs \in StreamType, NEW texts \in Seq(Texts), Len(texts) \in 1 .. 2,
         \A i \in 1 .. Len(texts) : CString(texts[i]) # << >>,
         Lies(bs.at, Packed(Len(texts), 4) \o PackedTexts(texts))
  PROVE  ReadStringArray = Answer(Cuts(texts), bs.at + 4 + Len(PackedTexts(texts)), "running")
<1> DEFINE m == Len(texts)
           from == bs.at + 4
           u == Upto(from, m)
<1>0. m \in {1, 2} /\ bs.at \in Nat /\ Len(bs.data) \in Nat
  BY DEF StreamType
<1>1. /\ Packed(m, 4) \in Seq(Byte) /\ Len(Packed(m, 4)) = 4
      /\ PackedTexts(texts) \in Seq(Byte) /\ Len(PackedTexts(texts)) \in Nat
  <2>1. m \in Int /\ 4 \in 0 .. 8
    OBVIOUS
  <2>2. Packed(m, 4) \in Seq(Byte) /\ Len(Packed(m, 4)) = 4
    <3>. HIDE DEF m
    <3>. QED BY <2>1, PackedIs
  <2>3. PackedTexts(texts) \in Seq(Byte)
    BY AllTextsPacked
  <2>. QED BY <2>2, <2>3
<1>2. Lies(bs.at, Packed(m, 4)) /\ Lies(from, PackedTexts(texts))
  BY <1>1, LiesJoin
<1>3. IntAt(bs.at) = [n |-> m, at |-> from]
  <2>1. Lies(bs.at, Packed(m, 4))
    BY <1>2
  <2>. HIDE DEF m
  <2>2. m \in Nat /\ m <= 3
    BY <1>0
  <2>. QED BY <2>1, <2>2, CountBack
<1>4. from \in 0 .. Len(bs.data)
  <2>1. from \in Nat /\ from + Len(PackedTexts(texts)) <= Len(bs.data)
    BY <1>2 DEF Lies
  <2>. QED BY <1>0, <1>1, <2>1
<1>5. /\ u[0] = [texts |-> << >>, at |-> from, failed |-> FALSE]
      /\ \A i \in 1 .. m : u[i] = OneMore(u[i - 1])
  <2>1. m \in Nat
    OBVIOUS
  <2>. HIDE DEF m, from
  <2>. QED BY <1>4, <2>1, UptoIs
<1>. HIDE DEF u
<1> DEFINE one == CString(texts[1])
           two == CString(texts[2])
<1>6. texts[1] \in Texts /\ one # << >> /\ Len(one) \in Nat
  <2>1. texts[1] \in Texts /\ one # << >>
    OBVIOUS
  <2>. QED BY <2>1, TextsAre
<1> DEFINE a == PackedText(texts[1])
           then == from + 4 + Len(one)
<1>7. Lies(from, a) => u[1] = [texts |-> <<one>>, at |-> then, failed |-> FALSE]
  <2> SUFFICES ASSUME Lies(from, a) PROVE u[1] = [texts |-> <<one>>, at |-> then, failed |-> FALSE]
    OBVIOUS
  <2>1. u[1] = OneMore(u[0])
    <3>1. 1 \in 1 .. m /\ 1 - 1 = 0
      OBVIOUS
    <3>. QED BY <1>5, <3>1
  <2>2. Append(<< >>, one) = <<one>>
    OBVIOUS
  <2>3. u[1] = [texts |-> Append(<< >>, one), at |-> then, failed |-> FALSE]
    <3>. HIDE DEF from, then
    <3>1. u[1] = OneMore([texts |-> << >>, at |-> from, failed |-> FALSE])
      BY <1>5, <2>1
    <3>2. OneMore([texts |-> << >>, at |-> from, failed |-> FALSE])
            = [texts |-> Append(<< >>, one), at |-> from + 4 + Len(one), failed |-> FALSE]
      BY <1>6, OneText
    <3>. QED BY <3>1, <3>2 DEF then
  <2>. QED BY <2>2, <2>3
<1>8. CASE m = 1
  <2>1. PackedTexts(texts) = a /\ Len(PackedTexts(texts)) = 4 + Len(one)
    BY <1>8, AllTextsPacked
  <2>2. Cuts(texts) = <<one>>
    BY <1>8 DEF Cuts
  <2>3. u[1] = [texts |-> Cuts(texts), at |-> then, failed |-> FALSE]
    BY <1>2, <1>7, <2>1, <2>2
  <2>4. ReadStringArray = Answer(Cuts(texts), then, "running")
    <3>. HIDE DEF then, from
    <3>. QED BY <1>3, <1>8, <2>3, StringsWhole DEF u
  <2>5. then = bs.at + 4 + Len(PackedTexts(texts))
    <3> DEFINE i == Len(one)
    <3>1. i \in Nat /\ Len(PackedTexts(texts)) = 4 + i /\ then = bs.at + 4 + 4 + i
      BY <1>6, <2>1
    <3>. HIDE DEF i, then
    <3>. QED BY <1>0, <3>1
  <2>. QED BY <2>4, <2>5
<1>9. CASE m = 2
  <2> DEFINE b == PackedText(texts[2])
             end == then + 4 + Len(two)
  <2>1. texts[2] \in Texts /\ two # << >> /\ Len(two) \in Nat
    <3>1. 2 \in 1 .. Len(texts)
      BY <1>9
    <3>2. texts[2] \in Texts /\ two # << >>
      BY <3>1
    <3>. QED BY <3>2, TextsAre
  <2>2. a \in Seq(Byte) /\ Len(a) = 4 + Len(one) /\ b \in Seq(Byte)
    BY <1>6, <2>1, TextsAre
  <2>3. PackedTexts(texts) = a \o b
    BY <1>9, AllTextsPacked
  <2>4. Len(PackedTexts(texts)) = 8 + Len(one) + Len(two)
    BY <1>9, AllTextsPacked
  <2>5. Lies(from, a) /\ Lies(then, b)
    <3>1. Lies(from, a \o b)
      BY <1>2, <2>3
    <3>. HIDE DEF a, b
    <3>2. from + Len(a) = then
      <4> DEFINE i == Len(one)
      <4>1. i \in Nat /\ Len(a) = 4 + i /\ then = from + 4 + i
        BY <1>6, <2>2
      <4>2. from \in Nat
        BY <1>0
      <4>. HIDE DEF i, then, from
      <4>. QED BY <4>1, <4>2
    <3>. HIDE DEF from, then
    <3>3. Lies(from, a) /\ Lies(from + Len(a), b)
      BY <2>2, <3>1, LiesJoin
    <3>. QED BY <3>2, <3>3
  <2>6. u[1] = [texts |-> <<one>>, at |-> then, failed |-> FALSE]
    BY <1>7, <2>5
  <2>7. u[2] = OneMore(u[1])
    <3>1. 2 \in 1 .. m /\ 2 - 1 = 1
      BY <1>9
    <3>. QED BY <1>5, <3>1
  <2>8. Append(<<one>>, two) = Cuts(texts)
    <3>. HIDE DEF one, two
    <3>1. \A i \in 1 .. 2 : Cuts(texts)[i] = IF i = 1 THEN one ELSE two
      BY <1>9 DEF Cuts, one, two
    <3>2. Cuts(texts) = [i \in 1 .. 2 |-> IF i = 1 THEN one ELSE two]
      BY <1>9, <3>1 DEF Cuts
    <3>. QED BY <3>2
  <2>9. u[2] = [texts |-> Append(<<one>>, two), at |-> end, failed |-> FALSE]
    <3>. HIDE DEF then
    <3>1. OneMore([texts |-> <<one>>, at |-> then, failed |-> FALSE])
            = [texts |-> Append(<<one>>, two), at |-> then + 4 + Len(two), failed |-> FALSE]
      BY <2>1, <2>5, OneText
    <3>. QED BY <2>6, <2>7, <3>1
  <2>10. ReadStringArray = Answer(Cuts(texts), end, "running")
    <3>1. u[2] = [texts |-> Cuts(texts), at |-> end, failed |-> FALSE]
      BY <2>8, <2>9
    <3>. HIDE DEF end, from
    <3>. QED BY <1>3, <1>9, <3>1, StringsWhole DEF u
  <2>11. end = bs.at + 4 + Len(PackedTexts(texts))
    <3> DEFINE i == Len(one)
               j == Len(two)
    <3>1. i \in Nat /\ j \in Nat /\ Len(PackedTexts(texts)) = 8 + i + j /\ end = bs.at + 4 + 4 + i + 4 + j
      BY <1>6, <2>1, <2>4
    <3>. HIDE DEF i, j, end
    <3>. QED BY <1>0, <3>1
  <2>. QED BY <2>10, <2>11
<1>. QED BY <1>0, <1>8, <1>9

LEMMA BytesBack ==
  ASSUME bs \in StreamType, NEW text \in Texts, Lies(bs.at, text)
  PROVE  ReadBytes(Len(text)) = Answer(OrNil(text), bs.at + Len(text), "running")
<1>1. text \in Seq(Byte) /\ Len(text) \in Nat
  BY TextsAre
<1>2. bs.at \in Nat /\ Len(bs.data) \in Nat /\ bs.at + Len(text) <= Len(bs.data)
  BY DEF Lies, StreamType
<1>3. CASE Len(text) = 0
  <2>1. text = << >>
    BY <1>1, <1>3
  <2>. QED BY <1>2, <1>3, <2>1 DEF ReadBytes, OrNil
<1>4. CASE Len(text) > 0
  <2>1. Slice(bs.at, Len(text)) = text
    BY <1>1, SliceLies
  <2>2. text # << >>
    BY <1>4
  <2>. QED BY <1>1, <1>2, <1>4, <2>1, <2>2 DEF ReadBytes, Unread, OrNil
<1>. QED BY <1>1, <1>3, <1>4

-----------------------------------------------------------------------------
(* Items: what has been written. *)

ScalarItems == {[kind |-> kind, value |-> <<n>>] : kind \in Scalars, n \in Numbers}
ArrayItems == [kind : Writable, array : {TRUE}, value : Rows(Numbers) \ {<< >>}]
TextItems == {[kind |-> kind, value |-> text] : kind \in {"string", "bytes"}, text \in Texts}
TextsItems == {[kind |-> "strings", value |-> texts] : texts \in Rows(Texts) \ {<< >>}}

\* The kinds hold the numbers that are written as them.
Item ==
  {item \in ScalarItems \cup ArrayItems :
     \A i \in 1 .. Len(item.value) : Holds(item.kind, Stored(item.kind, item.value[i]))}
    \cup TextItems \cup TextsItems

\* The items a reader gets back: an empty string is none.
Whole(item) == item.kind = "strings" => \A i \in 1 .. Len(item.value) : CString(item.value[i]) # << >>

\* What is written of some numbers.
AllStored(kind, values) == [i \in 1 .. Len(values) |-> Stored(kind, values[i])]

LEMMA AllStoredAre ==
  ASSUME NEW kind, NEW values \in Seq(Numbers)
  PROVE  /\ AllStored(kind, values) \in Seq(Int) /\ Len(AllStored(kind, values)) = Len(values)
         /\ \A i \in 1 .. Len(values) :
              LET stored == AllStored(kind, values)[i]
              IN stored = Stored(kind, values[i]) /\ Pushed(kind, stored) = stored
<1> DEFINE k == Len(values)
           stored == AllStored(kind, values)
<1>1. k \in Nat
  OBVIOUS
<1>2. \A i \in 1 .. k : Stored(kind, values[i]) \in Int /\ Pushed(kind, Stored(kind, values[i])) = Stored(kind, values[i])
  <2> SUFFICES ASSUME NEW i \in 1 .. k
               PROVE  /\ Stored(kind, values[i]) \in Int
                      /\ Pushed(kind, Stored(kind, values[i])) = Stored(kind, values[i])
    OBVIOUS
  <2>1. values[i] \in Numbers
    OBVIOUS
  <2>. QED BY <2>1, StoredIs
<1>3. \A i \in 1 .. k : stored[i] = Stored(kind, values[i])
  BY DEF AllStored
<1>4. stored \in Seq(Int) /\ Len(stored) = k
  <2>1. stored \in [1 .. k -> Int]
    BY <1>2 DEF AllStored
  <2>. HIDE DEF stored, k
  <2>. QED BY <1>1, <2>1
<1>. QED BY <1>2, <1>3, <1>4

\* The bytes of an item.
BytesOf(item) ==
  CASE item.kind = "string" -> PackedText(item.value)
    [] item.kind = "strings" -> Packed(Len(item.value), 4) \o PackedTexts(item.value)
    [] item.kind = "bytes" -> item.value
    [] item.kind \in Scalars ->
         IF "array" \in DOMAIN item THEN Packed(Len(item.value), 4) \o PackedAll(item.kind, AllStored(item.kind, item.value))
         ELSE Packed(Stored(item.kind, item.value[1]), Width[item.kind])

LEMMA RowsAre ==
  ASSUME NEW S, NEW row \in Rows(S) \ {<< >>}
  PROVE  row \in Seq(S) /\ Len(row) \in 1 .. 2
<1>1. CASE \E x \in S : row = <<x>>
  BY <1>1
<1>2. CASE \E x, y \in S : row = <<x, y>>
  BY <1>2
<1>. QED BY <1>1, <1>2 DEF Rows

LEMMA KindsDiffer == {"string", "strings", "bytes"} \cap Scalars = {} /\ Writable \subseteq Scalars
BY WidthIs DEF Writable

\* An item is of one of five kinds.
LEMMA ItemKinds ==
  ASSUME NEW item \in Item
  PROVE  \/ \E kind \in Scalars, n \in Numbers : Holds(kind, Stored(kind, n)) /\ item = [kind |-> kind, value |-> <<n>>]
         \/ \E kind \in Scalars, values \in Seq(Numbers) :
              /\ Len(values) \in 1 .. 2 /\ \A i \in 1 .. Len(values) : Holds(kind, Stored(kind, values[i]))
              /\ item = [kind |-> kind, array |-> TRUE, value |-> values]
         \/ \E text \in Texts : item = [kind |-> "string", value |-> text]
         \/ \E text \in Texts : item = [kind |-> "bytes", value |-> text]
         \/ \E texts \in Seq(Texts) : Len(texts) \in 1 .. 2 /\ item = [kind |-> "strings", value |-> texts]
<1>1. CASE item \in ScalarItems /\ \A i \in 1 .. Len(item.value) : Holds(item.kind, Stored(item.kind, item.value[i]))
  <2>1. PICK kind \in Scalars, n \in Numbers : item = [kind |-> kind, value |-> <<n>>]
    BY <1>1 DEF ScalarItems
  <2>2. item.kind = kind /\ item.value = <<n>> /\ Len(<<n>>) = 1 /\ <<n>>[1] = n
    BY <2>1
  <2>3. Holds(kind, Stored(kind, n))
    BY <1>1, <2>2
  <2>. QED BY <2>1, <2>3
<1>2. CASE item \in ArrayItems /\ \A i \in 1 .. Len(item.value) : Holds(item.kind, Stored(item.kind, item.value[i]))
  <2>1. PICK kind \in Writable, values \in Rows(Numbers) \ {<< >>} :
          item = [kind |-> kind, array |-> TRUE, value |-> values]
    BY <1>2 DEF ArrayItems
  <2>2. values \in Seq(Numbers) /\ Len(values) \in 1 .. 2
    BY RowsAre
  <2>3. kind \in Scalars
    BY KindsDiffer
  <2>4. \A i \in 1 .. Len(values) : Holds(kind, Stored(kind, values[i]))
    BY <1>2, <2>1
  <2>. QED BY <2>1, <2>2, <2>3, <2>4
<1>3. CASE item \in TextItems
  BY <1>3 DEF TextItems
<1>4. CASE item \in TextsItems
  BY <1>4, RowsAre DEF TextsItems
<1>. QED BY <1>1, <1>2, <1>3, <1>4 DEF Item

\* The bytes of an item, and that they are read back.
ReadsBack(item) ==
  Whole(item) /\ Lies(bs.at, BytesOf(item)) =>
    ReadItem(item) = Answer(Due(item), bs.at + Len(BytesOf(item)), "running")

LEMMA ScalarItem ==
  ASSUME NEW kind \in Scalars, NEW n \in Numbers, Holds(kind, Stored(kind, n)),
         NEW item, item = [kind |-> kind, value |-> <<n>>]
  PROVE  /\ BytesOf(item) = Packed(Stored(kind, n), Width[kind]) /\ BytesOf(item) \in Seq(Byte)
         /\ ReadItem(item) = ReadScalar(kind)
         /\ bs \in StreamType => ReadsBack(item)
<1>1. item.kind = kind /\ item.value = <<n>> /\ "array" \notin DOMAIN item /\ <<n>>[1] = n
  OBVIOUS
<1>2. kind \notin {"string", "strings", "bytes"}
  BY KindsDiffer
<1>0. Stored(kind, n) \in Int /\ Pushed(kind, Stored(kind, n)) = Stored(kind, n)
  BY StoredIs
<1>3. BytesOf(item) = Packed(Stored(kind, n), Width[kind])
  BY <1>1, <1>2 DEF BytesOf
<1>4. ReadItem(item) = ReadScalar(kind)
  BY <1>1, <1>2 DEF ReadItem
<1>5. Width[kind] \in 0 .. 8
  BY WidthIs
<1> DEFINE w == Width[kind]
<1>6. Packed(Stored(kind, n), w) \in Seq(Byte) /\ Len(Packed(Stored(kind, n), w)) = w
  <2>. HIDE DEF w
  <2>. QED BY <1>0, <1>5, PackedIs DEF w
<1>7. ASSUME bs \in StreamType, Lies(bs.at, BytesOf(item))
      PROVE  ReadItem(item) = Answer(Due(item), bs.at + Len(BytesOf(item)), "running")
  <2>1. ReadScalar(kind) = Answer(<<Stored(kind, n)>>, bs.at + w, "running")
    BY <1>0, <1>3, <1>7, ScalarBack
  <2>2. Due(item) = <<Stored(kind, n)>>
    <3>1. Due(item) = [i \in DOMAIN <<n>> |-> Stored(kind, <<n>>[i])]
      BY <1>1, <1>2 DEF Due
    <3>2. DOMAIN <<n>> = 1 .. 1 /\ <<n>>[1] = n
      OBVIOUS
    <3>. QED BY <3>1, <3>2
  <2>. QED BY <1>3, <1>4, <1>6, <2>1, <2>2
<1>. QED BY <1>3, <1>4, <1>6, <1>7 DEF ReadsBack

LEMMA ArrayItem ==
  ASSUME NEW kind \in Scalars, NEW values \in Seq(Numbers), Len(values) \in 1 .. 2,
         \A i \in 1 .. Len(values) : Holds(kind, Stored(kind, values[i])),
         NEW item, item = [kind |-> kind, array |-> TRUE, value |-> values]
  PROVE  /\ BytesOf(item) = Packed(Len(values), 4) \o PackedAll(kind, AllStored(kind, values)) /\ BytesOf(item) \in Seq(Byte)
         /\ ReadItem(item) = ReadArray(kind)
         /\ bs \in StreamType => ReadsBack(item)
<1>1. item.kind = kind /\ item.value = values /\ "array" \in DOMAIN item
  OBVIOUS
<1>2. kind \notin {"string", "strings", "bytes"}
  BY KindsDiffer
<1> DEFINE stored == AllStored(kind, values)
<1>0. /\ stored \in Seq(Int) /\ Len(stored) = Len(values) /\ Len(stored) \in 1 .. 2
      /\ \A i \in 1 .. Len(stored) : Holds(kind, stored[i]) /\ Pushed(kind, stored[i]) = stored[i]
  BY AllStoredAre
<1>3. BytesOf(item) = Packed(Len(values), 4) \o PackedAll(kind, AllStored(kind, values))
  BY <1>1, <1>2 DEF BytesOf
<1>4. ReadItem(item) = ReadArray(kind)
  BY <1>1, <1>2 DEF ReadItem
<1> DEFINE a == Packed(Len(values), 4)
           b == PackedAll(kind, stored)
           k == Len(values) * Width[kind]
<1>5. a \in Seq(Byte) /\ Len(a) = 4
  <2>1. Len(values) \in Int /\ 4 \in 0 .. 8
    OBVIOUS
  <2>. QED BY <2>1, PackedIs
<1>6. b \in Seq(Byte) /\ Len(b) = k /\ k \in Nat
  <2>1. b \in Seq(Byte) /\ Len(b) = k
    <3>. HIDE DEF stored
    <3>. QED BY <1>0, AllPackedIs
  <2>2. Len(b) \in Nat
    BY <2>1
  <2>. QED BY <2>1, <2>2
<1>7. a \o b \in Seq(Byte) /\ Len(a \o b) = 4 + k /\ k \in Nat
  <2>. HIDE DEF a, b, k
  <2>. QED BY <1>5, <1>6, JoinIs
<1>8. ASSUME bs \in StreamType, Lies(bs.at, BytesOf(item))
      PROVE  ReadItem(item) = Answer(Due(item), bs.at + Len(BytesOf(item)), "running")
  <2>1. ReadArray(kind) = Answer(stored, bs.at + 4 + k, "running")
    <3>1. Lies(bs.at, Packed(Len(stored), 4) \o b)
      BY <1>0, <1>3, <1>8
    <3>. HIDE DEF stored
    <3>. QED BY <1>0, <1>8, <3>1, ArrayBack
  <2>0. Due(item) = stored
    BY <1>1, <1>2 DEF Due, AllStored
  <2>2. Len(BytesOf(item)) = 4 + k
    BY <1>3, <1>7
  <2>3. bs.at \in Nat
    BY <1>8 DEF StreamType
  <2>4. bs.at + 4 + k = bs.at + (4 + k)
    <3>1. k \in Nat
      BY <1>6
    <3>. HIDE DEF k
    <3>. QED BY <2>3, <3>1
  <2>. HIDE DEF stored
  <2>. QED BY <1>4, <2>0, <2>1, <2>2, <2>4
<1>. QED BY <1>3, <1>4, <1>7, <1>8 DEF ReadsBack

LEMMA StringItem ==
  ASSUME NEW text \in Texts, NEW item, item = [kind |-> "string", value |-> text]
  PROVE  /\ BytesOf(item) = PackedText(text) /\ BytesOf(item) \in Seq(Byte)
         /\ ReadItem(item) = Answer(TextAt(bs.at).text, TextAt(bs.at).at, "running")
         /\ bs \in StreamType => ReadsBack(item)
<1>1. item.kind = "string" /\ item.value = text
  OBVIOUS
<1>2. "string" \notin Scalars
  BY KindsDiffer
<1>3. BytesOf(item) = PackedText(text)
  BY <1>1, <1>2 DEF BytesOf
<1>4. ReadItem(item) = Answer(TextAt(bs.at).text, TextAt(bs.at).at, "running")
  BY <1>1, <1>2 DEF ReadItem
<1>5. BytesOf(item) \in Seq(Byte) /\ Len(BytesOf(item)) = 4 + Len(CString(text)) /\ Len(CString(text)) \in Nat
  BY <1>3, TextsAre
<1>6. ASSUME bs \in StreamType, Lies(bs.at, BytesOf(item))
      PROVE  ReadItem(item) = Answer(Due(item), bs.at + Len(BytesOf(item)), "running")
  <2>1. TextAt(bs.at) = [text |-> OrNil(CString(text)), at |-> bs.at + 4 + Len(CString(text))]
    BY <1>3, <1>6, TextBack
  <2>2. bs.at \in Nat
    BY <1>6 DEF StreamType
  <2>3. bs.at + 4 + Len(CString(text)) = bs.at + Len(BytesOf(item))
    <3> DEFINE k == Len(CString(text))
    <3>1. k \in Nat /\ Len(BytesOf(item)) = 4 + k
      BY <1>5
    <3>. HIDE DEF k
    <3>2. bs.at + 4 + k = bs.at + (4 + k)
      BY <2>2, <3>1
    <3>. QED BY <3>1, <3>2 DEF k
  <2>4. TextAt(bs.at).text = OrNil(CString(text)) /\ TextAt(bs.at).at = bs.at + 4 + Len(CString(text))
    BY <2>1
  <2>5. Due(item) = OrNil(CString(text))
    BY <1>1, <1>2 DEF Due, OrNil
  <2>. QED BY <1>4, <2>3, <2>4, <2>5
<1>. QED BY <1>3, <1>4, <1>5, <1>6 DEF ReadsBack

LEMMA BytesItem ==
  ASSUME NEW text \in Texts, NEW item, item = [kind |-> "bytes", value |-> text]
  PROVE  /\ BytesOf(item) = text /\ BytesOf(item) \in Seq(Byte)
         /\ ReadItem(item) = ReadBytes(Len(text))
         /\ bs \in StreamType => ReadsBack(item)
<1>1. item.kind = "bytes" /\ item.value = text
  OBVIOUS
<1>2. "bytes" \notin Scalars
  BY KindsDiffer
<1>3. BytesOf(item) = text
  BY <1>1, <1>2 DEF BytesOf
<1>4. ReadItem(item) = ReadBytes(Len(text))
  BY <1>1, <1>2 DEF ReadItem
<1>5. text \in Seq(Byte)
  BY TextsAre
<1>6. ASSUME bs \in StreamType, Lies(bs.at, BytesOf(item))
      PROVE  ReadItem(item) = Answer(Due(item), bs.at + Len(BytesOf(item)), "running")
  <2>1. Due(item) = OrNil(text)
    BY <1>1, <1>2 DEF Due, OrNil
  <2>. QED BY <1>1, <1>3, <1>4, <1>6, <2>1, BytesBack
<1>. QED BY <1>3, <1>4, <1>5, <1>6 DEF ReadsBack

LEMMA StringsItem ==
  ASSUME NEW texts \in Seq(Texts), Len(texts) \in 1 .. 2,
         NEW item, item = [kind |-> "strings", value |-> texts]
  PROVE  /\ BytesOf(item) = Packed(Len(texts), 4) \o PackedTexts(texts) /\ BytesOf(item) \in Seq(Byte)
         /\ ReadItem(item) = ReadStringArray
         /\ bs \in StreamType => ReadsBack(item)
<1>1. item.kind = "strings" /\ item.value = texts
  OBVIOUS
<1>2. "strings" \notin Scalars
  BY KindsDiffer
<1>3. BytesOf(item) = Packed(Len(texts), 4) \o PackedTexts(texts)
  BY <1>1, <1>2 DEF BytesOf
<1>4. ReadItem(item) = ReadStringArray
  BY <1>1, <1>2 DEF ReadItem
<1> DEFINE a == Packed(Len(texts), 4)
           b == PackedTexts(texts)
<1>5. a \in Seq(Byte) /\ Len(a) = 4
  <2>1. Len(texts) \in Int /\ 4 \in 0 .. 8
    OBVIOUS
  <2>. QED BY <2>1, PackedIs
<1>6. b \in Seq(Byte) /\ Len(b) \in Nat
  <2>1. b \in Seq(Byte)
    BY AllTextsPacked
  <2>. QED BY <2>1
<1>7. a \o b \in Seq(Byte) /\ Len(a \o b) = 4 + Len(b)
  <2>. HIDE DEF a, b
  <2>. QED BY <1>5, <1>6, JoinIs
<1>8. ASSUME bs \in StreamType, Whole(item), Lies(bs.at, BytesOf(item))
      PROVE  ReadItem(item) = Answer(Due(item), bs.at + Len(BytesOf(item)), "running")
  <2>1. \A i \in 1 .. Len(texts) : CString(texts[i]) # << >>
    BY <1>1, <1>8 DEF Whole
  <2>2. ReadStringArray = Answer(Cuts(texts), bs.at + 4 + Len(b), "running")
    BY <1>3, <1>8, <2>1, StringsBack
  <2>3. Len(BytesOf(item)) = 4 + Len(b)
    BY <1>3, <1>7
  <2>4. bs.at \in Nat
    BY <1>8 DEF StreamType
  <2>5. bs.at + 4 + Len(b) = bs.at + (4 + Len(b))
    <3> DEFINE k == Len(b)
    <3>1. k \in Nat
      BY <1>6
    <3>. HIDE DEF k
    <3>2. bs.at + 4 + k = bs.at + (4 + k)
      BY <2>4, <3>1
    <3>. QED BY <3>2 DEF k
  <2>6. Due(item) = Cuts(texts)
    BY <1>1, <1>2 DEF Due, Cuts
  <2>. HIDE DEF b
  <2>. QED BY <1>4, <2>2, <2>3, <2>5, <2>6
<1>. QED BY <1>3, <1>4, <1>7, <1>8 DEF ReadsBack

\* A reader stays within what there is.
LEMMA ReadersStay ==
  ASSUME bs \in StreamType, bs.at \in 0 .. Len(bs.data), NEW kind \in Scalars
  PROVE  /\ ReadScalar(kind).at \in 0 .. Len(bs.data)
         /\ ReadArray(kind).at \in 0 .. Len(bs.data)
         /\ ReadStringArray.at \in 0 .. Len(bs.data)
         /\ \A n \in Nat : ReadBytes(n).at \in 0 .. Len(bs.data)
<1> DEFINE w == Width[kind]
           c == IntAt(bs.at)
<1>1. w \in Nat /\ Len(bs.data) \in Nat
  BY WidthIs DEF StreamType
<1>2. c.n \in Int /\ c.at \in 0 .. Len(bs.data)
  BY IntAtIs
<1>3. ReadScalar(kind).at \in 0 .. Len(bs.data)
  <2>. HIDE DEF w
  <2>1. ReadScalar(kind).at = IF Unread < w THEN bs.at ELSE bs.at + w
    BY DEF ReadScalar, Answer, w
  <2>. QED BY <1>1, <2>1 DEF Unread
<1>4. ReadArray(kind).at \in 0 .. Len(bs.data)
  <2>1. CASE c.n <= 0 \/ c.at + c.n * w > Len(bs.data)
    <3>1. ReadArray(kind).at = c.at
      <4>. HIDE DEF w, c
      <4>. QED BY <2>1 DEF ReadArray, Answer, w, c
    <3>. QED BY <1>2, <3>1
  <2>2. CASE ~(c.n <= 0) /\ ~(c.at + c.n * w > Len(bs.data))
    <3>. HIDE DEF w, c
    <3>1. ReadArray(kind).at = c.at + c.n * w
      BY <2>2 DEF ReadArray, Answer, w, c
    <3>2. c.n * w \in Nat
      BY <1>1, <1>2, <2>2
    <3>. QED BY <1>1, <1>2, <2>2, <3>1, <3>2
  <2>. QED BY <2>1, <2>2
<1>5. ReadStringArray.at \in 0 .. Len(bs.data)
  <2> DEFINE u == Upto(c.at, c.n)[c.n]
  <2>. HIDE DEF c
  <2>1. ReadStringArray =
          IF c.n <= 0 THEN Answer(nil, c.at, "running")
          ELSE IF u.failed THEN Answer(nil, u.at, IF u.texts = << >> THEN "running" ELSE "undefined")
          ELSE Answer(u.texts, u.at, "running")
    BY StringsRead DEF c
  <2>2. c.n > 0 => u \in SoFar
    <3> SUFFICES ASSUME c.n > 0 PROVE u \in SoFar
      OBVIOUS
    <3>1. c.n \in Nat /\ c.n \in 0 .. c.n
      BY <1>2
    <3>. QED BY <1>2, <3>1, UptoIs
  <2>. HIDE DEF u
  <2>3. ReadStringArray.at = IF c.n <= 0 THEN c.at ELSE u.at
    BY <2>1 DEF Answer
  <2>. QED BY <1>2, <2>2, <2>3 DEF SoFar
<1>6. ASSUME NEW n \in Nat PROVE ReadBytes(n).at \in 0 .. Len(bs.data)
  <2>1. ReadBytes(n).at = IF n <= 0 \/ n > Unread THEN bs.at ELSE bs.at + n
    BY DEF ReadBytes, Answer
  <2>. QED BY <1>1, <2>1 DEF Unread
<1>. QED BY <1>3, <1>4, <1>5, <1>6

\* Of any item: its bytes, how far its reader gets, and what it returns.
LEMMA ItemIs ==
  ASSUME NEW item \in Item
  PROVE  /\ BytesOf(item) \in Seq(Byte)
         /\ bs \in StreamType => ReadsBack(item)
         /\ bs \in StreamType /\ bs.at \in 0 .. Len(bs.data) => ReadItem(item).at \in 0 .. Len(bs.data)
<1>1. ASSUME NEW kind \in Scalars, NEW n \in Numbers, Holds(kind, Stored(kind, n)), item = [kind |-> kind, value |-> <<n>>]
      PROVE  /\ BytesOf(item) \in Seq(Byte)
             /\ bs \in StreamType => ReadsBack(item)
             /\ bs \in StreamType /\ bs.at \in 0 .. Len(bs.data) => ReadItem(item).at \in 0 .. Len(bs.data)
  BY <1>1, ScalarItem, ReadersStay
<1>2. ASSUME NEW kind \in Scalars, NEW values \in Seq(Numbers), Len(values) \in 1 .. 2,
             \A i \in 1 .. Len(values) : Holds(kind, Stored(kind, values[i])),
             item = [kind |-> kind, array |-> TRUE, value |-> values]
      PROVE  /\ BytesOf(item) \in Seq(Byte)
             /\ bs \in StreamType => ReadsBack(item)
             /\ bs \in StreamType /\ bs.at \in 0 .. Len(bs.data) => ReadItem(item).at \in 0 .. Len(bs.data)
  BY <1>2, ArrayItem, ReadersStay
<1>3. ASSUME NEW text \in Texts, item = [kind |-> "string", value |-> text]
      PROVE  /\ BytesOf(item) \in Seq(Byte)
             /\ bs \in StreamType => ReadsBack(item)
             /\ bs \in StreamType /\ bs.at \in 0 .. Len(bs.data) => ReadItem(item).at \in 0 .. Len(bs.data)
  <2>1. /\ BytesOf(item) \in Seq(Byte)
        /\ bs \in StreamType => ReadsBack(item)
        /\ ReadItem(item) = Answer(TextAt(bs.at).text, TextAt(bs.at).at, "running")
    BY <1>3, StringItem
  <2>2. ReadItem(item).at = TextAt(bs.at).at
    BY <2>1 DEF Answer
  <2>. QED BY <2>1, <2>2, TextAtIs
<1>4. ASSUME NEW text \in Texts, item = [kind |-> "bytes", value |-> text]
      PROVE  /\ BytesOf(item) \in Seq(Byte)
             /\ bs \in StreamType => ReadsBack(item)
             /\ bs \in StreamType /\ bs.at \in 0 .. Len(bs.data) => ReadItem(item).at \in 0 .. Len(bs.data)
  <2>1. Len(text) \in Nat /\ "int" \in Scalars
    BY TextsAre, WidthIs
  <2>. QED BY <1>4, <2>1, BytesItem, ReadersStay
<1>5. ASSUME NEW texts \in Seq(Texts), Len(texts) \in 1 .. 2, item = [kind |-> "strings", value |-> texts]
      PROVE  /\ BytesOf(item) \in Seq(Byte)
             /\ bs \in StreamType => ReadsBack(item)
             /\ bs \in StreamType /\ bs.at \in 0 .. Len(bs.data) => ReadItem(item).at \in 0 .. Len(bs.data)
  <2>1. "int" \in Scalars
    BY WidthIs
  <2>. QED BY <1>5, <2>1, StringsItem, ReadersStay
<1>. QED BY <1>1, <1>2, <1>3, <1>4, <1>5, ItemKinds

-----------------------------------------------------------------------------
(* The invariant. *)

\* Where the items end: they lie one after the other and fill the buffer, and the
\* place to read from is the end of what has been read.
Aligned(ends) ==
  /\ ends \in [0 .. Len(items) -> Nat]
  /\ ends[0] = 0 /\ ends[Len(items)] = Len(bs.data) /\ ends[taken] = bs.at
  /\ \A i \in 1 .. Len(items) :
       /\ Whole(items[i]) /\ Lies(ends[i - 1], BytesOf(items[i]))
       /\ ends[i] = ends[i - 1] + Len(BytesOf(items[i]))

ByteTypes ==
  /\ bs \in StreamType /\ items \in Seq(Item) /\ taken \in 0 .. Len(items)
  /\ calls \in 0 .. MaxCalls /\ odd \in BOOLEAN

ByteIInv ==
  /\ ByteTypes
  /\ Len(bs.data) <= bs.size /\ bs.at \in 0 .. Len(bs.data)
  /\ bs.gone => bs.foreign
  /\ RoundTrip
  /\ outcome = "running" /\ ~odd => \E ends : Aligned(ends)

LEMMA InitByteIInv == ByteInit => ByteIInv
<1> SUFFICES ASSUME ByteInit PROVE ByteIInv
  OBVIOUS
<1>1. PICK len \in Lengths : bs = NewStream(len)
  BY DEF ByteInit
<1>2. len \in Nat /\ MaxCalls \in Nat
  BY ByteStreamAssumption
<1>3. bs \in StreamType /\ bs.data = << >> /\ bs.at = 0 /\ bs.size = len /\ bs.gone = FALSE
  <2>1. << >> \in Seq(Byte)
    OBVIOUS
  <2>. QED BY <1>1, <1>2, <2>1 DEF NewStream, StreamType
<1>4. items = << >> /\ taken = 0 /\ Len(items) = 0 /\ calls = 0 /\ odd = FALSE /\ outcome = "running"
  BY DEF ByteInit
<1>5. ByteTypes
  <2>1. << >> \in Seq(Item)
    OBVIOUS
  <2>2. items \in Seq(Item) /\ taken \in 0 .. Len(items)
    BY <1>4, <2>1
  <2>3. calls \in 0 .. MaxCalls
    BY <1>2, <1>4
  <2>4. odd \in BOOLEAN
    BY <1>4
  <2>. QED BY <1>3, <2>2, <2>3, <2>4 DEF ByteTypes
<1>6. Aligned([i \in 0 .. 0 |-> 0])
  BY <1>3, <1>4 DEF Aligned
<1>7. RoundTrip
  BY DEF ByteInit, RoundTrip
<1>8. Len(bs.data) <= bs.size /\ bs.at \in 0 .. Len(bs.data) /\ (bs.gone => bs.foreign)
  BY <1>2, <1>3
<1>. QED BY <1>5, <1>6, <1>7, <1>8 DEF ByteIInv

\* What Extended leaves.
LEMMA ExtendedIs ==
  ASSUME ByteIInv, NEW bytes \in Seq(Byte), Extended(bytes)
  PROVE  /\ bs' \in StreamType
         /\ Len(bs'.data) <= bs'.size /\ bs'.at = bs.at /\ bs'.at \in 0 .. Len(bs'.data)
         /\ bs'.readOnly = bs.readOnly /\ bs'.foreign = bs.foreign /\ bs'.gone = bs.gone
         /\ \/ outcome' = outcome /\ bs'.data = bs.data \o bytes
            \/ outcome' = "undefined" /\ bs.foreign
            \/ outcome' = "endless"
<1> DEFINE required == Len(bs.data) + Len(bytes)
<1>1. /\ bs \in StreamType /\ Len(bs.data) <= bs.size /\ bs.at \in 0 .. Len(bs.data)
      /\ bs.data \in Seq(Byte) /\ bs.size \in Nat /\ Len(bs.data) \in Nat
  BY DEF ByteIInv, ByteTypes, StreamType
<1>2. Len(bytes) \in Nat /\ required \in Nat
  BY <1>1
<1>3. bs.data \o bytes \in Seq(Byte) /\ Len(bs.data \o bytes) = required
  BY <1>1, JoinIs
<1>. HIDE DEF required
<1>4. CASE bs.foreign /\ bytes # << >>
  <2>1. outcome' = "undefined" /\ bs' = bs
    BY <1>4 DEF Extended
  <2>. QED BY <1>1, <1>4, <2>1
<1>5. CASE ~(bs.foreign /\ bytes # << >>) /\ bs.size >= required
  <2>1. outcome' = outcome /\ bs' = [bs EXCEPT !.data = @ \o bytes]
    BY <1>5 DEF Extended, required
  <2>2. bs'.data = bs.data \o bytes /\ bs'.size = bs.size /\ bs'.at = bs.at
        /\ bs'.readOnly = bs.readOnly /\ bs'.foreign = bs.foreign /\ bs'.gone = bs.gone
    BY <1>1, <2>1 DEF StreamType
  <2>3. bs' \in StreamType
    BY <1>1, <1>3, <2>1 DEF StreamType
  <2>4. bs'.at \in 0 .. Len(bs'.data) /\ Len(bs'.data) <= bs'.size
    <3>1. required >= Len(bs.data)
      BY <1>1, <1>2 DEF required
    <3>. QED BY <1>1, <1>2, <1>3, <1>5, <2>2, <3>1
  <2>. QED BY <2>1, <2>2, <2>3, <2>4
<1>6. CASE ~(bs.foreign /\ bytes # << >>) /\ ~(bs.size >= required) /\ bs.size = 1
  <2>1. outcome' = "endless" /\ bs' = bs
    BY <1>6 DEF Extended, required
  <2>. QED BY <1>1, <2>1
<1>7. CASE ~(bs.foreign /\ bytes # << >>) /\ ~(bs.size >= required) /\ bs.size # 1
  <2> DEFINE g == Grown(bs.size, required)
  <2>1. outcome' = outcome /\ bs' = [bs EXCEPT !.size = g, !.data = @ \o bytes]
    BY <1>7 DEF Extended, required
  <2>2. g \in Nat /\ g >= required
    BY <1>1, <1>2, <1>7, GrownIs
  <2>. HIDE DEF g
  <2>3. bs'.data = bs.data \o bytes /\ bs'.size = g /\ bs'.at = bs.at
        /\ bs'.readOnly = bs.readOnly /\ bs'.foreign = bs.foreign /\ bs'.gone = bs.gone
    BY <1>1, <2>1 DEF StreamType
  <2>4. bs' \in StreamType
    BY <1>1, <1>3, <2>1, <2>2 DEF StreamType
  <2>5. bs'.at \in 0 .. Len(bs'.data) /\ Len(bs'.data) <= bs'.size
    <3>1. required >= Len(bs.data)
      BY <1>1, <1>2 DEF required
    <3>. QED BY <1>1, <1>2, <1>3, <2>2, <2>3, <3>1
  <2>. QED BY <2>1, <2>3, <2>4, <2>5
<1>. QED BY <1>4, <1>5, <1>6, <1>7

\* An item more: its bytes lie behind the others.
LEMMA AlignedMore ==
  ASSUME ByteIInv, NEW ends, Aligned(ends), NEW item \in Item, Whole(item),
         bs' \in StreamType, bs'.data = bs.data \o BytesOf(item), bs'.at = bs.at,
         items' = Append(items, item), taken' = taken
  PROVE  \E more : Aligned(more)'
<1> DEFINE n == Len(items)
           k == Len(BytesOf(item))
           more == [i \in 0 .. n + 1 |-> IF i = n + 1 THEN ends[n] + k ELSE ends[i]]
<1>1. /\ items \in Seq(Item) /\ n \in Nat /\ taken \in 0 .. n /\ bs.data \in Seq(Byte)
      /\ BytesOf(item) \in Seq(Byte) /\ k \in Nat /\ Len(bs.data) \in Nat
  BY ItemIs DEF ByteIInv, ByteTypes, StreamType
<1>2. /\ ends \in [0 .. n -> Nat] /\ ends[0] = 0 /\ ends[n] = Len(bs.data) /\ ends[taken] = bs.at
      /\ \A i \in 1 .. n : /\ Whole(items[i]) /\ Lies(ends[i - 1], BytesOf(items[i]))
                           /\ ends[i] = ends[i - 1] + Len(BytesOf(items[i]))
  BY DEF Aligned
<1>3. Len(items') = n + 1 /\ items'[n + 1] = item /\ \A i \in 1 .. n : items'[i] = items[i]
  BY <1>1
<1>4. /\ Len(bs'.data) = Len(bs.data) + k
      /\ \A j \in 1 .. Len(bs.data) : bs'.data[j] = bs.data[j]
      /\ \A j \in 1 .. k : bs'.data[Len(bs.data) + j] = BytesOf(item)[j]
  BY <1>1
<1>. HIDE DEF n, k
<1>5. more \in [0 .. n + 1 -> Nat]
  <2>1. n \in 0 .. n
    BY <1>1
  <2>2. ends[n] + k \in Nat
    BY <1>1, <1>2, <2>1
  <2>3. \A i \in 0 .. n + 1 : i # n + 1 => i \in 0 .. n
    BY <1>1
  <2>. QED BY <1>2, <2>2, <2>3
<1>6. more[n + 1] = ends[n] + k /\ \A i \in 0 .. n : more[i] = ends[i]
  BY <1>1
<1>7. PICK m \in [0 .. n + 1 -> Nat] : m[n + 1] = ends[n] + k /\ \A i \in 0 .. n : m[i] = ends[i]
  <2>. HIDE DEF more
  <2>. QED BY <1>5, <1>6
<1>8. m[0] = 0 /\ m[n + 1] = Len(bs'.data) /\ m[taken'] = bs'.at
  <2>1. 0 \in 0 .. n
    BY <1>1
  <2>. QED BY <1>1, <1>2, <1>4, <1>7, <2>1
<1>9. ASSUME NEW i \in 1 .. n + 1
      PROVE  /\ Whole(items'[i]) /\ Lies(m[i - 1], BytesOf(items[i]))'
             /\ m[i] = m[i - 1] + Len(BytesOf(items'[i]))
  <2>1. CASE i = n + 1
    <3>1. items'[i] = item /\ m[i - 1] = Len(bs.data) /\ m[i] = m[i - 1] + k
      <4>1. i - 1 = n /\ n \in 0 .. n
        BY <1>1, <2>1
      <4>. QED BY <1>2, <1>3, <1>7, <2>1, <4>1
    <3> DEFINE b == BytesOf(item)
               at == Len(bs.data)
    <3>2. /\ at \in Nat /\ at + Len(b) <= Len(bs'.data)
          /\ \A j \in 1 .. Len(b) : bs'.data[at + j] = b[j]
      BY <1>1, <1>4 DEF k
    <3>3. BytesOf(items[i])' = b
      BY <3>1
    <3>. HIDE DEF b
    <3>4. Lies(m[i - 1], BytesOf(items[i]))'
      BY <3>1, <3>2, <3>3 DEF Lies
    <3>5. Whole(items'[i]) /\ Len(BytesOf(items'[i])) = k
      BY <3>1 DEF k
    <3>. QED BY <3>1, <3>4, <3>5
  <2>2. CASE i # n + 1
    <3>1. i \in 1 .. n /\ i \in 0 .. n /\ i - 1 \in 0 .. n
      BY <1>1, <2>2
    <3>2. items'[i] = items[i] /\ m[i - 1] = ends[i - 1] /\ m[i] = ends[i]
      BY <1>3, <1>7, <3>1
    <3> DEFINE b == BytesOf(items[i])
               at == ends[i - 1]
    <3>3. Whole(items[i]) /\ Lies(at, b) /\ ends[i] = at + Len(b)
      BY <1>2, <3>1
    <3>4. b \in Seq(Byte) /\ Len(b) \in Nat
      <4>1. items[i] \in Item
        BY <1>1, <3>1 DEF n
      <4>2. b \in Seq(Byte)
        BY <4>1, ItemIs
      <4>. HIDE DEF b
      <4>. QED BY <4>2
    <3>5. BytesOf(items[i])' = b
      BY <3>2
    <3>. HIDE DEF b, at
    <3>6. /\ at \in Nat /\ at + Len(b) <= Len(bs.data)
          /\ \A j \in 1 .. Len(b) : bs.data[at + j] = b[j]
      BY <3>3 DEF Lies
    <3>7. at + Len(b) <= Len(bs'.data)
      BY <1>1, <1>4, <3>4, <3>6
    <3>8. ASSUME NEW j \in 1 .. Len(b) PROVE bs'.data[at + j] = b[j]
      <4>1. at + j \in 1 .. Len(bs.data)
        BY <1>1, <3>4, <3>6
      <4>. QED BY <1>4, <3>6, <4>1
    <3>9. Lies(m[i - 1], BytesOf(items[i]))'
      BY <3>2, <3>5, <3>6, <3>7, <3>8 DEF Lies, at
    <3>10. Whole(items'[i]) /\ m[i] = m[i - 1] + Len(BytesOf(items'[i]))
      <4>1. BytesOf(items'[i]) = b /\ m[i - 1] = at
        BY <3>2 DEF b, at
      <4>. QED BY <3>2, <3>3, <4>1
    <3>. QED BY <3>9, <3>10
  <2>. QED BY <2>1, <2>2
<1>10. Aligned(m)'
  <2>1. Len(items)' = n + 1 /\ m \in [0 .. n + 1 -> Nat]
    BY <1>3
  <2>. HIDE DEF n
  <2>. QED BY <1>8, <1>9, <2>1 DEF Aligned
<1>. QED BY <1>10

\* What the actions that write have in common.
LEMMA Wrote ==
  ASSUME ByteIInv, Running, NEW item \in Item, NEW bytes \in Seq(Byte), NEW o \in BOOLEAN,
         Extended(bytes), items' = Append(items, item), calls' = calls + 1,
         taken' = taken, result' = result, odd' = (odd \/ o),
         ~o => Whole(item) /\ bytes = BytesOf(item)
  PROVE  ByteIInv'
<1>1. /\ bs' \in StreamType
      /\ Len(bs'.data) <= bs'.size /\ bs'.at = bs.at /\ bs'.at \in 0 .. Len(bs'.data)
      /\ bs'.foreign = bs.foreign /\ bs'.gone = bs.gone
      /\ \/ outcome' = outcome /\ bs'.data = bs.data \o bytes
         \/ outcome' = "undefined" /\ bs.foreign
         \/ outcome' = "endless"
  BY ExtendedIs
<1>2. outcome = "running" /\ calls < MaxCalls /\ ByteTypes /\ RoundTrip
  BY DEF Running, ByteIInv
<1>3. ByteTypes'
  <2>1. items' \in Seq(Item) /\ taken' \in 0 .. Len(items')
    BY <1>2 DEF ByteTypes
  <2>2. calls' \in 0 .. MaxCalls
    BY <1>2, ByteStreamAssumption DEF ByteTypes
  <2>3. odd' \in BOOLEAN
    BY <1>2 DEF ByteTypes
  <2>. QED BY <1>1, <2>1, <2>2, <2>3 DEF ByteTypes
<1>4. ~odd' => ~odd /\ ~o
  OBVIOUS
<1>5. RoundTrip'
  <2>1. ASSUME ~odd' PROVE result' # nil => result'.got = Due(result'.item)
    <3>1. result # nil => result.got = Due(result.item)
      BY <1>2, <1>4, <2>1 DEF RoundTrip
    <3>. QED BY <3>1
  <2>2. outcome' \in {"aborted", "undefined"} => bs'.readOnly \/ bs'.foreign
    BY <1>1, <1>2
  <2>. QED BY <2>1, <2>2 DEF RoundTrip
<1>6. ASSUME outcome' = "running", ~odd' PROVE \E ends : Aligned(ends)'
  <2>1. bs'.data = bs.data \o BytesOf(item) /\ Whole(item)
    BY <1>1, <1>4, <1>6
  <2>2. PICK ends : Aligned(ends)
    BY <1>2, <1>4, <1>6 DEF ByteIInv
  <2>. QED BY <1>1, <2>1, <2>2, AlignedMore
<1>7. bs'.gone => bs'.foreign
  BY <1>1 DEF ByteIInv
<1>. QED BY <1>1, <1>3, <1>5, <1>6, <1>7 DEF ByteIInv

LEMMA WroteItem ==
  ASSUME ByteIInv, Running, NEW item \in Item, Whole(item), Written(item, BytesOf(item))
  PROVE  ByteIInv'
<1>1. BytesOf(item) \in Seq(Byte)
  BY ItemIs
<1>2. odd \in BOOLEAN /\ odd' = odd
  BY DEF ByteIInv, ByteTypes, Written
<1>3. odd' = (odd \/ FALSE)
  BY <1>2, Zenon
<1>4. /\ Extended(BytesOf(item)) /\ items' = Append(items, item) /\ calls' = calls + 1
      /\ taken' = taken /\ result' = result
  BY DEF Written
<1>. QED BY <1>1, <1>3, <1>4, Wrote

LEMMA Kept ==
  ASSUME ByteIInv, items' = items, taken' = taken, bs'.data = bs.data, bs'.at = bs.at,
         NEW ends, Aligned(ends)
  PROVE  Aligned(ends)'
BY DEF Aligned, Lies, Whole

LEMMA WriteScalarStep ==
  ASSUME ByteIInv, NEW kind \in Scalars, NEW n \in Numbers, WriteScalar(kind, n)
  PROVE  ByteIInv'
<1> DEFINE item == [kind |-> kind, value |-> <<n>>]
<1>1. Holds(kind, Stored(kind, n))
  BY DEF WriteScalar
<1>2. item \in Item
  <2>1. item \in ScalarItems
    BY DEF ScalarItems
  <2>2. \A i \in 1 .. Len(item.value) : Holds(item.kind, Stored(item.kind, item.value[i]))
    BY <1>1
  <2>. HIDE DEF item
  <2>. QED BY <2>1, <2>2 DEF Item
<1>3. BytesOf(item) = Packed(Stored(kind, n), Width[kind]) /\ BytesOf(item) \in Seq(Byte)
  <2>. HIDE DEF item
  <2>. QED BY <1>1, ScalarItem DEF item
<1>4. Whole(item)
  <2>1. kind # "strings"
    BY KindsDiffer
  <2>. QED BY <2>1 DEF Whole
<1>5. Running /\ Written(item, BytesOf(item))
  BY <1>3 DEF WriteScalar
<1>. HIDE DEF item
<1>. QED BY <1>2, <1>4, <1>5, WroteItem

LEMMA WriteArrayStep ==
  ASSUME ByteIInv, NEW kind \in Writable, NEW values \in Rows(Numbers), WriteArray(kind, values)
  PROVE  ByteIInv'
<1> DEFINE item == [kind |-> kind, array |-> TRUE, value |-> values]
<1>1. values # << >> /\ \A i \in DOMAIN values : Holds(kind, Stored(kind, values[i]))
  BY DEF WriteArray
<1>2. kind \in Scalars /\ values \in Seq(Numbers) /\ Len(values) \in 1 .. 2
  BY <1>1, RowsAre, KindsDiffer
<1>3. AllStored(kind, values) = [i \in DOMAIN values |-> Stored(kind, values[i])]
  BY <1>2 DEF AllStored
<1>4. \A i \in 1 .. Len(values) : Holds(kind, Stored(kind, values[i]))
  BY <1>1, <1>2
<1>5. item \in Item
  <2>1. item \in ArrayItems
    BY <1>1 DEF ArrayItems
  <2>2. \A i \in 1 .. Len(item.value) : Holds(item.kind, Stored(item.kind, item.value[i]))
    BY <1>4
  <2>. HIDE DEF item
  <2>. QED BY <2>1, <2>2 DEF Item
<1>6. BytesOf(item) = Packed(Len(values), 4) \o PackedAll(kind, AllStored(kind, values)) /\ BytesOf(item) \in Seq(Byte)
  <2>. HIDE DEF item
  <2>. QED BY <1>2, <1>4, ArrayItem DEF item
<1>7. Whole(item)
  <2>1. kind # "strings"
    BY <1>2, KindsDiffer
  <2>. QED BY <2>1 DEF Whole
<1>8. Running /\ Written(item, BytesOf(item))
  BY <1>3, <1>6, WidthIs DEF WriteArray
<1>. HIDE DEF item
<1>. QED BY <1>5, <1>7, <1>8, WroteItem

LEMMA WriteTextStep ==
  ASSUME ByteIInv, NEW text \in Texts, WriteString(text) \/ WriteBytes(text)
  PROVE  ByteIInv'
<1>1. ASSUME NEW kind \in {"string", "bytes"}, NEW item, item = [kind |-> kind, value |-> text],
             Running, Written(item, BytesOf(item))
      PROVE  ByteIInv'
  <2>1. item \in Item
    BY <1>1 DEF Item, TextItems
  <2>2. Whole(item)
    BY <1>1 DEF Whole
  <2>. QED BY <1>1, <2>1, <2>2, WroteItem
<1>2. CASE WriteString(text)
  <2> DEFINE item == [kind |-> "string", value |-> text]
  <2>1. BytesOf(item) = PackedText(text)
    BY StringItem
  <2>2. Running /\ Written(item, BytesOf(item))
    BY <1>2, <2>1 DEF WriteString
  <2>. QED BY <1>1, <2>2
<1>3. CASE WriteBytes(text)
  <2> DEFINE item == [kind |-> "bytes", value |-> text]
  <2>1. BytesOf(item) = text
    BY BytesItem
  <2>2. Running /\ Written(item, BytesOf(item))
    BY <1>3, <2>1 DEF WriteBytes
  <2>. QED BY <1>1, <2>2
<1>. QED BY <1>2, <1>3

LEMMA WriteStringArrayStep ==
  ASSUME ByteIInv, NEW texts \in Rows(Texts), NEW stringsOnly \in BOOLEAN,
         WriteStringArray(texts, stringsOnly)
  PROVE  ByteIInv'
<1> DEFINE item == [kind |-> "strings", value |-> texts]
           count == Len(texts) + IF stringsOnly THEN 0 ELSE 1
           bytes == Packed(count, 4) \o PackedTexts(texts)
           o == ~stringsOnly \/ \E i \in DOMAIN texts : CString(texts[i]) = << >>
<1>1. texts # << >> /\ texts \in Seq(Texts) /\ Len(texts) \in 1 .. 2
  BY RowsAre DEF WriteStringArray
<1>2. item \in Item
  BY <1>1 DEF Item, TextsItems
<1>3. bytes \in Seq(Byte)
  <2>1. count \in Int /\ 4 \in 0 .. 8
    BY <1>1
  <2>. HIDE DEF count
  <2>2. Packed(count, 4) \in Seq(Byte)
    BY <2>1, PackedIs
  <2>3. PackedTexts(texts) \in Seq(Byte)
    BY <1>1, AllTextsPacked
  <2>. QED BY <2>2, <2>3, JoinIs
<1>4. ~o => Whole(item) /\ bytes = BytesOf(item)
  <2> SUFFICES ASSUME ~o PROVE Whole(item) /\ bytes = BytesOf(item)
    OBVIOUS
  <2>1. count = Len(texts)
    BY <1>1
  <2>2. BytesOf(item) = Packed(Len(texts), 4) \o PackedTexts(texts)
    BY <1>1, StringsItem
  <2>3. \A i \in 1 .. Len(texts) : CString(texts[i]) # << >>
    BY <1>1
  <2>. QED BY <2>1, <2>2, <2>3 DEF Whole
<1>5. /\ Running /\ Extended(bytes) /\ items' = Append(items, item) /\ calls' = calls + 1
      /\ taken' = taken /\ result' = result /\ odd' = (odd \/ o)
  BY WidthIs DEF WriteStringArray, PackedTexts
<1>6. o \in BOOLEAN
  OBVIOUS
<1>. HIDE DEF item, bytes, o
<1>. QED BY <1>2, <1>3, <1>4, <1>5, <1>6, Wrote

\* A reader of a string that Lua has freed ends the program.
LEMMA GoneStep ==
  ASSUME ByteIInv, bs.gone, bs' = bs, items' = items, taken' \in 0 .. Len(items), result' = result,
         outcome' = "undefined", calls' \in 0 .. MaxCalls, odd' \in BOOLEAN, odd => odd'
  PROVE  ByteIInv'
<1>1. ByteTypes'
  BY DEF ByteIInv, ByteTypes
<1>2. RoundTrip'
  <2>1. ASSUME ~odd' PROVE result' # nil => result'.got = Due(result'.item)
    <3>1. result # nil => result.got = Due(result.item)
      BY <2>1 DEF ByteIInv, RoundTrip
    <3>. QED BY <3>1
  <2>. QED BY <2>1 DEF ByteIInv, RoundTrip
<1>. QED BY <1>1, <1>2 DEF ByteIInv

LEMMA ReadNextStep == ASSUME ByteIInv, ReadNext PROVE ByteIInv'
<1> DEFINE item == items[taken + 1]
           a == ReadItem(item)
<1>1. /\ outcome = "running" /\ taken < Len(items) /\ Takes(a)
      /\ result' = IF bs.gone THEN result ELSE [got |-> a.value, item |-> item]
      /\ taken' = taken + 1 /\ items' = items /\ calls' = calls /\ odd' = odd
  BY DEF ReadNext
<1>2. /\ bs \in StreamType /\ items \in Seq(Item) /\ taken \in 0 .. Len(items)
      /\ calls \in 0 .. MaxCalls /\ odd \in BOOLEAN
      /\ Len(bs.data) <= bs.size /\ bs.at \in 0 .. Len(bs.data) /\ Len(bs.data) \in Nat
      /\ bs.gone => bs.foreign
  BY DEF ByteIInv, ByteTypes, StreamType
<1>3. item \in Item /\ taken + 1 \in 1 .. Len(items) /\ taken' \in 0 .. Len(items)
  BY <1>1, <1>2
<1>. HIDE DEF item
<1>4. a.at \in 0 .. Len(bs.data) /\ ReadsBack(item)
  BY <1>2, <1>3, ItemIs
<1>. HIDE DEF a
<1>5. CASE bs.gone
  <2>1. bs' = bs /\ outcome' = "undefined" /\ result' = result
    BY <1>1, <1>5 DEF Takes
  <2>. QED BY <1>1, <1>2, <1>3, <1>5, <2>1, GoneStep
<1>6. CASE ~bs.gone
  <2>1. /\ bs' = [bs EXCEPT !.at = a.at] /\ outcome' = a.outcome
        /\ result' = [got |-> a.value, item |-> item]
    BY <1>1, <1>6 DEF Takes
  <2>2. /\ bs' \in StreamType /\ bs'.data = bs.data /\ bs'.size = bs.size /\ bs'.at = a.at
        /\ bs'.readOnly = bs.readOnly /\ bs'.foreign = bs.foreign /\ bs'.gone = bs.gone
    BY <1>2, <1>4, <2>1 DEF StreamType
  <2>3. ByteTypes'
    <3>1. taken' \in 0 .. Len(items')
      BY <1>1, <1>3
    <3>. QED BY <1>1, <1>2, <2>2, <3>1 DEF ByteTypes
  <2>4. Len(bs'.data) <= bs'.size /\ bs'.at \in 0 .. Len(bs'.data) /\ (bs'.gone => bs'.foreign)
    BY <1>2, <1>4, <2>2
  <2>5. CASE odd
    BY <1>1, <2>3, <2>4, <2>5 DEF ByteIInv, RoundTrip
  <2>6. CASE ~odd
    <3>1. PICK ends : Aligned(ends)
      BY <1>1, <2>6 DEF ByteIInv
    <3>2. /\ ends[taken] = bs.at
          /\ Whole(item) /\ Lies(ends[taken], BytesOf(item))
          /\ ends[taken + 1] = ends[taken] + Len(BytesOf(item))
      <4>1. (taken + 1) - 1 = taken
        BY <1>2
      <4>. QED BY <1>3, <3>1, <4>1 DEF Aligned, item
    <3>3. a = Answer(Due(item), bs.at + Len(BytesOf(item)), "running")
      BY <1>4, <3>2 DEF ReadsBack, a
    <3>4. a.value = Due(item) /\ a.at = ends[taken + 1] /\ a.outcome = "running"
      BY <3>2, <3>3 DEF Answer
    <3>5. RoundTrip'
      <4>1. result'.got = Due(item) /\ result'.item = item
        BY <2>1, <3>4
      <4>2. result'.got = Due(result'.item)
        BY <4>1
      <4>3. outcome' = "running"
        BY <2>1, <3>4
      <4>. QED BY <4>2, <4>3 DEF RoundTrip
    <3>6. Aligned(ends)'
      <4>1. /\ ends \in [0 .. Len(items) -> Nat] /\ ends[0] = 0 /\ ends[Len(items)] = Len(bs.data)
            /\ \A i \in 1 .. Len(items) :
                 /\ Whole(items[i]) /\ Lies(ends[i - 1], BytesOf(items[i]))
                 /\ ends[i] = ends[i - 1] + Len(BytesOf(items[i]))
        BY <3>1 DEF Aligned
      <4>2. \A i \in 1 .. Len(items) : Lies(ends[i - 1], BytesOf(items[i]))'
        BY <1>1, <2>2, <4>1 DEF Lies
      <4>3. ends[taken'] = bs'.at
        BY <1>1, <2>2, <3>4
      <4>. QED BY <1>1, <2>2, <4>1, <4>2, <4>3 DEF Aligned
    <3>. QED BY <2>3, <2>4, <3>5, <3>6 DEF ByteIInv
  <2>. QED BY <2>5, <2>6
<1>. QED BY <1>5, <1>6

\* A call that leaves the bytes and the items, and the place to read from.
LEMMA LeftAlone ==
  ASSUME ByteIInv, bs' \in StreamType, bs'.data = bs.data, bs'.at = bs.at, bs'.size >= Len(bs.data),
         bs'.gone => bs'.foreign,
         items' = items, taken' = taken, result' = result, odd' = odd, calls' \in 0 .. MaxCalls,
         outcome = "running",
         outcome' \in {"aborted", "undefined"} => bs'.readOnly \/ bs'.foreign
  PROVE  ByteIInv'
<1>1. ByteTypes /\ Len(bs.data) <= bs.size /\ bs.at \in 0 .. Len(bs.data) /\ RoundTrip
  BY DEF ByteIInv
<1>2. ByteTypes'
  BY <1>1 DEF ByteTypes
<1>3. RoundTrip'
  <2>1. ~odd' => (result' # nil => result'.got = Due(result'.item))
    <3>1. ~odd => (result # nil => result.got = Due(result.item))
      BY <1>1 DEF RoundTrip
    <3>. QED BY <3>1
  <2>. QED BY <2>1 DEF RoundTrip
<1>4. Len(bs'.data) <= bs'.size /\ bs'.at \in 0 .. Len(bs'.data)
  BY <1>1 DEF StreamType
<1>5. ASSUME ~odd' PROVE \E ends : Aligned(ends)'
  <2>1. PICK ends : Aligned(ends)
    BY <1>5 DEF ByteIInv
  <2>. QED BY <2>1, Kept
<1>. QED BY <1>2, <1>3, <1>4, <1>5 DEF ByteIInv

LEMMA WriteReadOnlyStep == ASSUME ByteIInv, NEW kind, WriteReadOnly(kind) PROVE ByteIInv'
<1>1. /\ outcome = "running" /\ calls < MaxCalls /\ bs.readOnly
      /\ calls' = calls + 1 /\ bs' = bs /\ items' = items /\ taken' = taken /\ result' = result /\ odd' = odd
  BY DEF WriteReadOnly, Running
<1>2. bs \in StreamType /\ calls \in 0 .. MaxCalls /\ Len(bs.data) <= bs.size /\ bs.size \in Nat
      /\ (bs.gone => bs.foreign)
  BY DEF ByteIInv, ByteTypes, StreamType
<1>3. calls' \in 0 .. MaxCalls
  BY <1>1, <1>2, ByteStreamAssumption
<1>. QED BY <1>1, <1>2, <1>3, LeftAlone DEF StreamType

LEMMA ReceiveStep ==
  ASSUME ByteIInv, Receive \/ CollectString \/ \E readOnly \in BOOLEAN : SetReadOnly(readOnly)
  PROVE  ByteIInv'
<1>1. /\ bs \in StreamType /\ calls \in 0 .. MaxCalls /\ Len(bs.data) <= bs.size /\ bs.size \in Nat
      /\ Len(bs.data) \in Nat /\ (bs.gone => bs.foreign)
  BY DEF ByteIInv, ByteTypes, StreamType
<1>2. CASE Receive
  <2>1. /\ outcome = "running" /\ outcome' = outcome
        /\ bs' = [bs EXCEPT !.readOnly = TRUE, !.foreign = TRUE, !.size = Len(bs.data)]
        /\ calls' = calls /\ items' = items /\ taken' = taken /\ result' = result /\ odd' = odd
    BY <1>2 DEF Receive
  <2>2. bs' \in StreamType /\ bs'.data = bs.data /\ bs'.at = bs.at /\ bs'.size = Len(bs.data) /\ bs'.foreign
    BY <1>1, <2>1 DEF StreamType
  <2>. QED BY <1>1, <2>1, <2>2, LeftAlone
<1>3. ASSUME NEW readOnly \in BOOLEAN, SetReadOnly(readOnly) PROVE ByteIInv'
  <2>1. /\ outcome = "running" /\ outcome' = outcome /\ bs' = [bs EXCEPT !.readOnly = readOnly]
        /\ calls' = calls /\ items' = items /\ taken' = taken /\ result' = result /\ odd' = odd
    BY <1>3 DEF SetReadOnly
  <2>2. bs' \in StreamType /\ bs'.data = bs.data /\ bs'.at = bs.at /\ bs'.size = bs.size
        /\ bs'.foreign = bs.foreign /\ bs'.gone = bs.gone
    BY <1>1, <2>1 DEF StreamType
  <2>. QED BY <1>1, <2>1, <2>2, LeftAlone
<1>4. CASE CollectString
  <2>1. /\ outcome = "running" /\ outcome' = outcome /\ bs' = [bs EXCEPT !.gone = TRUE] /\ bs.foreign
        /\ calls' = calls /\ items' = items /\ taken' = taken /\ result' = result /\ odd' = odd
    BY <1>4 DEF CollectString
  <2>2. bs' \in StreamType /\ bs'.data = bs.data /\ bs'.at = bs.at /\ bs'.size = bs.size /\ bs'.foreign
    BY <1>1, <2>1 DEF StreamType
  <2>. QED BY <1>1, <2>1, <2>2, LeftAlone
<1>. QED BY <1>2, <1>3, <1>4

LEMMA WriteBoundToReadStep == ASSUME ByteIInv, NEW kind \in Arrays, WriteBoundToRead(kind) PROVE ByteIInv'
<1> DEFINE a == ReadArray(kind)
<1>1. /\ outcome = "running" /\ calls < MaxCalls /\ Takes(a)
      /\ odd' = TRUE /\ calls' = calls + 1 /\ items' = items /\ taken' = taken /\ result' = result
  BY DEF WriteBoundToRead, Running
<1>2. /\ bs \in StreamType /\ Len(bs.data) <= bs.size /\ bs.at \in 0 .. Len(bs.data)
      /\ Len(bs.data) \in Nat /\ calls \in 0 .. MaxCalls /\ ByteTypes
      /\ (bs.gone => bs.foreign) /\ taken \in 0 .. Len(items)
  BY DEF ByteIInv, ByteTypes, StreamType
<1>3. a.at \in 0 .. Len(bs.data)
  <2>1. kind \in Scalars
    BY DEF Arrays
  <2>. QED BY <1>2, <2>1, ReadersStay
<1>. HIDE DEF a
<1>0. CASE bs.gone
  <2>1. bs' = bs /\ outcome' = "undefined" /\ calls' \in 0 .. MaxCalls
    BY <1>0, <1>1, <1>2, ByteStreamAssumption DEF Takes
  <2>. QED BY <1>0, <1>1, <1>2, <2>1, GoneStep
<1>7. CASE ~bs.gone
  <2>1. bs' = [bs EXCEPT !.at = a.at]
    BY <1>1, <1>7 DEF Takes
  <2>2. /\ bs' \in StreamType /\ bs'.data = bs.data /\ bs'.size = bs.size /\ bs'.at = a.at
        /\ bs'.gone = bs.gone /\ bs'.foreign = bs.foreign
    BY <1>2, <1>3, <2>1 DEF StreamType
  <2>3. calls' \in 0 .. MaxCalls
    BY <1>1, <1>2, ByteStreamAssumption
  <2>4. ByteTypes'
    BY <1>1, <1>2, <2>2, <2>3 DEF ByteTypes
  <2>5. RoundTrip' /\ odd'
    BY <1>1 DEF RoundTrip
  <2>. QED BY <1>2, <1>3, <2>2, <2>4, <2>5 DEF ByteIInv
<1>. QED BY <1>0, <1>7

LEMMA ClearStep == ASSUME ByteIInv, Clear PROVE ByteIInv'
<1>1. /\ outcome = "running" /\ (outcome' = "running" \/ (outcome' = "undefined" /\ bs.foreign))
      /\ bs' = [bs EXCEPT !.data = << >>, !.at = 0, !.size = IF bs.size > MaxKept THEN 0 ELSE @]
      /\ items' = << >> /\ taken' = 0 /\ calls' = calls /\ result' = result /\ odd' = odd
  BY DEF Clear
<1>2. /\ bs \in StreamType /\ bs.size \in Nat /\ ByteTypes /\ RoundTrip
      /\ (bs.gone => bs.foreign)
  BY DEF ByteIInv, ByteTypes, StreamType
<1>3. /\ bs' \in StreamType /\ bs'.data = << >> /\ bs'.at = 0 /\ bs'.size \in Nat
      /\ bs'.gone = bs.gone /\ bs'.foreign = bs.foreign
  <2>1. << >> \in Seq(Byte)
    OBVIOUS
  <2>. QED BY <1>1, <1>2, <2>1 DEF StreamType
<1>4. ByteTypes'
  <2>1. << >> \in Seq(Item) /\ Len(<< >>) = 0
    OBVIOUS
  <2>2. items' \in Seq(Item) /\ taken' \in 0 .. Len(items')
    BY <1>1, <2>1
  <2>. QED BY <1>1, <1>2, <1>3, <2>2 DEF ByteTypes
<1>5. Aligned([i \in 0 .. 0 |-> 0])'
  BY <1>1, <1>3 DEF Aligned
<1>6. RoundTrip'
  <2>1. ~odd' => (result' # nil => result'.got = Due(result'.item))
    <3>1. ~odd => (result # nil => result.got = Due(result.item))
      BY <1>2 DEF RoundTrip
    <3>. QED BY <1>1, <3>1
  <2>. QED BY <1>1, <1>3, <2>1 DEF RoundTrip
<1>7. Len(bs'.data) <= bs'.size /\ bs'.at \in 0 .. Len(bs'.data) /\ (bs'.gone => bs'.foreign)
  BY <1>2, <1>3
<1>. QED BY <1>4, <1>5, <1>6, <1>7 DEF ByteIInv

LEMMA ResetStep == ASSUME ByteIInv, Reset PROVE ByteIInv'
<1>1. /\ outcome = "running" /\ outcome' = outcome /\ bs' = [bs EXCEPT !.at = 0]
      /\ items' = items /\ taken' = 0 /\ calls' = calls /\ result' = result /\ odd' = odd
  BY DEF Reset
<1>2. /\ bs \in StreamType /\ Len(bs.data) <= bs.size /\ Len(bs.data) \in Nat
      /\ items \in Seq(Item) /\ ByteTypes /\ RoundTrip /\ (bs.gone => bs.foreign)
  BY DEF ByteIInv, ByteTypes, StreamType
<1>3. /\ bs' \in StreamType /\ bs'.data = bs.data /\ bs'.at = 0 /\ bs'.size = bs.size
      /\ bs'.readOnly = bs.readOnly /\ bs'.foreign = bs.foreign /\ bs'.gone = bs.gone
  BY <1>1, <1>2 DEF StreamType
<1>4. ByteTypes'
  <2>1. taken' \in 0 .. Len(items')
    BY <1>1, <1>2
  <2>. QED BY <1>1, <1>2, <1>3, <2>1 DEF ByteTypes
<1>5. ASSUME ~odd' PROVE \E ends : Aligned(ends)'
  <2>1. PICK ends : Aligned(ends)
    BY <1>1, <1>5 DEF ByteIInv
  <2>2. Aligned(ends)'
    BY <1>1, <1>3, <2>1 DEF Aligned, Lies, Whole
  <2>. QED BY <2>2
<1>6. RoundTrip'
  <2>1. ~odd' => (result' # nil => result'.got = Due(result'.item))
    <3>1. ~odd => (result # nil => result.got = Due(result.item))
      BY <1>2 DEF RoundTrip
    <3>. QED BY <1>1, <3>1
  <2>. QED BY <1>1, <2>1 DEF RoundTrip
<1>7. Len(bs'.data) <= bs'.size /\ bs'.at \in 0 .. Len(bs'.data) /\ (bs'.gone => bs'.foreign)
  BY <1>2, <1>3
<1>. QED BY <1>4, <1>5, <1>6, <1>7 DEF ByteIInv

LEMMA NextByteIInv == ByteIInv /\ [ByteNext]_byteVars => ByteIInv'
<1> SUFFICES ASSUME ByteIInv, [ByteNext]_byteVars PROVE ByteIInv'
  OBVIOUS
<1>1. ASSUME NEW kind \in Scalars, NEW n \in Numbers, WriteScalar(kind, n) PROVE ByteIInv'
  BY <1>1, WriteScalarStep
<1>2. ASSUME NEW kind \in Writable, NEW values \in Rows(Numbers), WriteArray(kind, values) PROVE ByteIInv'
  BY <1>2, WriteArrayStep
<1>3. ASSUME NEW text \in Texts, WriteString(text) \/ WriteBytes(text) PROVE ByteIInv'
  BY <1>3, WriteTextStep
<1>4. ASSUME NEW texts \in Rows(Texts), NEW stringsOnly \in BOOLEAN, WriteStringArray(texts, stringsOnly)
      PROVE  ByteIInv'
  BY <1>4, WriteStringArrayStep
<1>5. ASSUME NEW kind \in Scalars \cup {"string"}, WriteReadOnly(kind) PROVE ByteIInv'
  BY <1>5, WriteReadOnlyStep
<1>6. ASSUME NEW kind \in Arrays, WriteBoundToRead(kind) PROVE ByteIInv'
  BY <1>6, WriteBoundToReadStep
<1>7. CASE ReadNext
  BY <1>7, ReadNextStep
<1>8. CASE Clear
  BY <1>8, ClearStep
<1>9. CASE Reset
  BY <1>9, ResetStep
<1>10. CASE Receive \/ CollectString \/ \E readOnly \in BOOLEAN : SetReadOnly(readOnly)
  BY <1>10, ReceiveStep
<1>11. CASE UNCHANGED byteVars
  <2>1. /\ bs' = bs /\ items' = items /\ taken' = taken /\ result' = result /\ outcome' = outcome
        /\ calls' = calls /\ odd' = odd
    BY <1>11 DEF byteVars
  <2>2. RoundTrip'
    <3>1. ~odd' => (result' # nil => result'.got = Due(result'.item))
      <4>1. ~odd => (result # nil => result.got = Due(result.item))
        BY DEF ByteIInv, RoundTrip
      <4>. QED BY <2>1, <4>1
    <3>. QED BY <2>1, <3>1 DEF ByteIInv, RoundTrip
  <2>3. ByteTypes' /\ Len(bs'.data) <= bs'.size /\ bs'.at \in 0 .. Len(bs'.data) /\ (bs'.gone => bs'.foreign)
    BY <2>1 DEF ByteIInv, ByteTypes
  <2>4. ASSUME outcome' = "running" /\ ~odd' PROVE \E ends : Aligned(ends)'
    <3>1. PICK ends : Aligned(ends)
      BY <2>1, <2>4 DEF ByteIInv
    <3>2. Aligned(ends)'
      BY <2>1, <3>1, Kept
    <3>. QED BY <3>2
  <2>. QED BY <2>2, <2>3, <2>4 DEF ByteIInv
<1>. QED BY <1>1, <1>2, <1>3, <1>4, <1>5, <1>6, <1>7, <1>8, <1>9, <1>10, <1>11 DEF ByteNext

THEOREM BytesInvariant == ByteSpec => []ByteIInv
<1>1. ByteInit => ByteIInv
  BY InitByteIInv
<1>2. ByteIInv /\ [ByteNext]_byteVars => ByteIInv'
  BY NextByteIInv
<1>. QED BY <1>1, <1>2, PTL DEF ByteSpec

\* What has been written fits the buffer, whatever its first size and however it has
\* grown, and a reader stays within it.
THEOREM BytesBufferHolds == ByteSpec => []BufferHolds
<1>1. ByteIInv => BufferHolds
  <2> SUFFICES ASSUME ByteIInv PROVE BufferHolds
    OBVIOUS
  <2>1. \A i \in DOMAIN bs.data : bs.data[i] \in 0 .. Radix - 1
    <3>1. bs.data \in Seq(Byte)
      BY DEF ByteIInv, ByteTypes, StreamType
    <3>2. \A i \in DOMAIN bs.data : bs.data[i] \in Byte
      BY <3>1
    <3>. QED BY <3>2 DEF Byte
  <2>. QED BY <2>1 DEF ByteIInv, ByteTypes, BufferHolds
<1>. QED BY <1>1, BytesInvariant, PTL

\* A script that reads in the order of the writes gets what is due for each of them:
\* nil for a string or an array of bytes in which there is nothing, a string up to
\* its first byte 0, and the numbers as near as the conversions come to them.
THEOREM BytesRoundTrip == ByteSpec => []RoundTrip
<1>1. ByteIInv => RoundTrip
  BY DEF ByteIInv
<1>. QED BY <1>1, BytesInvariant, PTL

-----------------------------------------------------------------------------
(* MysqlPool: what a connection and a slot are. *)

Handle == Conns \cup {None}
SlotType == [conn : Handle, in_use : BOOLEAN]

\* Who holds what.
Lent == [h \in Holders |-> Holding(h)]

Exclusive(H, open) ==
  \A h \in Holders : H[h] # None =>
    H[h] \in open /\ \A g \in Holders : g # h => H[g] # H[h]

Marked(H, slots) ==
  \A i \in DOMAIN slots :
    slots[i].in_use <=> slots[i].conn # None /\ \E h \in Holders : H[h] = slots[i].conn

Opened(slots, open) ==
  /\ open = {slots[i].conn : i \in DOMAIN slots} \ {None}
  /\ \A i, j \in DOMAIN slots : i # j /\ slots[i].conn = slots[j].conn => slots[i].conn = None

Good(H, slots, open) == Exclusive(H, open) /\ Marked(H, slots) /\ Opened(slots, open)

MysqlTypeOK ==
  /\ opened \in BOOLEAN
  /\ connections \in Seq(SlotType)
  /\ alive \in SUBSET Conns
  /\ mpc \in [Scripts -> {"idle", "asked", "took", "query", "report"}]
  /\ using \in [Scripts -> [slot : Nat, conn : Handle]]
  /\ res \in [Results -> Handle]
  /\ undone \in BOOLEAN

\* A thread that has a slot finds a connection there.
SlotsFound ==
  \A t \in Scripts :
    /\ mpc[t] = "took" => using[t].slot \in Slots /\ connections[using[t].slot].conn # None
    /\ mpc[t] = "query" => using[t].conn # None

\* A pool that is not there has nothing and lends nothing.
ClosedIsEmpty ==
  ~opened =>
    /\ connections = << >>
    /\ \A t \in Scripts : mpc[t] = "idle"
    /\ \A r \in Results : res[r] = None

MysqlIInv ==
  /\ MysqlTypeOK
  /\ ~undone => SlotsFound /\ ClosedIsEmpty /\ Good(Lent, connections, alive)

-----------------------------------------------------------------------------
(* The lendings *)

\* Lending the connection of a free slot.
LEMMA GoodTake ==
  ASSUME NEW H \in [Holders -> Handle], NEW slots \in Seq(SlotType), NEW open,
         Good(H, slots, open), NEW i \in DOMAIN slots, NEW t \in Holders,
         ~slots[i].in_use, slots[i].conn # None, H[t] = None
  PROVE  Good([H EXCEPT ![t] = slots[i].conn], [slots EXCEPT ![i].in_use = TRUE], open)
<1> DEFINE G == [H EXCEPT ![t] = slots[i].conn]
           S == [slots EXCEPT ![i].in_use = TRUE]
<1>1. /\ DOMAIN S = DOMAIN slots
      /\ \A j \in DOMAIN S : S[j].conn = slots[j].conn
      /\ \A j \in DOMAIN S : S[j].in_use = (j = i \/ slots[j].in_use)
  <2>1. \A j \in DOMAIN slots : slots[j] \in SlotType
    OBVIOUS
  <2>2. DOMAIN S = DOMAIN slots
    OBVIOUS
  <2>3. \A j \in DOMAIN slots : j # i => S[j] = slots[j]
    OBVIOUS
  <2>4. S[i] = [slots[i] EXCEPT !.in_use = TRUE]
    OBVIOUS
  <2>5. S[i].conn = slots[i].conn /\ S[i].in_use = TRUE
    BY <2>1, <2>4 DEF SlotType
  <2> HIDE DEF S
  <2> QED
    BY <2>1, <2>2, <2>3, <2>5 DEF SlotType
<1>2. \A h \in Holders : H[h] # slots[i].conn
  BY DEF Good, Marked
<1>3. slots[i].conn \in open
  BY DEF Good, Opened
<1>4. Exclusive(G, open)
  BY <1>2, <1>3 DEF Good, Exclusive
<1>5. Marked(G, S)
  <2> SUFFICES ASSUME NEW j \in DOMAIN S
               PROVE  S[j].in_use <=> S[j].conn # None /\ \E h \in Holders : G[h] = S[j].conn
    BY DEF Marked
  <2>1. CASE j = i
    BY <2>1, <1>1
  <2>2. CASE j # i
    <3>1. S[j].conn # None => S[j].conn # slots[i].conn
      BY <2>2, <1>1 DEF Good, Opened
    <3>2. S[j].in_use <=> slots[j].conn # None /\ \E h \in Holders : H[h] = slots[j].conn
      BY <2>2, <1>1 DEF Good, Marked
    <3>3. ASSUME slots[j].conn # None
          PROVE  (\E h \in Holders : G[h] = slots[j].conn) <=> \E h \in Holders : H[h] = slots[j].conn
      BY <3>1, <3>3, <1>1
    <3> QED
      BY <3>2, <3>3, <1>1
  <2> QED
    BY <2>1, <2>2
<1>6. Opened(S, open)
  BY <1>1 DEF Good, Opened
<1> QED
  BY <1>4, <1>5, <1>6 DEF Good

\* Passing a connection on.
LEMMA GoodMove ==
  ASSUME NEW H \in [Holders -> Handle], NEW slots \in Seq(SlotType), NEW open,
         Good(H, slots, open), NEW t \in Holders, NEW r \in Holders, t # r, H[r] = None
  PROVE  Good([H EXCEPT ![r] = H[t], ![t] = None], slots, open)
<1> DEFINE G == [H EXCEPT ![r] = H[t], ![t] = None]
<1>1. G[r] = H[t] /\ G[t] = None /\ \A h \in Holders \ {r, t} : G[h] = H[h]
  OBVIOUS
<1>2. Exclusive(G, open)
  BY <1>1 DEF Good, Exclusive
<1>3. \A c : c # None => ((\E h \in Holders : G[h] = c) <=> \E h \in Holders : H[h] = c)
  BY <1>1
<1>4. Marked(G, slots)
  BY <1>3 DEF Good, Marked
<1> QED
  BY <1>2, <1>4 DEF Good

\* Giving a connection back.
LEMMA GoodRelease ==
  ASSUME NEW H \in [Holders -> Handle], NEW slots \in Seq(SlotType), NEW open,
         Good(H, slots, open), NEW t \in Holders, H[t] # None
  PROVE  Good([H EXCEPT ![t] = None],
              [i \in DOMAIN slots |-> IF slots[i].conn = H[t] THEN Slot(H[t], FALSE) ELSE slots[i]],
              open)
<1> DEFINE G == [H EXCEPT ![t] = None]
           S == [i \in DOMAIN slots |-> IF slots[i].conn = H[t] THEN Slot(H[t], FALSE) ELSE slots[i]]
<1>1. /\ DOMAIN S = DOMAIN slots
      /\ \A j \in DOMAIN S : S[j].conn = slots[j].conn
      /\ \A j \in DOMAIN S : S[j].in_use = (slots[j].conn # H[t] /\ slots[j].in_use)
  <2>1. \A j \in DOMAIN slots : slots[j] \in SlotType
    OBVIOUS
  <2> QED
    BY <2>1 DEF Slot, SlotType
<1>2. Exclusive(G, open)
  BY DEF Good, Exclusive
<1>3. Marked(G, S)
  <2> SUFFICES ASSUME NEW j \in DOMAIN S
               PROVE  S[j].in_use <=> S[j].conn # None /\ \E h \in Holders : G[h] = S[j].conn
    BY DEF Marked
  <2>1. CASE slots[j].conn = H[t]
    <3>1. \A h \in Holders : G[h] # H[t]
      BY DEF Good, Exclusive
    <3> QED
      BY <2>1, <3>1, <1>1
  <2>2. CASE slots[j].conn # H[t]
    <3>1. S[j].in_use <=> slots[j].conn # None /\ \E h \in Holders : H[h] = slots[j].conn
      BY <2>2, <1>1 DEF Good, Marked
    <3>2. slots[j].conn # None =>
            ((\E h \in Holders : G[h] = slots[j].conn) <=> \E h \in Holders : H[h] = slots[j].conn)
      BY <2>2
    <3> QED
      BY <3>1, <3>2, <1>1
  <2> QED
    BY <2>1, <2>2
<1>4. Opened(S, open)
  <2> HIDE DEF S
  <2>1. {S[j].conn : j \in DOMAIN S} = {slots[j].conn : j \in DOMAIN slots}
    BY <1>1
  <2> QED
    BY <2>1, <1>1 DEF Good, Opened
<1> QED
  BY <1>2, <1>3, <1>4 DEF Good

\* Lending a new connection in a slot of its own.
LEMMA GoodGrow ==
  ASSUME NEW H \in [Holders -> Handle], NEW slots \in Seq(SlotType), NEW open,
         Good(H, slots, open), NEW t \in Holders, H[t] = None,
         NEW c \in Conns, c \notin open
  PROVE  Good([H EXCEPT ![t] = c], Append(slots, Slot(c, TRUE)), open \cup {c})
<1> DEFINE G == [H EXCEPT ![t] = c]
           n == Len(slots)
           S == Append(slots, Slot(c, TRUE))
<1>1. /\ DOMAIN slots = 1 .. n /\ DOMAIN S = 1 .. n + 1 /\ n \in Nat
      /\ \A j \in 1 .. n : S[j] = slots[j]
      /\ S[n + 1].conn = c /\ S[n + 1].in_use = TRUE
  BY DEF Slot
<1>2. c # None
  BY MysqlAssumption
<1>3. \A h \in Holders : H[h] # c
  BY <1>2 DEF Good, Exclusive
<1>4. \A j \in 1 .. n : slots[j].conn # c
  BY <1>1, <1>2 DEF Good, Opened
<1>5. Exclusive(G, open \cup {c})
  BY <1>3 DEF Good, Exclusive
<1>6. Marked(G, S)
  <2> SUFFICES ASSUME NEW j \in 1 .. n + 1
               PROVE  S[j].in_use <=> S[j].conn # None /\ \E h \in Holders : G[h] = S[j].conn
    BY <1>1 DEF Marked
  <2>1. CASE j = n + 1
    BY <2>1, <1>1, <1>2
  <2>2. CASE j \in 1 .. n
    <3>1. slots[j].in_use <=> slots[j].conn # None /\ \E h \in Holders : H[h] = slots[j].conn
      BY <2>2, <1>1 DEF Good, Marked
    <3>2. slots[j].conn # None =>
            ((\E h \in Holders : G[h] = slots[j].conn) <=> \E h \in Holders : H[h] = slots[j].conn)
      BY <2>2, <1>4
    <3> QED
      BY <2>2, <3>1, <3>2, <1>1
  <2>3. j = n + 1 \/ j \in 1 .. n
    BY <1>1
  <2> HIDE DEF n
  <2> QED
    BY <2>1, <2>2, <2>3
<1>7. Opened(S, open \cup {c})
  <2> HIDE DEF S
  <2>1. {S[j].conn : j \in DOMAIN S} = {slots[j].conn : j \in DOMAIN slots} \cup {c}
    <3>1. ASSUME NEW j \in 1 .. n + 1
          PROVE  S[j].conn \in {slots[k].conn : k \in 1 .. n} \cup {c}
      <4>1. CASE j = n + 1
        BY <4>1, <1>1
      <4>2. CASE j \in 1 .. n
        BY <4>2, <1>1
      <4> QED
        BY <4>1, <4>2, <1>1
    <3>2. \A j \in DOMAIN slots : j \in DOMAIN S /\ S[j].conn = slots[j].conn
      BY <1>1
    <3>3. n + 1 \in DOMAIN S
      BY <1>1
    <3> QED
      BY <3>1, <3>2, <3>3, <1>1
  <2>2. \A i, j \in DOMAIN S : i # j /\ S[i].conn = S[j].conn => S[i].conn = None
    BY <1>1, <1>4 DEF Good, Opened
  <2> QED
    BY <2>1, <2>2, <1>2 DEF Good, Opened
<1> QED
  BY <1>5, <1>6, <1>7 DEF Good

-----------------------------------------------------------------------------
(* The steps *)

\* What each script and each result holds, case by case.
LentFacts ==
  /\ Lent = [h \in Holders |-> Lent[h]]
  /\ \A r \in Results : Lent[r] = res[r]
  /\ \A t \in Scripts :
       /\ mpc[t] = "took" => Lent[t] = connections[using[t].slot].conn
       /\ mpc[t] = "query" => Lent[t] = using[t].conn
       /\ mpc[t] \notin {"took", "query"} => Lent[t] = None

LEMMA LentIs == LentFacts
BY MysqlAssumption DEF LentFacts, Lent, Holding, Holders

LEMMA LentIsNext == LentFacts'
BY LentIs, PTL

LEMMA LentType ==
  ASSUME MysqlIInv, ~undone
  PROVE  Lent \in [Holders -> Handle]
<1> SUFFICES ASSUME NEW h \in Holders PROVE Lent[h] \in Handle
  BY LentIs DEF LentFacts
<1>1. CASE h \in Results
  BY <1>1, LentIs DEF LentFacts, MysqlIInv, MysqlTypeOK
<1>2. CASE h \in Scripts /\ mpc[h] = "took"
  <2>1. using[h].slot \in DOMAIN connections
    BY <1>2 DEF MysqlIInv, SlotsFound, Slots
  <2>2. connections[using[h].slot] \in SlotType
    BY <2>1 DEF MysqlIInv, MysqlTypeOK
  <2> QED
    BY <1>2, <2>2, LentIs DEF LentFacts, SlotType
<1>3. CASE h \in Scripts /\ mpc[h] # "took"
  BY <1>3, LentIs DEF LentFacts, MysqlIInv, MysqlTypeOK, Handle
<1> QED
  BY <1>1, <1>2, <1>3 DEF Holders

LEMMA InitMysqlIInv == MysqlInit => MysqlIInv
<1> SUFFICES ASSUME MysqlInit PROVE MysqlIInv
  OBVIOUS
<1>1. MysqlTypeOK
  <2>1. << >> \in Seq(SlotType) /\ Nothing \in [slot : Nat, conn : Handle]
    BY DEF Nothing, Handle
  <2> QED
    BY <2>1 DEF MysqlInit, MysqlTypeOK, Handle
<1>2. SlotsFound /\ ClosedIsEmpty
  BY DEF MysqlInit, SlotsFound, ClosedIsEmpty
<1>3. \A h \in Holders : Lent[h] = None
  BY LentIs DEF LentFacts, MysqlInit, Holders
<1>4. Good(Lent, connections, alive)
  BY <1>3 DEF MysqlInit, Good, Exclusive, Marked, Opened
<1> QED
  BY <1>1, <1>2, <1>4 DEF MysqlIInv

\* Ask, ReadSlot, Refused and Report leave everybody what he has.
LEMMA SameLent ==
  ASSUME MysqlIInv, ~undone, UNCHANGED <<opened, connections, alive, res>>,
         NEW t \in Scripts,
         \A u \in Scripts \ {t} : mpc'[u] = mpc[u] /\ using'[u] = using[u],
         Lent'[t] = Lent[t]
  PROVE  Good(Lent, connections, alive)'
<1>1. \A h \in Holders : Lent'[h] = Lent[h]
  <2> SUFFICES ASSUME NEW h \in Holders, h # t PROVE Lent'[h] = Lent[h]
    OBVIOUS
  <2>1. CASE h \in Results
    BY <2>1, LentIs, LentIsNext DEF LentFacts
  <2>2. CASE h \in Scripts
    <3>1. mpc'[h] = mpc[h] /\ using'[h] = using[h] /\ connections' = connections
      BY <2>2
    <3>2. CASE mpc[h] = "took"
      BY <2>2, <3>1, <3>2, LentIs, LentIsNext DEF LentFacts
    <3>3. CASE mpc[h] = "query"
      BY <2>2, <3>1, <3>3, LentIs, LentIsNext DEF LentFacts
    <3>4. CASE mpc[h] \notin {"took", "query"}
      BY <2>2, <3>1, <3>4, LentIs, LentIsNext DEF LentFacts
    <3> QED
      BY <3>2, <3>3, <3>4
  <2> QED
    BY <2>1, <2>2 DEF Holders
<1> QED
  BY <1>1 DEF MysqlIInv, Good, Exclusive, Marked, Opened

LEMMA AskStep ==
  ASSUME MysqlIInv, NEW t \in Scripts, Ask(t)
  PROVE  MysqlIInv'
<1>1. MysqlTypeOK'
  BY DEF Ask, MysqlIInv, MysqlTypeOK
<1>2. SlotsFound'
  BY DEF Ask, MysqlIInv, MysqlTypeOK, SlotsFound, Slots
<1>3. ClosedIsEmpty'
  BY DEF Ask, ClosedIsEmpty
<1>4. Good(Lent, connections, alive)'
  <2>1. Lent'[t] = Lent[t]
    BY LentIs, LentIsNext DEF LentFacts, Ask, MysqlIInv, MysqlTypeOK
  <2> QED
    BY <2>1, SameLent DEF Ask, MysqlIInv, MysqlTypeOK
<1> QED
  BY <1>1, <1>2, <1>3, <1>4 DEF MysqlIInv

LEMMA ReadSlotStep ==
  ASSUME MysqlIInv, NEW t \in Scripts, ReadSlot(t)
  PROVE  MysqlIInv'
<1>1. connections[using[t].slot] \in SlotType /\ connections[using[t].slot].conn # None
  BY DEF ReadSlot, MysqlIInv, MysqlTypeOK, SlotsFound, Slots
<1>2. MysqlTypeOK'
  BY <1>1 DEF ReadSlot, MysqlIInv, MysqlTypeOK, SlotType
<1>3. using'[t].conn = connections[using[t].slot].conn
  BY DEF ReadSlot, MysqlIInv, MysqlTypeOK
<1>4. SlotsFound'
  BY <1>1, <1>3 DEF ReadSlot, MysqlIInv, MysqlTypeOK, SlotsFound, Slots
<1>5. ClosedIsEmpty'
  BY DEF ReadSlot, MysqlIInv, ClosedIsEmpty
<1>6. Good(Lent, connections, alive)'
  <2>1. Lent'[t] = Lent[t]
    BY <1>3, LentIs, LentIsNext DEF LentFacts, ReadSlot, MysqlIInv, MysqlTypeOK
  <2> QED
    BY <2>1, SameLent DEF ReadSlot, MysqlIInv, MysqlTypeOK
<1> QED
  BY <1>2, <1>4, <1>5, <1>6 DEF MysqlIInv

LEMMA RefusedStep ==
  ASSUME MysqlIInv, NEW t \in Scripts, Refused(t)
  PROVE  MysqlIInv'
<1>1. MysqlTypeOK'
  BY DEF Refused, MysqlIInv, MysqlTypeOK
<1>2. SlotsFound'
  BY DEF Refused, MysqlIInv, MysqlTypeOK, SlotsFound, Slots
<1>3. ClosedIsEmpty'
  BY DEF Refused, MysqlIInv, MysqlTypeOK, ClosedIsEmpty
<1>4. Good(Lent, connections, alive)'
  <2>1. Lent'[t] = Lent[t]
    BY LentIs, LentIsNext DEF LentFacts, Refused, MysqlIInv, MysqlTypeOK
  <2> QED
    BY <2>1, SameLent DEF Refused, MysqlIInv, MysqlTypeOK
<1> QED
  BY <1>1, <1>2, <1>3, <1>4 DEF MysqlIInv

LEMMA ReportStep ==
  ASSUME MysqlIInv, NEW t \in Scripts, Report(t)
  PROVE  MysqlIInv'
<1>1. MysqlTypeOK'
  BY DEF Report, MysqlIInv, MysqlTypeOK, Nothing, Handle
<1>2. SlotsFound'
  BY DEF Report, MysqlIInv, MysqlTypeOK, SlotsFound, Slots
<1>3. ClosedIsEmpty'
  BY DEF Report, MysqlIInv, MysqlTypeOK, ClosedIsEmpty
<1>4. Good(Lent, connections, alive)'
  <2>1. Lent'[t] = Lent[t]
    BY LentIs, LentIsNext DEF LentFacts, Report, MysqlIInv, MysqlTypeOK
  <2> QED
    BY <2>1, SameLent DEF Report, MysqlIInv, MysqlTypeOK
<1> QED
  BY <1>1, <1>2, <1>3, <1>4 DEF MysqlIInv

\* A thread that does not move keeps what it has, if its slot does.
LEMMA OthersKeep ==
  ASSUME NEW u \in Scripts, mpc'[u] = mpc[u], using'[u] = using[u],
         mpc[u] = "took" => connections'[using[u].slot].conn = connections[using[u].slot].conn
  PROVE  Lent'[u] = Lent[u]
<1>1. CASE mpc[u] = "took"
  BY <1>1, LentIs, LentIsNext DEF LentFacts
<1>2. CASE mpc[u] = "query"
  BY <1>2, LentIs, LentIsNext DEF LentFacts
<1>3. CASE mpc[u] \notin {"took", "query"}
  BY <1>3, LentIs, LentIsNext DEF LentFacts
<1> QED
  BY <1>1, <1>2, <1>3

LEMMA LentBecomes ==
  ASSUME NEW t \in Holders, NEW c, Lent'[t] = c,
         \A h \in Holders : h # t => Lent'[h] = Lent[h]
  PROVE  Lent' = [Lent EXCEPT ![t] = c]
<1>1. Lent = [h \in Holders |-> Lent[h]] /\ Lent' = [h \in Holders |-> Lent'[h]]
  BY LentIs, LentIsNext DEF LentFacts
<1> QED
  BY <1>1

LEMMA TakeSlotStep ==
  ASSUME MysqlIInv, NEW t \in Scripts, NEW i \in Slots, TakeSlot(t, i)
  PROVE  MysqlIInv'
<1> DEFINE c == connections[i].conn
<1>1. /\ \A j \in Slots : connections[j] \in SlotType
      /\ Slots = 1 .. Len(connections) /\ Len(connections) \in Nat
  BY DEF Slots, MysqlIInv, MysqlTypeOK
<1>2. /\ Slots' = Slots
      /\ \A j \in Slots : connections'[j].conn = connections[j].conn
      /\ connections' \in Seq(SlotType)
  <2>1. [connections[i] EXCEPT !.in_use = TRUE] \in SlotType
    BY <1>1 DEF SlotType
  <2>2. connections' = [connections EXCEPT ![i] = [connections[i] EXCEPT !.in_use = TRUE]]
    BY DEF TakeSlot
  <2>3. [connections[i] EXCEPT !.in_use = TRUE].conn = connections[i].conn
    BY <1>1 DEF SlotType
  <2> QED
    BY <1>1, <2>1, <2>2, <2>3 DEF Slots, MysqlIInv, MysqlTypeOK
<1>3. MysqlTypeOK'
  <2>1. i \in Nat
    BY <1>1
  <2>2. using' \in [Scripts -> [slot : Nat, conn : Handle]]
    BY <2>1 DEF TakeSlot, MysqlIInv, MysqlTypeOK
  <2> QED
    BY <1>2, <2>2 DEF TakeSlot, MysqlIInv, MysqlTypeOK
<1>4. using'[t].slot = i /\ mpc'[t] = "took"
  BY DEF TakeSlot, MysqlIInv, MysqlTypeOK
<1>5. ASSUME ~undone'
      PROVE  SlotsFound' /\ ClosedIsEmpty' /\ Good(Lent, connections, alive)'
  <2>1. c # None /\ ~undone /\ mpc[t] = "asked" /\ ~connections[i].in_use
    BY <1>5 DEF TakeSlot, FirstIdle, Idle
  <2>2. \A u \in Scripts \ {t} : mpc'[u] = mpc[u] /\ using'[u] = using[u]
    BY DEF TakeSlot, MysqlIInv, MysqlTypeOK
  <2>3. SlotsFound'
    BY <2>1, <2>2, <1>2, <1>4 DEF MysqlIInv, SlotsFound
  <2>4. ClosedIsEmpty'
    <3>1. opened
      BY <2>1 DEF MysqlIInv, ClosedIsEmpty
    <3> QED
      BY <3>1 DEF TakeSlot, ClosedIsEmpty
  <2>5. Lent[t] = None
    BY <2>1, LentIs DEF LentFacts
  <2>6. Lent' = [Lent EXCEPT ![t] = c]
    <3>1. Lent'[t] = c
      BY <1>2, <1>4, LentIsNext DEF LentFacts
    <3>2. \A r \in Results : Lent'[r] = Lent[r] /\ r # t
      BY LentIs, LentIsNext, MysqlAssumption DEF LentFacts, TakeSlot
    <3>3. \A u \in Scripts \ {t} : Lent'[u] = Lent[u]
      BY <2>1, <2>2, <1>2, OthersKeep DEF MysqlIInv, SlotsFound
    <3> QED
      BY <3>1, <3>2, <3>3, LentBecomes DEF Holders
  <2>7. Good([Lent EXCEPT ![t] = c], [connections EXCEPT ![i].in_use = TRUE], alive)
    <3>1. Lent \in [Holders -> Handle] /\ connections \in Seq(SlotType)
      BY <2>1, LentType DEF MysqlIInv, MysqlTypeOK
    <3>2. Good(Lent, connections, alive)
      BY <2>1 DEF MysqlIInv
    <3> QED
      BY <3>1, <3>2, <2>1, <2>5, GoodTake DEF Holders, Slots
  <2>8. alive' = alive /\ connections' = [connections EXCEPT ![i].in_use = TRUE]
    BY DEF TakeSlot
  <2> QED
    BY <2>3, <2>4, <2>6, <2>7, <2>8
<1> QED
  BY <1>3, <1>5 DEF MysqlIInv

LEMMA GrowStep ==
  ASSUME MysqlIInv, NEW t \in Scripts, NEW c \in Conns, Grow(t, c)
  PROVE  MysqlIInv'
<1>1. Slot(c, TRUE) \in SlotType
  BY DEF Slot, SlotType, Handle
<1>2. MysqlTypeOK'
  <2>1. using' \in [Scripts -> [slot : Nat, conn : Handle]]
    BY DEF Grow, MysqlIInv, MysqlTypeOK, Handle
  <2>2. connections' \in Seq(SlotType)
    <3>1. connections \in Seq(SlotType) /\ connections' = Append(connections, Slot(c, TRUE))
      BY DEF Grow, MysqlIInv, MysqlTypeOK
    <3> QED
      BY <1>1, <3>1, AppendProperties
  <2> QED
    BY <2>1, <2>2 DEF Grow, MysqlIInv, MysqlTypeOK
<1>3. using'[t].conn = c /\ mpc'[t] = "query" /\ c # None
  BY MysqlAssumption DEF Grow, MysqlIInv, MysqlTypeOK
<1>4. ASSUME ~undone'
      PROVE  SlotsFound' /\ ClosedIsEmpty' /\ Good(Lent, connections, alive)'
  <2>1. ~undone /\ mpc[t] = "asked" /\ \A u \in Scripts : mpc[u] # "took"
    BY <1>4 DEF Grow
  <2>2. \A u \in Scripts \ {t} : mpc'[u] = mpc[u] /\ using'[u] = using[u]
    BY DEF Grow, MysqlIInv, MysqlTypeOK
  <2>3. SlotsFound'
    BY <2>1, <2>2, <1>3 DEF MysqlIInv, SlotsFound
  <2>4. ClosedIsEmpty'
    <3>1. opened
      BY <2>1 DEF MysqlIInv, ClosedIsEmpty
    <3> QED
      BY <3>1 DEF Grow, ClosedIsEmpty
  <2>5. Lent[t] = None
    BY <2>1, LentIs DEF LentFacts
  <2>6. Lent' = [Lent EXCEPT ![t] = c]
    <3>1. Lent'[t] = c
      BY <1>3, LentIsNext DEF LentFacts
    <3>2. \A r \in Results : Lent'[r] = Lent[r] /\ r # t
      BY LentIs, LentIsNext, MysqlAssumption DEF LentFacts, Grow
    <3>3. \A u \in Scripts \ {t} : Lent'[u] = Lent[u]
      BY <2>1, <2>2, OthersKeep
    <3> QED
      BY <3>1, <3>2, <3>3, LentBecomes DEF Holders
  <2>7. Good([Lent EXCEPT ![t] = c], Append(connections, Slot(c, TRUE)), alive \cup {c})
    <3>1. Lent \in [Holders -> Handle] /\ connections \in Seq(SlotType)
      BY <2>1, LentType DEF MysqlIInv, MysqlTypeOK
    <3>2. Good(Lent, connections, alive) /\ c \notin alive
      BY <2>1 DEF MysqlIInv, Grow
    <3> QED
      BY <3>1, <3>2, <2>5, GoodGrow DEF Holders
  <2>8. alive' = alive \cup {c} /\ connections' = Append(connections, Slot(c, TRUE))
    BY DEF Grow
  <2> QED
    BY <2>3, <2>4, <2>6, <2>7, <2>8
<1> QED
  BY <1>2, <1>4 DEF MysqlIInv

LEMMA ReleasedKeeps ==
  ASSUME MysqlIInv, NEW c \in Handle
  PROVE  /\ Released(c) \in Seq(SlotType)
         /\ DOMAIN Released(c) = Slots
         /\ \A i \in Slots : Released(c)[i].conn = connections[i].conn
<1>1. \A i \in Slots : connections[i] \in SlotType
  BY DEF Slots, MysqlIInv, MysqlTypeOK
<1>2. Slot(c, FALSE) \in SlotType /\ Slot(c, FALSE).conn = c
  BY DEF Slot, SlotType
<1>3. Slots = 1 .. Len(connections) /\ Len(connections) \in Nat
  BY DEF Slots, MysqlIInv, MysqlTypeOK
<1>4. Released(c) \in [1 .. Len(connections) -> SlotType]
  BY <1>1, <1>2, <1>3 DEF Released
<1>5. Released(c) \in Seq(SlotType)
  BY <1>3, <1>4
<1>6. DOMAIN Released(c) = Slots /\ \A i \in Slots : Released(c)[i].conn = connections[i].conn
  BY <1>2 DEF Released
<1> QED
  BY <1>5, <1>6

\* A connection that is given back by whoever holds it.
LEMMA GivenBack ==
  ASSUME MysqlIInv, ~undone, NEW h \in Holders, Lent[h] # None,
         connections' = Released(Lent[h]), alive' = alive, Lent' = [Lent EXCEPT ![h] = None]
  PROVE  Good(Lent, connections, alive)'
<1>1. Lent \in [Holders -> Handle] /\ connections \in Seq(SlotType)
  BY LentType DEF MysqlIInv, MysqlTypeOK
<1>2. Good(Lent, connections, alive)
  BY DEF MysqlIInv
<1>3. Good([Lent EXCEPT ![h] = None], Released(Lent[h]), alive)
  BY <1>1, <1>2, GoodRelease DEF Released, Slots
<1> QED
  BY <1>3

LEMMA QueryDoneStep ==
  ASSUME MysqlIInv, NEW t \in Scripts, QueryDone(t)
  PROVE  MysqlIInv'
<1>1. /\ ~undone /\ mpc[t] = "query" /\ mpc'[t] = "report" /\ using' = using
      /\ using[t].conn \in Handle /\ using[t].conn # None
  BY DEF QueryDone, MysqlIInv, MysqlTypeOK, SlotsFound
<1>2. /\ Slots' = Slots /\ connections' \in Seq(SlotType)
      /\ \A i \in Slots : connections'[i].conn = connections[i].conn
  BY <1>1, ReleasedKeeps DEF QueryDone, Slots
<1>3. \A u \in Scripts \ {t} : mpc'[u] = mpc[u]
  BY DEF QueryDone, MysqlIInv, MysqlTypeOK
<1>4. MysqlTypeOK'
  BY <1>2 DEF QueryDone, MysqlIInv, MysqlTypeOK
<1>5. SlotsFound'
  BY <1>1, <1>2, <1>3 DEF MysqlIInv, SlotsFound
<1>6. ClosedIsEmpty'
  BY <1>1 DEF QueryDone, MysqlIInv, ClosedIsEmpty
<1>7. Good(Lent, connections, alive)'
  <2>1. Lent[t] = using[t].conn
    BY <1>1, LentIs DEF LentFacts
  <2>2. Lent'[t] = None
    BY <1>1, LentIsNext DEF LentFacts
  <2>3. \A r \in Results : Lent'[r] = Lent[r]
    BY LentIs, LentIsNext DEF LentFacts, QueryDone
  <2>4. \A u \in Scripts \ {t} : Lent'[u] = Lent[u]
    BY <1>1, <1>2, <1>3, OthersKeep DEF MysqlIInv, SlotsFound
  <2>5. Lent' = [Lent EXCEPT ![t] = None]
    BY <2>2, <2>3, <2>4, LentBecomes DEF Holders
  <2> QED
    BY <1>1, <2>1, <2>5, GivenBack DEF QueryDone, Holders
<1> QED
  BY <1>4, <1>5, <1>6, <1>7 DEF MysqlIInv

LEMMA EndResultStep ==
  ASSUME MysqlIInv, NEW r \in Results, EndResult(r)
  PROVE  MysqlIInv'
<1>1. ~undone /\ res[r] \in Handle /\ res[r] # None /\ res'[r] = None /\ mpc' = mpc /\ using' = using
  BY DEF EndResult, MysqlIInv, MysqlTypeOK
<1>2. /\ Slots' = Slots /\ connections' \in Seq(SlotType)
      /\ \A i \in Slots : connections'[i].conn = connections[i].conn
  BY <1>1, ReleasedKeeps DEF EndResult, Slots
<1>3. MysqlTypeOK'
  BY <1>2 DEF EndResult, MysqlIInv, MysqlTypeOK, Handle
<1>4. SlotsFound'
  BY <1>1, <1>2 DEF MysqlIInv, SlotsFound
<1>5. ClosedIsEmpty'
  BY <1>1 DEF EndResult, MysqlIInv, ClosedIsEmpty
<1>6. Good(Lent, connections, alive)'
  <2>1. Lent[r] = res[r] /\ Lent'[r] = None
    BY <1>1, LentIs, LentIsNext DEF LentFacts
  <2>2. \A q \in Results \ {r} : Lent'[q] = Lent[q]
    BY LentIs, LentIsNext DEF LentFacts, EndResult, MysqlIInv, MysqlTypeOK
  <2>3. \A u \in Scripts : Lent'[u] = Lent[u]
    BY <1>1, <1>2, OthersKeep DEF MysqlIInv, SlotsFound
  <2>4. Lent' = [Lent EXCEPT ![r] = None]
    BY <2>1, <2>2, <2>3, LentBecomes DEF Holders
  <2> QED
    BY <1>1, <2>1, <2>4, GivenBack DEF EndResult, Holders
<1> QED
  BY <1>3, <1>4, <1>5, <1>6 DEF MysqlIInv

LEMMA QueryRowsStep ==
  ASSUME MysqlIInv, NEW t \in Scripts, NEW r \in Results, QueryRows(t, r)
  PROVE  MysqlIInv'
<1>1. /\ ~undone /\ mpc[t] = "query" /\ mpc'[t] = "idle" /\ res[r] = None
      /\ res'[r] = using[t].conn /\ using[t].conn \in Handle
  BY DEF QueryRows, MysqlIInv, MysqlTypeOK
<1>2. \A u \in Scripts \ {t} : mpc'[u] = mpc[u] /\ using'[u] = using[u]
  BY DEF QueryRows, MysqlIInv, MysqlTypeOK
<1>3. MysqlTypeOK'
  <2>1. Nothing \in [slot : Nat, conn : Handle]
    BY DEF Nothing, Handle
  <2> QED
    BY <1>1, <2>1 DEF QueryRows, MysqlIInv, MysqlTypeOK
<1>4. SlotsFound'
  BY <1>1, <1>2 DEF QueryRows, MysqlIInv, SlotsFound, Slots
<1>5. ClosedIsEmpty'
  <2>1. opened
    BY <1>1 DEF MysqlIInv, ClosedIsEmpty
  <2> QED
    BY <2>1 DEF QueryRows, ClosedIsEmpty
<1>6. Good(Lent, connections, alive)'
  <2>1. Lent[t] = using[t].conn /\ Lent[r] = None /\ Lent'[t] = None /\ Lent'[r] = Lent[t] /\ t # r
    BY <1>1, LentIs, LentIsNext, MysqlAssumption DEF LentFacts
  <2>2. \A q \in Results \ {r} : Lent'[q] = Lent[q]
    BY LentIs, LentIsNext DEF LentFacts, QueryRows, MysqlIInv, MysqlTypeOK
  <2>3. \A u \in Scripts \ {t} : Lent'[u] = Lent[u]
    BY <1>2, OthersKeep DEF QueryRows
  <2>4. Lent' = [Lent EXCEPT ![r] = Lent[t], ![t] = None]
    <3>1. Lent = [h \in Holders |-> Lent[h]] /\ Lent' = [h \in Holders |-> Lent'[h]]
      BY LentIs, LentIsNext DEF LentFacts
    <3> QED
      BY <3>1, <2>1, <2>2, <2>3 DEF Holders
  <2>5. Lent \in [Holders -> Handle] /\ connections \in Seq(SlotType)
    BY <1>1, LentType DEF MysqlIInv, MysqlTypeOK
  <2>6. Good([Lent EXCEPT ![r] = Lent[t], ![t] = None], connections, alive)
    BY <1>1, <2>1, <2>5, GoodMove DEF MysqlIInv, Holders
  <2> QED
    BY <2>4, <2>6 DEF QueryRows
<1> QED
  BY <1>3, <1>4, <1>5, <1>6 DEF MysqlIInv

LEMMA InitPoolStep ==
  ASSUME MysqlIInv, InitPool
  PROVE  MysqlIInv'
<1>1. /\ ~undone /\ alive = {} /\ \A t \in Scripts : mpc[t] = "idle"
      /\ \A r \in Results : res[r] = None
  BY DEF InitPool, MysqlIInv, ClosedIsEmpty, Good, Opened
<1>2. PICK c \in [1 .. PoolSize -> (Conns \ alive) \cup {None}] :
        /\ \A i, j \in 1 .. PoolSize : i # j /\ c[i] # None => c[i] # c[j]
        /\ connections' = [i \in 1 .. PoolSize |-> Slot(c[i], FALSE)]
        /\ alive' = alive \cup {c[i] : i \in {j \in 1 .. PoolSize : c[j] # None}}
  BY DEF InitPool
<1>3. /\ DOMAIN connections' = 1 .. PoolSize
      /\ \A i \in 1 .. PoolSize : connections'[i].conn = c[i] /\ connections'[i].in_use = FALSE
  BY <1>2 DEF Slot
<1>4. MysqlTypeOK'
  <2>1. connections' \in [1 .. PoolSize -> SlotType]
    BY <1>2 DEF Slot, SlotType, Handle
  <2>2. connections' \in Seq(SlotType)
    BY <2>1, MysqlAssumption
  <2>3. alive' \in SUBSET Conns
    BY <1>1, <1>2
  <2> QED
    BY <2>2, <2>3 DEF InitPool, MysqlIInv, MysqlTypeOK
<1>5. SlotsFound' /\ ClosedIsEmpty'
  BY <1>1 DEF InitPool, SlotsFound, ClosedIsEmpty
<1>6. \A h \in Holders : Lent'[h] = None
  BY <1>1, LentIsNext DEF LentFacts, InitPool, Holders
<1>7. Good(Lent, connections, alive)'
  <2>1. Exclusive(Lent, alive)' /\ Marked(Lent, connections)'
    BY <1>3, <1>6 DEF Exclusive, Marked
  <2>2. alive' = {connections'[i].conn : i \in DOMAIN connections'} \ {None}
    <3>1. alive' = {c[i] : i \in {j \in 1 .. PoolSize : c[j] # None}}
      BY <1>1, <1>2
    <3>2. {connections'[i].conn : i \in DOMAIN connections'} = {c[i] : i \in 1 .. PoolSize}
      BY <1>3
    <3> QED
      BY <3>1, <3>2
  <2>3. \A i, j \in DOMAIN connections' :
          i # j /\ connections'[i].conn = connections'[j].conn => connections'[i].conn = None
    <3> SUFFICES ASSUME NEW i \in 1 .. PoolSize, NEW j \in 1 .. PoolSize, i # j, c[i] = c[j]
                 PROVE  c[i] = None
      BY <1>3
    <3> QED
      BY <1>2
  <2>4. Opened(connections, alive)'
    BY <2>2, <2>3 DEF Opened
  <2> QED
    BY <2>1, <2>4 DEF Good
<1> QED
  BY <1>4, <1>5, <1>7 DEF MysqlIInv

LEMMA ClosePoolStep ==
  ASSUME MysqlIInv, ClosePool
  PROVE  MysqlIInv'
<1>1. MysqlTypeOK'
  <2>1. << >> \in Seq(SlotType)
    OBVIOUS
  <2>2. undone' \in BOOLEAN
    BY DEF ClosePool
  <2>3. alive' \in SUBSET Conns
    BY DEF ClosePool, MysqlIInv, MysqlTypeOK
  <2> QED
    BY <2>1, <2>2, <2>3 DEF ClosePool, MysqlIInv, MysqlTypeOK
<1>2. ASSUME ~undone'
      PROVE  SlotsFound' /\ ClosedIsEmpty' /\ Good(Lent, connections, alive)'
  <2>1. /\ ~undone /\ \A t \in Scripts : mpc'[t] = "idle"
        /\ \A r \in Results : res'[r] = None
    BY <1>2 DEF ClosePool
  <2>2. connections' = << >> /\ alive' = {}
    BY <2>1 DEF ClosePool, MysqlIInv, Good, Opened, Slots
  <2>3. \A h \in Holders : Lent'[h] = None
    BY <2>1, LentIsNext DEF LentFacts, Holders
  <2>4. Good(Lent, connections, alive)'
    BY <2>2, <2>3 DEF Good, Exclusive, Marked, Opened
  <2> QED
    BY <2>1, <2>2, <2>4 DEF SlotsFound, ClosedIsEmpty
<1> QED
  BY <1>1, <1>2 DEF MysqlIInv

-----------------------------------------------------------------------------
(* The theorems *)

LEMMA NextMysqlIInv == MysqlIInv /\ [MysqlNext]_mysqlVars => MysqlIInv'
<1> SUFFICES ASSUME MysqlIInv, [MysqlNext]_mysqlVars PROVE MysqlIInv'
  OBVIOUS
<1>1. CASE InitPool
  BY <1>1, InitPoolStep
<1>2. CASE ClosePool
  BY <1>2, ClosePoolStep
<1>3. ASSUME NEW t \in Scripts,
             \/ Ask(t) \/ ReadSlot(t) \/ Refused(t) \/ QueryDone(t) \/ Report(t)
             \/ \E i \in Slots : TakeSlot(t, i)
             \/ \E c \in Conns : Grow(t, c)
             \/ \E r \in Results : QueryRows(t, r)
      PROVE  MysqlIInv'
  BY <1>3, AskStep, ReadSlotStep, RefusedStep, QueryDoneStep, ReportStep, TakeSlotStep,
     GrowStep, QueryRowsStep
<1>4. ASSUME NEW r \in Results, EndResult(r)
      PROVE  MysqlIInv'
  BY <1>4, EndResultStep
<1>5. CASE UNCHANGED mysqlVars
  <2>1. Lent' = Lent
    BY <1>5 DEF mysqlVars, Lent, Holding
  <2> QED
    BY <1>5, <2>1 DEF mysqlVars, MysqlIInv, MysqlTypeOK, SlotsFound, ClosedIsEmpty, Slots
<1> QED
  BY <1>1, <1>2, <1>3, <1>4, <1>5 DEF MysqlNext

\* In every state the types are right, and as long as the program is in a defined
\* state, what is lent, what is marked and what is open agree.
\* (get_connection_from_pool, release_connection_to_pool, lua_mysql_query)
THEOREM MysqlInvariant == MysqlSpec => []MysqlIInv
<1>1. MysqlInit => MysqlIInv
  BY InitMysqlIInv
<1>2. MysqlIInv /\ [MysqlNext]_mysqlVars => MysqlIInv'
  BY NextMysqlIInv
<1> QED
  BY <1>1, <1>2, PTL DEF MysqlSpec

\* A connection is lent to one query or one result at a time, and it is open.
\* (get_connection_from_pool, release_connection_to_pool)
THEOREM MysqlLentOnce == MysqlSpec => []LentOnce
<1>1. MysqlIInv => LentOnce
  BY DEF MysqlIInv, Good, Exclusive, LentOnce, Lent
<1> QED
  BY <1>1, MysqlInvariant, PTL

\* A slot is marked exactly as long as somebody holds its connection: a query that
\* fails or has no rows, and a result that ends, gives its connection back.
\* (release_connection_to_pool)
THEOREM MysqlSlotsComeBack == MysqlSpec => []SlotsComeBack
<1>1. MysqlIInv => SlotsComeBack
  BY DEF MysqlIInv, Good, Marked, Opened, SlotsComeBack, Lent, Slots
<1> QED
  BY <1>1, MysqlInvariant, PTL

=============================================================================
