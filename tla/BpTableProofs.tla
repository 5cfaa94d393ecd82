--------------------------- MODULE BpTableProofs ---------------------------
(***************************************************************************)
(* Theorems about BpTable, for every set of addresses, every set of bytes  *)
(* and every size of the table.                                            *)
(***************************************************************************)
EXTENDS BpTable, FiniteSetTheorems, TLAPS

(***************************************************************************)
(* Facts about the slots of the table                                      *)
(***************************************************************************)

\* A loop that runs up the table and stops at the first slot of a set finds
\* one when the set is not empty (Z0's search for an inactive entry).
LEMMA MinSlot ==
  ASSUME NEW S \in SUBSET Slots, S # {}
  PROVE  Min(S) \in S
<1>1. IsWellFoundedOn(OpToRel(<, Nat), Nat)
  BY NatLessThanWellFounded, Zenon
<1>2. S \subseteq Nat
  BY SizeAssumption DEF Slots
<1>3. PICK x \in S : \A y \in S : <<y, x>> \notin OpToRel(<, Nat)
  BY <1>1, <1>2, WFMin, Zenon
<1>4. \A y \in S : ~ (y < x)
  <2> TAKE y \in S
  <2>1. <<y, x>> \in Nat \X Nat
    BY <1>2
  <2>2. <<y, x>> \notin OpToRel(<, Nat)
    BY <1>3
  <2> QED
    BY <2>1, <2>2 DEF OpToRel
<1>5. \A y \in S : x <= y
  BY <1>2, <1>4
<1> QED
  BY <1>5 DEF Min

\* Where the entries of an address are one, the loops that look for it find
\* that one, from either end.
LEMMA OneSlot ==
  ASSUME NEW t, NEW a, NEW i, SlotsAt(t, a) = {i}, i \in Nat
  PROVE  Min(SlotsAt(t, a)) = i /\ Max(SlotsAt(t, a)) = i
BY DEF Min, Max

\* An active entry is the only one of its address, which is a breakpoint.
LEMMA SlotOfAddr ==
  ASSUME OneEntryPerAddress, NEW i \in ActiveSlots(tbl)
  PROVE  /\ SlotsAt(tbl, tbl[i].addr) = {i}
         /\ tbl[i].addr \in BpAddrs(tbl)
BY DEF OneEntryPerAddress, SlotsAt, BpAddrs

\* Every breakpoint is the address of exactly one active entry.
LEMMA AddrHasSlot ==
  ASSUME OneEntryPerAddress, NEW a \in BpAddrs(tbl)
  PROVE  \E i \in ActiveSlots(tbl) : tbl[i].addr = a /\ SlotsAt(tbl, a) = {i}
BY SlotOfAddr DEF BpAddrs

\* Breakpoints are addresses the model looks at.
LEMMA BpAddrsType ==
  ASSUME tbl \in [Slots -> BpEntry]
  PROVE  BpAddrs(tbl) \subseteq Addr
BY DEF BpAddrs, ActiveSlots, BpEntry

\* bp_remove_all leaves the program's own bytes in memory.
LEMMA RemoveAllRestoresText ==
  ASSUME IInv, mode = "run"
  PROVE  bp_remove_all(mem, tbl) = text
<1> USE DEF IInv
<1>1. ASSUME NEW a \in Addr
      PROVE  bp_remove_all(mem, tbl)[a] = text[a]
  <2>1. CASE a \in BpAddrs(tbl)
    <3>1. PICK i \in ActiveSlots(tbl) :
              tbl[i].addr = a /\ SlotsAt(tbl, a) = {i}
      BY <2>1, AddrHasSlot
    <3>2. i \in Nat
      BY SizeAssumption DEF ActiveSlots, Slots
    <3>3. Max(SlotsAt(tbl, a)) = i
      BY <3>1, <3>2, OneSlot
    <3> QED
      BY <2>1, <3>1, <3>3 DEF bp_remove_all, SavedIsText
  <2>2. CASE a \notin BpAddrs(tbl)
    BY <2>2 DEF bp_remove_all, RunsWithBreakpoints
  <2> QED
    BY <2>1, <2>2
<1>2. DOMAIN bp_remove_all(mem, tbl) = Addr
  BY DEF bp_remove_all
<1>3. bp_remove_all(mem, tbl) = [a \in Addr |-> bp_remove_all(mem, tbl)[a]]
  BY <1>2 DEF bp_remove_all
<1>4. text = [a \in Addr |-> text[a]]
  BY DEF TypeOK
<1> QED
  BY <1>1, <1>3, <1>4, Zenon

(***************************************************************************)
(* What Z0 and z0 do to the table                                          *)
(***************************************************************************)
\* Z0 adds one entry, for the new address, with the byte it found there.
LEMMA Z0Effect ==
  ASSUME IInv, NEW a \in Addr, NotYetSet(a), InsertBreakpoint(a)
  PROVE  /\ tbl' \in [Slots -> BpEntry]
         /\ BpAddrs(tbl') = BpAddrs(tbl) \cup {a}
         /\ OneEntryPerAddress'
         /\ \A j \in ActiveSlots(tbl') :
              \/ tbl'[j].addr = a /\ tbl'[j].saved = mem[a]
              \/ j \in ActiveSlots(tbl) /\ tbl'[j] = tbl[j]
<1> DEFINE s == Min(FreeSlots(tbl))
           e == [addr |-> a, saved |-> mem[a], active |-> TRUE]
<1>1. s \in Slots /\ s \notin ActiveSlots(tbl)
  <2>1. FreeSlots(tbl) \in SUBSET Slots /\ FreeSlots(tbl) # {}
    BY DEF InsertBreakpoint, FreeSlots
  <2>2. s \in FreeSlots(tbl)
    BY <2>1, MinSlot
  <2> QED
    BY <2>2 DEF FreeSlots
<1>2. tbl' = [tbl EXCEPT ![s] = e]
  BY DEF InsertBreakpoint, Z0Table
<1> HIDE DEF s
<1>3. e \in BpEntry
  BY DEF BpEntry, IInv, TypeOK
<1>4. tbl' \in [Slots -> BpEntry]
  BY <1>2, <1>3 DEF IInv, TypeOK
<1>5. tbl'[s] = e /\ \A j \in Slots : j # s => tbl'[j] = tbl[j]
  BY <1>1, <1>2 DEF IInv, TypeOK
<1>6. ActiveSlots(tbl') = ActiveSlots(tbl) \cup {s}
  BY <1>1, <1>5 DEF ActiveSlots
<1>7. BpAddrs(tbl') = BpAddrs(tbl) \cup {a}
  <2>1. \A j \in ActiveSlots(tbl) : j \in Slots /\ j # s
    BY <1>1 DEF ActiveSlots
  <2>2. \A j \in ActiveSlots(tbl) : tbl'[j].addr = tbl[j].addr
    BY <2>1, <1>5
  <2> QED
    BY <2>2, <1>5, <1>6 DEF BpAddrs
<1>8. \A j \in ActiveSlots(tbl') :
        \/ j = s /\ tbl'[j].addr = a /\ tbl'[j].saved = mem[a]
        \/ j \in ActiveSlots(tbl) /\ tbl'[j] = tbl[j]
  BY <1>1, <1>5, <1>6 DEF ActiveSlots
<1>9. OneEntryPerAddress'
  <2>1. \A j \in ActiveSlots(tbl) : tbl[j].addr # a
    BY DEF NotYetSet, BpAddrs
  <2>2. \A i, j \in ActiveSlots(tbl') : tbl'[i].addr = tbl'[j].addr => i = j
    BY <1>8, <2>1 DEF IInv, OneEntryPerAddress
  <2> QED
    BY <2>2 DEF OneEntryPerAddress
<1> QED
  BY <1>4, <1>7, <1>8, <1>9

\* z0 gives up the one entry of its address and leaves the others alone.
LEMMA z0Effect ==
  ASSUME IInv, NEW a \in Addr, RemoveBreakpoint(a)
  PROVE  /\ tbl' \in [Slots -> BpEntry]
         /\ BpAddrs(tbl') = BpAddrs(tbl) \ {a}
         /\ a \in BpAddrs(tbl)
         /\ OneEntryPerAddress'
         /\ mem' = [mem EXCEPT ![a] = text[a]]
         /\ \A j \in ActiveSlots(tbl') :
              j \in ActiveSlots(tbl) /\ tbl'[j] = tbl[j] /\ tbl[j].addr # a
<1>1. a \in BpAddrs(tbl)
  BY DEF RemoveBreakpoint, SlotsAt, BpAddrs
<1>2. PICK i \in ActiveSlots(tbl) : tbl[i].addr = a /\ SlotsAt(tbl, a) = {i}
  BY <1>1, AddrHasSlot DEF IInv
<1>3. i \in Slots /\ i \in Nat
  BY SizeAssumption DEF ActiveSlots, Slots
<1>4. Min(SlotsAt(tbl, a)) = i
  BY <1>2, <1>3, OneSlot
<1>5. tbl' = [tbl EXCEPT ![i].active = FALSE]
  BY <1>4 DEF RemoveBreakpoint, z0Table
<1>6. tbl' \in [Slots -> BpEntry]
  BY <1>3, <1>5 DEF IInv, TypeOK, BpEntry
<1>7. ~tbl'[i].active /\ \A j \in Slots : j # i => tbl'[j] = tbl[j]
  BY <1>3, <1>5 DEF IInv, TypeOK, BpEntry
<1>8. ActiveSlots(tbl') = ActiveSlots(tbl) \ {i}
  BY <1>3, <1>7 DEF ActiveSlots
<1>9. \A j \in ActiveSlots(tbl') : j \in ActiveSlots(tbl) /\ tbl'[j] = tbl[j]
  BY <1>7, <1>8 DEF ActiveSlots
<1>10. \A j \in ActiveSlots(tbl) : j # i => tbl[j].addr # a
  BY <1>2 DEF IInv, OneEntryPerAddress
<1>11. BpAddrs(tbl') = BpAddrs(tbl) \ {a}
  BY <1>2, <1>8, <1>9, <1>10 DEF BpAddrs
<1>12. OneEntryPerAddress'
  BY <1>9 DEF IInv, OneEntryPerAddress
<1>13. mem' = [mem EXCEPT ![a] = text[a]]
  BY <1>2, <1>4 DEF RemoveBreakpoint, z0Mem, IInv, SavedIsText
<1> QED
  BY <1>1, <1>6, <1>8, <1>9, <1>10, <1>11, <1>12, <1>13

(***************************************************************************)
(* The invariant                                                           *)
(***************************************************************************)
\* The zeroed table of a freshly booted kernel satisfies the invariant.
LEMMA InitIInv == Init => IInv
<1> SUFFICES ASSUME Init PROVE IInv
  OBVIOUS
<1>1. tbl \in [Slots -> BpEntry] /\ ActiveSlots(tbl) = {}
  BY AddrAssumption, ByteAssumption DEF Init, ZeroTable, BpEntry, ActiveSlots
<1>2. TypeOK
  BY <1>1 DEF Init, TypeOK, Kinds, Answer
<1> QED
  BY <1>1, <1>2 DEF Init, IInv, OneEntryPerAddress, SavedIsText,
                    RunsWithBreakpoints, HandlerRunsClean, BpAddrs

\* Steps that leave the table, memory, the mode and both histories alone
LEMMA AnswerStep ==
  ASSUME IInv, out'.kind \in Kinds, UNCHANGED <<mem, tbl, mode, text, armed>>
  PROVE  IInv'
BY DEF IInv, TypeOK, OneEntryPerAddress, SavedIsText, RunsWithBreakpoints,
       HandlerRunsClean, ActiveSlots, BpAddrs

\* bp_remove_all in the trampoline keeps the invariant.
LEMMA EnterStep == IInv /\ EnterHandler => IInv'
<1> SUFFICES ASSUME IInv, EnterHandler PROVE IInv'
  OBVIOUS
<1>1. mem' = text
  BY RemoveAllRestoresText DEF EnterHandler
<1>2. TypeOK'
  BY <1>1 DEF IInv, TypeOK, EnterHandler, Answer, Kinds
<1>3. OneEntryPerAddress' /\ SavedIsText'
  BY DEF IInv, OneEntryPerAddress, SavedIsText, EnterHandler, ActiveSlots
<1>4. RunsWithBreakpoints' /\ HandlerRunsClean'
  BY <1>1 DEF RunsWithBreakpoints, HandlerRunsClean, EnterHandler
<1> QED
  BY <1>2, <1>3, <1>4 DEF IInv

\* bp_insert_all in the trampoline keeps the invariant.
LEMMA LeaveStep == IInv /\ LeaveHandler => IInv'
<1> SUFFICES ASSUME IInv, LeaveHandler PROVE IInv'
  OBVIOUS
<1>1. mem' = [a \in Addr |-> IF a \in BpAddrs(tbl) THEN CC ELSE text[a]]
  BY DEF LeaveHandler, bp_insert_all, IInv, HandlerRunsClean
<1>2. TypeOK'
  BY <1>1, ByteAssumption DEF IInv, TypeOK, LeaveHandler, Answer, Kinds
<1>3. OneEntryPerAddress' /\ SavedIsText'
  BY DEF IInv, OneEntryPerAddress, SavedIsText, LeaveHandler, ActiveSlots
<1>4. RunsWithBreakpoints'
  BY <1>1 DEF RunsWithBreakpoints, LeaveHandler
<1>5. HandlerRunsClean'
  BY DEF HandlerRunsClean, LeaveHandler
<1> QED
  BY <1>2, <1>3, <1>4, <1>5 DEF IInv

\* Z0 of an address without an entry keeps the invariant.
LEMMA InsertStep ==
  ASSUME IInv, NEW a \in Addr, NotYetSet(a), InsertBreakpoint(a)
  PROVE  IInv'
<1>1. a \notin armed /\ mem[a] = text[a]
  BY DEF IInv, HandlerRunsClean, NotYetSet, InsertBreakpoint
<1>2. mem' = [mem EXCEPT ![a] = CC] /\ text' = text /\ mode' = mode
      /\ armed' = armed \cup {a} /\ mode = "handler"
  BY DEF InsertBreakpoint, Z0Mem
<1>3. TypeOK'
  BY <1>2, Z0Effect, ByteAssumption
  DEF IInv, TypeOK, InsertBreakpoint, Answer, Kinds
<1>4. SavedIsText'
  BY <1>1, <1>2, Z0Effect DEF IInv, SavedIsText
<1>5. RunsWithBreakpoints'
  BY <1>2 DEF RunsWithBreakpoints
<1>6. HandlerRunsClean'
  BY <1>2, Z0Effect DEF IInv, TypeOK, HandlerRunsClean
<1> QED
  BY <1>3, <1>4, <1>5, <1>6, Z0Effect DEF IInv

\* z0 keeps the invariant.
LEMMA RemoveStep ==
  ASSUME IInv, NEW a \in Addr, RemoveBreakpoint(a)
  PROVE  IInv'
<1>1. text' = text /\ mode' = mode /\ armed' = armed \ {a}
      /\ mode = "handler"
  BY DEF RemoveBreakpoint
<1>2. TypeOK'
  BY <1>1, z0Effect DEF IInv, TypeOK, RemoveBreakpoint, Answer, Kinds
<1>3. SavedIsText'
  BY <1>1, z0Effect DEF IInv, SavedIsText
<1>4. RunsWithBreakpoints'
  BY <1>1 DEF RunsWithBreakpoints
<1>5. HandlerRunsClean'
  BY <1>1, z0Effect DEF IInv, TypeOK, HandlerRunsClean
<1> QED
  BY <1>2, <1>3, <1>4, <1>5, z0Effect DEF IInv

\* M away from the breakpoints keeps the invariant.
LEMMA WriteStep ==
  ASSUME IInv, NEW D \in SUBSET Addr, WritesClear(D),
         NEW d \in [D -> Byte], WriteMemory(d)
  PROVE  IInv'
<1>1. TypeOK'
  BY DEF IInv, TypeOK, WriteMemory, Answer, Kinds
<1>2. OneEntryPerAddress'
  BY DEF IInv, OneEntryPerAddress, WriteMemory, ActiveSlots
<1>3. SavedIsText'
  <2>1. \A i \in ActiveSlots(tbl) : tbl[i].addr \in Addr \ D
    BY BpAddrsType DEF WritesClear, BpAddrs, IInv, TypeOK
  <2> QED
    BY <2>1 DEF IInv, SavedIsText, WriteMemory, ActiveSlots
<1>4. RunsWithBreakpoints'
  BY DEF RunsWithBreakpoints, WriteMemory
<1>5. HandlerRunsClean'
  <2>1. armed \subseteq BpAddrs(tbl)
    BY DEF IInv, HandlerRunsClean, WriteMemory
  <2>2. \A x \in Addr : mem'[x] = IF x \in armed THEN CC ELSE text'[x]
    BY <2>1 DEF IInv, HandlerRunsClean, WriteMemory, WritesClear
  <2> QED
    BY <2>1, <2>2 DEF HandlerRunsClean, WriteMemory, BpAddrs, ActiveSlots
<1> QED
  BY <1>1, <1>2, <1>3, <1>4, <1>5 DEF IInv

\* Every step keeps the invariant.
LEMMA NextIInv == IInv /\ [Next]_vars => IInv'
<1> SUFFICES ASSUME IInv, [Next]_vars PROVE IInv'
  OBVIOUS
<1>1. CASE EnterHandler
  BY <1>1, EnterStep
<1>2. CASE LeaveHandler
  BY <1>2, LeaveStep
<1>3. ASSUME NEW a \in Addr, Fetch(a) PROVE IInv'
  <2>1. out'.kind \in Kinds
    BY <1>3 DEF Fetch, Kinds
  <2> QED
    BY <1>3, <2>1, AnswerStep DEF Fetch
<1>4. ASSUME NEW a \in Addr, NotYetSet(a), InsertBreakpoint(a) PROVE IInv'
  BY <1>4, InsertStep
<1>5. ASSUME NEW a \in Addr, InsertRefused(a) \/ RemoveRefused(a) PROVE IInv'
  <2>1. out'.kind \in Kinds
    <3>1. CASE InsertRefused(a)
      BY <3>1 DEF InsertRefused, Answer, Kinds
    <3>2. CASE RemoveRefused(a)
      BY <3>2 DEF RemoveRefused, Answer, Kinds
    <3> QED
      BY <1>5, <3>1, <3>2
  <2> QED
    BY <1>5, <2>1, AnswerStep DEF InsertRefused, RemoveRefused
<1>6. ASSUME NEW a \in Addr, RemoveBreakpoint(a) PROVE IInv'
  BY <1>6, RemoveStep
<1>7. ASSUME NEW a \in Addr, NEW l \in Lengths, ReadMemory(a, l) PROVE IInv'
  <2>1. out'.kind \in Kinds
    BY <1>7 DEF ReadMemory, BytesOf, Kinds
  <2> QED
    BY <1>7, <2>1, AnswerStep DEF ReadMemory
<1>8. ASSUME NEW a \in Addr, NEW l \in Lengths, WritesClear(Span(a, l)),
             NEW d \in [Span(a, l) -> Byte], WriteMemory(d)
      PROVE  IInv'
  <2>1. Span(a, l) \in SUBSET Addr
    BY DEF Span
  <2> QED
    BY <1>8, <2>1, WriteStep
<1>9. CASE UNCHANGED vars
  <2>1. out'.kind \in Kinds
    BY <1>9 DEF vars, IInv, TypeOK
  <2> QED
    BY <1>9, <2>1, AnswerStep DEF vars
<1> QED
  BY <1>1, <1>2, <1>3, <1>4, <1>5, <1>6, <1>7, <1>8, <1>9
  DEF Next, Program, GdbClient

\* Whatever the program fetches and whatever a client of gdb's discipline
\* asks, over any number of stops: IInv holds (gdb_stub.c:137-149, 324-355).
THEOREM BpTableInvariant == Spec => []IInv
<1>1. Init => IInv
  BY InitIInv
<1>2. IInv /\ [Next]_vars => IInv'
  BY NextIInv
<1> QED
  BY <1>1, <1>2, PTL DEF Spec

\* Every variable keeps its type.
THEOREM BpTableTypes == Spec => []TypeOK
BY BpTableInvariant, PTL DEF IInv

\* No address ever has two entries, so that the ascending loops of
\* bp_remove_all and z0 have one saved byte to find (gdb_stub.c:137-149).
THEOREM OneEntry == Spec => []OneEntryPerAddress
BY BpTableInvariant, PTL DEF IInv

\* A saved byte is the program's own over any number of stops and writes.
THEOREM SavedBytes == Spec => []SavedIsText
BY BpTableInvariant, PTL DEF IInv

\* After every resume, INT3 is at the breakpoints and nowhere else.
THEOREM PatchedOnlyAtBreakpoints == Spec => []RunsWithBreakpoints
BY BpTableInvariant, PTL DEF IInv

\* In the handler the stub's own code is not patched (tramp.asm:11-15).
THEOREM HandlerIsClean == Spec => []HandlerRunsClean
BY BpTableInvariant, PTL DEF IInv

\* A session starts with memory as the program has it.
THEOREM EntryFree == Spec => HandlerEntryFree
<1>1. IInv /\ [Next]_vars =>
        [mode = "run" /\ mode' = "handler" => mem' = text']_vars
  <2> SUFFICES ASSUME IInv, Next, mode = "run", mode' = "handler"
               PROVE  mem' = text'
    BY DEF vars
  <2>1. EnterHandler
    BY DEF Next, Program, GdbClient, LeaveHandler, Fetch, InsertBreakpoint,
           InsertRefused, RemoveBreakpoint, RemoveRefused, ReadMemory,
           WriteMemory
  <2> QED
    BY <2>1, RemoveAllRestoresText DEF EnterHandler
<1> QED
  BY <1>1, BpTableInvariant, PTL DEF Spec, HandlerEntryFree

(***************************************************************************)
(* BpTable implements Breakpoints                                          *)
(***************************************************************************)

\* A table with no inactive entry holds BP_TABLE_SIZE different addresses.
LEMMA FullTable ==
  ASSUME OneEntryPerAddress, FreeSlots(tbl) = {}
  PROVE  Cardinality(BpAddrs(tbl)) >= BP_TABLE_SIZE
<1> DEFINE f == [i \in Slots |-> tbl[i].addr]
<1>1. ActiveSlots(tbl) = Slots
  BY DEF FreeSlots, ActiveSlots
<1>2. f \in Bijection(Slots, BpAddrs(tbl))
  BY <1>1 DEF OneEntryPerAddress, BpAddrs, Bijection, Injection, Surjection,
              IsInjective
<1>3. IsFiniteSet(Slots) /\ Cardinality(Slots) = BP_TABLE_SIZE
  <2>1. 0 \in Int /\ BP_TABLE_SIZE - 1 \in Int /\ ~(0 > BP_TABLE_SIZE - 1)
    BY SizeAssumption
  <2>2. IsFiniteSet(0..(BP_TABLE_SIZE - 1))
        /\ Cardinality(0..(BP_TABLE_SIZE - 1)) = BP_TABLE_SIZE - 1 - 0 + 1
    BY <2>1, FS_Interval
  <2> QED
    BY <2>2, SizeAssumption DEF Slots
<1>4. Cardinality(BpAddrs(tbl)) = Cardinality(Slots)
  BY <1>2, <1>3, FS_Bijection DEF ExistsBijection
<1> QED
  BY <1>3, <1>4, SizeAssumption

\* Every step is a step of Breakpoints or changes nothing there.
LEMMA AbstractStep == IInv /\ [Next]_vars => [Abstract!Next]_(Abstract!vars)
<1> SUFFICES ASSUME IInv, [Next]_vars
             PROVE  [Abstract!Next]_(Abstract!vars)
  OBVIOUS
<1> USE DEF Abstract!Answer, Answer
<1>1. CASE EnterHandler
  BY <1>1 DEF EnterHandler, Abstract!Next, Abstract!Stop
<1>2. CASE LeaveHandler
  BY <1>2 DEF LeaveHandler, Abstract!Next, Abstract!Resume
<1>3. ASSUME NEW a \in Addr, Fetch(a) PROVE Abstract!Fetch(a)
  <2>1. mem[a] = IF a \in BpAddrs(tbl) THEN CC ELSE text[a]
    BY <1>3 DEF Fetch, IInv, RunsWithBreakpoints
  <2> QED
    BY <1>3, <2>1 DEF Fetch, Abstract!Fetch
<1>4. ASSUME NEW a \in Addr, NotYetSet(a), InsertBreakpoint(a)
      PROVE  Abstract!Set(a)
  <2>1. BpAddrs(tbl') = BpAddrs(tbl) \cup {a}
    BY <1>4, Z0Effect
  <2> QED
    BY <1>4, <2>1 DEF InsertBreakpoint, NotYetSet, Abstract!Set
<1>5. ASSUME NEW a \in Addr, NotYetSet(a), InsertRefused(a)
      PROVE  Abstract!Set(a)
  <2>1. Cardinality(BpAddrs(tbl)) >= BP_TABLE_SIZE
    BY <1>5, FullTable DEF InsertRefused, IInv
  <2> QED
    BY <1>5, <2>1 DEF InsertRefused, NotYetSet, Abstract!Set,
                      Cardinality, Abstract!Cardinality
<1>6. ASSUME NEW a \in Addr, RemoveBreakpoint(a) PROVE Abstract!Clear(a)
  BY <1>6, z0Effect DEF RemoveBreakpoint, Abstract!Clear
<1>7. ASSUME NEW a \in Addr, RemoveRefused(a) PROVE Abstract!Clear(a)
  <2>1. a \notin BpAddrs(tbl)
    BY <1>7 DEF RemoveRefused, SlotsAt, BpAddrs
  <2>2. BpAddrs(tbl) = BpAddrs(tbl) \ {a}
    BY <2>1
  <2> QED
    BY <1>7, <2>1, <2>2 DEF RemoveRefused, Abstract!Clear
<1>8. ASSUME NEW a \in Addr, NEW l \in Lengths, ReadsUnarmed(Span(a, l)),
             ReadMemory(a, l)
      PROVE  Abstract!Read(Span(a, l)) /\ Span(a, l) \in SUBSET Addr
  <2>1. Span(a, l) \in SUBSET Addr
    BY DEF Span
  <2>2. \A x \in Span(a, l) : mem[x] = text[x]
    BY <1>8, <2>1 DEF ReadsUnarmed, ReadMemory, IInv, HandlerRunsClean
  <2>3. [x \in Span(a, l) |-> mem[x]] = [x \in Span(a, l) |-> text[x]]
    BY <2>2
  <2> QED
    BY <1>8, <2>1, <2>3
    DEF ReadMemory, BytesOf, Abstract!Read, Abstract!Bytes
<1>9. ASSUME NEW a \in Addr, NEW l \in Lengths,
             NEW d \in [Span(a, l) -> Byte], WriteMemory(d)
      PROVE  Abstract!Write(d) /\ Span(a, l) \in SUBSET Addr
  BY <1>9 DEF WriteMemory, Abstract!Write, Span
<1>10. CASE UNCHANGED vars
  BY <1>10 DEF vars, Abstract!vars
<1> HIDE DEF Answer, Abstract!Answer
<1> QED
  BY <1>1, <1>2, <1>3, <1>4, <1>5, <1>6, <1>7, <1>8, <1>9, <1>10
  DEF Next, Program, GdbClient, Abstract!Next

\* The table under gdb's client is the set of breakpoints it stands for: the
\* processor meets INT3 at exactly those, the debugger never sees one, and
\* Z0 is refused only when BP_TABLE_SIZE different addresses have one.
THEOREM BpTableImplements == Spec => Implements
<1>1. Init => Abstract!Init
  <2> SUFFICES ASSUME Init PROVE Abstract!Init
    OBVIOUS
  <2>1. BpAddrs(tbl) = {}
    BY DEF Init, ZeroTable, BpAddrs, ActiveSlots
  <2> QED
    BY <2>1 DEF Init, Abstract!Init, Answer, Abstract!Answer
<1>2. IInv /\ [Next]_vars => [Abstract!Next]_(Abstract!vars)
  BY AbstractStep
<1> QED
  BY <1>1, <1>2, BpTableInvariant, PTL DEF Spec, Implements, Abstract!Spec
=============================================================================
