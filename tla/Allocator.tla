----------------------------- MODULE Allocator -----------------------------
(***************************************************************************)
(* allocator::Allocator: segregated free lists threaded through the free   *)
(* blocks, under a spinlock, over mmap.  Addresses and sizes count blocks  *)
(* of the smallest class (16 bytes in the code), so class_size(idx) is     *)
(* 2^idx.  The word at an address is what ptr::read would find there.      *)
(***************************************************************************)
EXTENDS Naturals, FiniteSets, FiniteSetsExt, TLC

CONSTANTS Threads,
          Null,        \* the null pointer
          Junk,        \* a word the program wrote
          NumClasses,  \* NUM_CLASSES (9)
          GRAN,        \* granularity of large allocations (2^10)
          ARENA,       \* size of an arena (2^16)
          MemSize,     \* bound: the addresses mmap can give out
          Layouts,     \* the layouts <<size, align>> the program asks for
          MaxLive      \* bound: allocations the program holds at a time

AllocatorAssumption ==
  /\ NumClasses \in Nat \ {0} /\ GRAN \in Nat \ {0} /\ ARENA \in Nat \ {0}
  /\ ARENA % 2^(NumClasses - 1) = 0 /\ GRAN % 2^(NumClasses - 1) = 0
  /\ Layouts \subseteq (Nat \ {0}) \X (Nat \ {0})

Addr == 0 .. MemSize - 1
Classes == 0 .. NumClasses - 1
MAX_SMALL == 2^(NumClasses - 1)
MIN_MAP_ALIGN == MAX_SMALL

VARIABLES lock,        \* Allocator::lock
          free,        \* Allocator::free, the heads
          mem,         \* the word at each address
          mapped,      \* the addresses the kernel has mapped
          pc,          \* where each thread is
          layout,      \* the layout of each thread's call
          blk,         \* the pointer of each thread's call
          live         \* the program's allocations: <<pointer, layout>>

vars == <<lock, free, mem, mapped, pc, layout, blk, live>>

(* alock, read, pop, aunlock, fail: in alloc_small, about to lock, read    *)
(* the head, pop it, unlock, and unlock after a failed refill;  flock,     *)
(* link, push, funlock: in free_small.                                     *)
PC == {"idle", "alock", "read", "pop", "aunlock", "fail", "flock", "link", "push", "funlock"}

TypeOK ==
  /\ lock \in BOOLEAN
  /\ free \in [Classes -> Addr \cup {Null}]
  /\ mem \in [Addr -> Addr \cup {Null, Junk}]
  /\ mapped \subseteq Addr
  /\ pc \in [Threads -> PC]
  /\ layout \in [Threads -> Layouts \cup {Null}]
  /\ blk \in [Threads -> Addr \cup {Null}]
  /\ live \subseteq Addr \X Layouts

Init ==
  /\ lock = FALSE
  /\ free = [c \in Classes |-> Null]
  /\ mem = [a \in Addr |-> Null]
  /\ mapped = {}
  /\ pc = [t \in Threads |-> "idle"]
  /\ layout = [t \in Threads |-> Null]
  /\ blk = [t \in Threads |-> Null]
  /\ live = {}

Goto(t, l) == pc' = [pc EXCEPT ![t] = l]

-----------------------------------------------------------------------------
(* class_for: a small layout's class is the first that is large enough.    *)
Need(l) == Max({l[1], l[2], 1})
Small(l) == Need(l) <= MAX_SMALL

ClassFor(l) == Min({c \in Classes : 2^c >= Need(l)})

RoundUp(v, to) == ((v + to - 1) \div to) * to

Range0(base, n) == base .. base + n - 1

(* The addresses an allocation of layout l at p occupies.                  *)
Extent(p, l) == Range0(p, IF Small(l) THEN 2^ClassFor(l) ELSE RoundUp(l[1], GRAN))

(* map: the kernel picks a free, page-aligned range.                       *)
MapBases(n) ==
  {b \in Addr : b % MIN_MAP_ALIGN = 0 /\ Range0(b, n) \subseteq Addr \ mapped}

-----------------------------------------------------------------------------
(* alloc, small: on to alloc_small.                                        *)
AllocSmall(t, l) ==
  /\ pc[t] = "idle" /\ Small(l) /\ Cardinality(live) < MaxLive
  /\ layout' = [layout EXCEPT ![t] = l]
  /\ Goto(t, "alock")
  /\ UNCHANGED <<lock, free, mem, mapped, blk, live>>

(* alloc, large: its own mapping; an error, or more alignment than GRAN,   *)
(* returns null and changes nothing.                                       *)
AllocLarge(t, l) ==
  /\ pc[t] = "idle" /\ ~Small(l) /\ l[2] <= GRAN /\ Cardinality(live) < MaxLive
  /\ \E b \in MapBases(RoundUp(l[1], GRAN)) :
       /\ mapped' = mapped \cup Extent(b, l)
       /\ live' = live \cup {<<b, l>>}
  /\ UNCHANGED <<lock, free, mem, pc, layout, blk>>

SkipsLock(t) ==
  /\ \/ pc[t] = "alock" /\ Goto(t, "read")
     \/ pc[t] = "flock" /\ Goto(t, "link")
  /\ UNCHANGED <<lock, free, mem, mapped, layout, blk, live>>

(* lock: the compare_exchange_weak succeeds (a failed one spins).          *)
Lock(t) ==
  /\ ~lock
  /\ lock' = TRUE
  /\ \/ pc[t] = "alock" /\ Goto(t, "read")
     \/ pc[t] = "flock" /\ Goto(t, "link")
  /\ UNCHANGED <<free, mem, mapped, layout, blk, live>>

(* alloc_small: the head of the class's list.                              *)
ReadHead(t) ==
  LET c == ClassFor(layout[t])
  IN  /\ pc[t] = "read" /\ free[c] # Null
      /\ blk' = [blk EXCEPT ![t] = free[c]]
      /\ Goto(t, "pop")
      /\ UNCHANGED <<lock, free, mem, mapped, layout, live>>

(* The blocks of an arena at b, and the chain refill writes through them   *)
(* and on to the old head.                                                 *)
Chain(b, size, head) ==
  [a \in {b + i * size : i \in 0 .. (ARENA \div size) - 1} |->
     IF a + size < b + ARENA THEN a + size ELSE head]

(* alloc_small, refill: the list is empty; carve a fresh arena.            *)
Refill(t) ==
  LET c == ClassFor(layout[t])
  IN  /\ pc[t] = "read" /\ free[c] = Null
      /\ \E b \in MapBases(ARENA) :
           /\ mapped' = mapped \cup Range0(b, ARENA)
           /\ mem' = Chain(b, 2^c, free[c]) @@ mem
           /\ free' = [free EXCEPT ![c] = b]
      /\ UNCHANGED <<lock, pc, layout, blk, live>>

(* alloc_small, refill: mmap fails.                                        *)
RefillFails(t) ==
  /\ pc[t] = "read" /\ free[ClassFor(layout[t])] = Null
  /\ Goto(t, "fail")
  /\ UNCHANGED <<lock, free, mem, mapped, layout, blk, live>>

(* alloc_small: the head becomes the block's next.                         *)
Pop(t) ==
  /\ pc[t] = "pop"
  /\ free' = [free EXCEPT ![ClassFor(layout[t])] = mem[blk[t]]]
  /\ Goto(t, "aunlock")
  /\ UNCHANGED <<lock, mem, mapped, layout, blk, live>>

(* alloc_small: unlock, and return the block, or null.                     *)
AllocReturns(t) ==
  /\ pc[t] \in {"aunlock", "fail"}
  /\ lock' = FALSE
  /\ live' = IF pc[t] = "aunlock" THEN live \cup {<<blk[t], layout[t]>>} ELSE live
  /\ blk' = [blk EXCEPT ![t] = Null]
  /\ layout' = [layout EXCEPT ![t] = Null]
  /\ Goto(t, "idle")
  /\ UNCHANGED <<free, mem, mapped>>

(* The program writes to what it has been given, where the link was.       *)
Scribble ==
  /\ \E x \in live : Small(x[2]) /\ mem' = [mem EXCEPT ![x[1]] = Junk]
  /\ UNCHANGED <<lock, free, mapped, pc, layout, blk, live>>

(* dealloc, small: on to free_small.                                       *)
DeallocSmall(t) ==
  /\ pc[t] = "idle"
  /\ \E x \in live :
       /\ Small(x[2])
       /\ live' = live \ {x}
       /\ blk' = [blk EXCEPT ![t] = x[1]]
       /\ layout' = [layout EXCEPT ![t] = x[2]]
  /\ Goto(t, "flock")
  /\ UNCHANGED <<lock, free, mem, mapped>>

(* dealloc, large: unmap what alloc mapped.                                *)
DeallocLarge(t) ==
  /\ pc[t] = "idle"
  /\ \E x \in live :
       /\ ~Small(x[2])
       /\ live' = live \ {x}
       /\ mapped' = mapped \ Extent(x[1], x[2])
  /\ UNCHANGED <<lock, free, mem, pc, layout, blk>>

(* free_small: write the old head into the block ...                       *)
Link(t) ==
  /\ pc[t] = "link"
  /\ mem' = [mem EXCEPT ![blk[t]] = free[ClassFor(layout[t])]]
  /\ Goto(t, "push")
  /\ UNCHANGED <<lock, free, mapped, layout, blk, live>>

(* ... which becomes the new head.                                         *)
Push(t) ==
  /\ pc[t] = "push"
  /\ free' = [free EXCEPT ![ClassFor(layout[t])] = blk[t]]
  /\ Goto(t, "funlock")
  /\ UNCHANGED <<lock, mem, mapped, layout, blk, live>>

(* free_small: unlock and return.                                          *)
FreeReturns(t) ==
  /\ pc[t] = "funlock"
  /\ lock' = FALSE
  /\ blk' = [blk EXCEPT ![t] = Null]
  /\ layout' = [layout EXCEPT ![t] = Null]
  /\ Goto(t, "idle")
  /\ UNCHANGED <<free, mem, mapped, live>>

Next ==
  \/ \E t \in Threads :
       \/ \E l \in Layouts : AllocSmall(t, l) \/ AllocLarge(t, l)
       \/ Lock(t) \/ ReadHead(t) \/ Refill(t) \/ RefillFails(t) \/ Pop(t) \/ AllocReturns(t)
       \/ DeallocSmall(t) \/ DeallocLarge(t) \/ Link(t) \/ Push(t) \/ FreeReturns(t)
  \/ Scribble

Spec == Init /\ [][Next]_vars

-----------------------------------------------------------------------------
(* The blocks on the list of class c, found by following at most as many   *)
(* links as there are addresses.                                           *)
List(c) ==
  LET steps[n \in 0..MemSize] ==
        IF n = 0 THEN {free[c]}
        ELSE LET seen == steps[n - 1]
             IN  seen \cup {mem[a] : a \in seen \ {Null, Junk}}
  IN  steps[MemSize] \ {Null}

(* The blocks in a thread's hands, on their way from or to a list.         *)
InHand == {t \in Threads : pc[t] \in {"aunlock", "flock", "link", "push"}}

(* The addresses of every block: the program's, those in a thread's hands, *)
(* and the free ones.                                                      *)
Blocks ==
  UNION {Extent(x[1], x[2]) : x \in live}
  \cup UNION {Extent(blk[t], layout[t]) : t \in InHand}
  \cup UNION {UNION {Range0(a, 2^c) : a \in List(c)} : c \in Classes}

(* How many there would be if no two blocks overlapped.                    *)
TotalSize ==
  MapThenSumSet(LAMBDA x : Cardinality(Extent(x[1], x[2])), live)
  + MapThenSumSet(LAMBDA t : Cardinality(Extent(blk[t], layout[t])), InHand)
  + MapThenSumSet(LAMBDA c : 2^c * Cardinality(List(c)), Classes)

(* Memory is handed out once and none gets lost: no free list runs into    *)
(* memory the program has written, no two blocks overlap, and the blocks   *)
(* are all of the memory that is mapped.                                   *)
MemoryAccounted ==
  /\ \A c \in Classes : Junk \notin List(c)
  /\ TotalSize = Cardinality(Blocks)
  /\ Blocks = mapped

(* alloc returns a pointer to enough memory, aligned as asked (for a large *)
(* layout the code only has the page alignment of mmap).                   *)
FitsLayout ==
  \A x \in live :
    /\ x[2][1] <= Cardinality(Extent(x[1], x[2]))
    /\ x[2][2] <= MIN_MAP_ALIGN => x[1] % x[2][2] = 0

(* alloc hands out fitting memory that nobody else has, and dealloc keeps  *)
(* what it gets back.                                                      *)
BlocksSound == MemoryAccounted /\ FitsLayout
=============================================================================
