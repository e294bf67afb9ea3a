--------------------------- MODULE PointerLabels ---------------------------
(***************************************************************************)
(* What is printed of an address behind the address.                       *)
(*                                                                         *)
(* Dumps of different executions are compared, and the same object has     *)
(* another address in each of them.  PointerPrinter and printer()          *)
(* (GenericPrinter.py) therefore print the address, in hexadecimal digits, *)
(* and behind it a label: in which block of the heap, stack frame or       *)
(* section of the program it is, and how far from its begin.  This module  *)
(* is about the label; whoever compares two dumps has to leave out the     *)
(* address in front of it.                                                 *)
(*                                                                         *)
(* A block is identified by the place it is allocated at: two return       *)
(* addresses, as asan_trace.c prints them, and how many blocks have been   *)
(* allocated there before it.                                              *)
(***************************************************************************)
EXTENDS Integers

\* What gdb knows of the stopped program: the blocks of heap_areas, the bounds
\* of the stack, which grows down, and of the sections.  Before "break main" has
\* run, all bounds are zero.
Segment == [begin : Int, end : Int]
Section == {"DATA", "RODATA", "BSS", "TEXT"}

Block == [begin : Nat, size : Nat, call1 : Nat, call2 : Nat, count : Nat]

Layout == [heap : SUBSET Block,
           stack : Segment,
           section : [Section -> Segment]]

In(a, seg) == seg.begin <= a /\ a <= seg.end

\* The section an address is attributed to: the intervals are closed and tried
\* in this order, so the begin of .bss belongs to .data if they are adjacent.
SectionOf(m, a) ==
  IF In(a, m.section["DATA"]) THEN "DATA"
  ELSE IF In(a, m.section["RODATA"]) THEN "RODATA"
  ELSE IF In(a, m.section["BSS"]) THEN "BSS"
  ELSE IF In(a, m.section["TEXT"]) THEN "TEXT"
  ELSE "ANY"

InStack(m, a) == m.stack.end <= a /\ a <= m.stack.begin

\* Mutant: distances on the stack are taken from its end.
OutsideHeapLabelFromEnd(m, a) ==
  IF InStack(m, a) THEN [area |-> "STACK", off |-> a - m.stack.end]
  ELSE IF SectionOf(m, a) = "ANY" THEN [area |-> "ANY", off |-> 0]
  ELSE [area |-> SectionOf(m, a),
        off |-> a - m.section[SectionOf(m, a)].begin]

\* printer(), for an address in no block
OutsideHeapLabel(m, a) ==
  IF InStack(m, a) THEN [area |-> "STACK", off |-> m.stack.begin - a]
  ELSE IF SectionOf(m, a) = "ANY" THEN [area |-> "ANY", off |-> 0]
  ELSE [area |-> SectionOf(m, a),
        off |-> a - m.section[SectionOf(m, a)].begin]

\* The exclusive or of two numbers, bit by bit.
Xor[x \in Nat, y \in Nat] ==
  IF x = 0 /\ y = 0 THEN 0
  ELSE ((x + y) % 2) + 2 * Xor[x \div 2, y \div 2]

\* get_alloc_id(): blocks of different places may have the same number.
AllocId(b) == Xor[b.call1, b.call2] + b.count

\* heap_areas[a]: the byte behind a block counts as the block.
BlocksAt(m, a) == {b \in m.heap : b.begin <= a /\ a <= b.begin + b.size}

\* PointerPrinter: the first of the blocks found.
Label(m, a) ==
  IF BlocksAt(m, a) = {} THEN OutsideHeapLabel(m, a)
  ELSE LET b == CHOOSE b \in BlocksAt(m, a) :
                  \A c \in BlocksAt(m, a) : b.begin <= c.begin
       IN  [area |-> "HEAP", id |-> AllocId(b), size |-> b.size,
           off |-> a - b.begin]
============================================================================
