--------------------------- MODULE ValuePrinters ---------------------------
(***************************************************************************)
(* How one value of the stopped program is printed.                        *)
(*                                                                         *)
(* gdb asks the printers of libstdc++ (printers.py) for a container and    *)
(* GenericPrinter.py for the rest.  A printer of a container announces it  *)
(* (to_string) and then lists its elements: children() makes an iterator,  *)
(* which walks the representation in the memory of the program by itself.  *)
(* A member of a struct passes printer() before that, which looks at       *)
(* std::vector by itself.                                                  *)
(*                                                                         *)
(* All containers in scope are printed, those whose constructor has not    *)
(* run yet or whose life has ended too: "live" tells them apart.  The      *)
(* memory of a live container is that of libstdc++ (Represents); of any    *)
(* other nothing is known.  An element is named by its address.            *)
(***************************************************************************)
EXTENDS PointerLabels, StdContainers

CONSTANTS
  Value,        \* the values to print
  VectorLimit,  \* printer() shows no vector of this size, 100000 in the code
  MaxItems      \* bound on the elements listed

ASSUME LimitAssumption == {VectorLimit, MaxItems} \subseteq Nat

VARIABLES
  val,       \* the value
  pc,        \* where gdb is
  said,      \* the number of elements announced
  it,        \* the iterator
  out,       \* what has been listed
  followed,  \* elements printer() has been called for
  label      \* what has been printed of a pointer behind its address

vars == <<val, pc, said, it, out, followed, label>>

\* std::stack and std::queue have a container c.
Adaptor == {"stack", "queue"}

Template == Container \cup Adaptor \cup {"pointer", "struct"}

\* An iterator: the address it is at, a second and a third one, and a count.
Iterator == [at : Int, sub : Int, lim : Int, n : Nat]

Position(a, s, l, k) == [at |-> a, sub |-> s, lim |-> l, n |-> k]
NoIterator == Position(0, 0, 0, 0)

Final == {"done", "failed", "hidden"}

Init ==
  /\ val \in Value
  /\ pc = IF val.member THEN "member" ELSE "print"
  /\ said = 0
  /\ it = NoIterator
  /\ out = <<>>
  /\ followed = <<>>
  /\ label = {}

----------------------------------------------------------------------------
(* Which printer.                                                          *)

\* The printers of libstdc++ are registered in front of lookup_function, which
\* goes by the code of the type.
PrinterFor(v) ==
  IF v.template \in Container \cup Adaptor THEN "libstdc++"
  ELSE IF v.template = "pointer" THEN "PointerPrinter"
  ELSE "GenericPrinter"

\* StdStackOrQueuePrinter asks the printer of c.
Core(v) == IF v.template \in Adaptor THEN v.c ELSE v

\* The difference of two pointers, in elements.
Distance(v, from, to) ==
  IF from <= to THEN (to - from) \div v.width ELSE -((from - to) \div v.width)

VectorLength(v) == Distance(v, v.start, v.finish)

\* printer() for a member: _M_finish - _M_start is an error unless the value
\* has these members, and, for vector<bool>, unless the program has an
\* operator- for them that gdb can call.
HasDifference(v) ==
  \/ v.template = "vector"
  \/ v.template = "vector<bool>" /\ v.minus

Difference(v) ==
  IF v.template = "vector" THEN VectorLength(v)
  ELSE v.bits * (v.finish - v.start) + v.to - v.from

Passes(v) ==
  v.mentionsVector =>
    HasDifference(v) /\ Difference(v) > 0 /\ Difference(v) < VectorLimit

\* A pointer into the heap is followed (module PrettyPrint), a null pointer is
\* left out, and any other gets its label here, if what it points to can be
\* read.
PointerMember ==
  /\ pc = "member"
  /\ val.template = "pointer"
  /\ \/ val.addr = Null /\ pc' = "hidden" /\ UNCHANGED label
     \/ val.addr # Null /\ ~val.readable /\ pc' = "failed" /\ UNCHANGED label
     \/ /\ val.addr # Null
        /\ val.readable
        /\ pc' = "done"
        /\ label' = {OutsideHeapLabel(val.layout, val.addr)}
  /\ UNCHANGED <<val, said, it, out, followed>>

\* "except: pass": whatever goes wrong, the member is left out.
Member ==
  /\ pc = "member"
  /\ val.template # "pointer"
  /\ pc' = IF Passes(val) THEN "print" ELSE "hidden"
  /\ UNCHANGED <<val, said, it, out, followed, label>>

\* Mutant: the sections are tried for an address in a block, too.
PrintPointerBoth ==
  /\ pc = "print"
  /\ PrinterFor(val) = "PointerPrinter"
  /\ pc' = "done"
  /\ label' = {Label(val.layout, val.addr), OutsideHeapLabel(val.layout, val.addr)}
  /\ UNCHANGED <<val, said, it, out, followed>>

PrintPointer ==
  /\ pc = "print"
  /\ PrinterFor(val) = "PointerPrinter"
  /\ pc' = "done"
  /\ label' = {Label(val.layout, val.addr)}
  /\ UNCHANGED <<val, said, it, out, followed>>

\* GenericPrinter: the members of a struct are the subject of PrettyPrint.
PrintStruct ==
  /\ pc = "print"
  /\ PrinterFor(val) = "GenericPrinter"
  /\ pc' = "done"
  /\ UNCHANGED <<val, said, it, out, followed, label>>

----------------------------------------------------------------------------
(* to_string                                                               *)

\* Mutant: the buffer of finish counts as a full one.
DequeSizeWithLast(v) ==
  v.buffer * (v.finishNode - v.startNode)
    + (v.last - v.start) + (v.finish - v.finishFirst)

\* The buffers in between are full; the first and the last may not be.
DequeSize(v) ==
  v.buffer * (v.finishNode - v.startNode - 1)
    + (v.last - v.start) + (v.finish - v.finishFirst)

\* A vector<bool> keeps bits in words: from the bit v.from of the first word
\* to the bit v.to of the last.
BitVectorLength(v) ==
  (v.bits - v.from) + v.bits * ((v.finish - v.start) - 1) + v.to

\* The number of elements, for those that announce it.
Size(v) ==
  IF v.template = "vector" THEN VectorLength(v)
  ELSE IF v.template = "vector<bool>" THEN BitVectorLength(v)
  ELSE IF v.template = "deque" THEN DequeSize(v)
  ELSE v.count

Counted == Trees \cup {"vector", "vector<bool>", "deque", "unordered_set",
                       "unordered_map", "tr1::unordered_set"}

Announce ==
  /\ pc = "print"
  /\ PrinterFor(val) = "libstdc++"
  /\ said' = IF Core(val).template \in Counted THEN Size(Core(val)) ELSE 0
  /\ pc' = "children"
  /\ UNCHANGED <<val, it, out, followed, label>>

----------------------------------------------------------------------------
(* children(): the iterator is made.                                       *)

Begin(T, i) ==
  /\ pc = "children"
  /\ Core(val).template \in T
  /\ pc' = "next"
  /\ it' = i
  /\ UNCHANGED <<val, said, out, followed, label>>

LinkedChildren ==
  Begin(Linked, Position(Core(val).next[Core(val).head], 0, 0, 0))

VectorChildren ==
  Begin({"vector"}, Position(Core(val).start, 0, VectorLength(Core(val)), 0))

DequeChildren ==
  Begin({"deque"},
        Position(Core(val).start, Core(val).startNode, Core(val).last, 0))

\* RbtreeIterator: _M_left of the header.
TreeChildren ==
  Begin(Trees, Position(Core(val).left[Core(val).head], 0, 0, 0))

\* The first bucket from b on that is not empty, or the number of buckets.
Bucket(v, b) ==
  CHOOSE c \in b..Len(v.buckets) + 1 :
    /\ c = Len(v.buckets) + 1 \/ v.buckets[c] # Null
    /\ \A d \in b..(c - 1) : v.buckets[d] = Null

BucketHead(v, b) == IF b > Len(v.buckets) THEN Null ELSE v.buckets[b]

HashChildren ==
  LET b == Bucket(Core(val), 1)
  IN  Begin({"tr1::unordered_set"}, Position(BucketHead(Core(val), b), b, 0, 0))

\* self.length = int(finish - start) needs an operator- of the program.
BitVectorChildren ==
  /\ Core(val).template = "vector<bool>" => Core(val).minus
  /\ Begin({"vector<bool>"}, Position(Core(val).start, Core(val).from, 0, 0))

NoOperator ==
  /\ pc = "children"
  /\ Core(val).template = "vector<bool>"
  /\ ~Core(val).minus
  /\ pc' = "failed"
  /\ UNCHANGED <<val, said, it, out, followed, label>>

BitsetChildren ==
  Begin({"bitset"}, Position(0, 0, Core(val).words[1], 1))

TupleChildren == Begin({"tuple"}, NoIterator)

----------------------------------------------------------------------------
(* __next__                                                                *)

\* Mutant: every list ends with a null pointer.
ExhaustedByNull(v) ==
  /\ v.template \in Linked \cup {"tr1::unordered_set"} => it.at = Null
  /\ v.template = "vector" => it.n >= it.lim
  /\ v.template = "vector<bool>" => it.at = v.finish /\ it.sub >= v.to
  /\ v.template = "deque" => it.at = v.finish
  /\ v.template \in Trees => it.n = v.count
  /\ v.template = "bitset" => it.n > Len(v.words)
  /\ v.template = "tuple" /\ it.n < Len(v.fields) => v.fields[it.n + 1] = 0

\* Mutant: the comparison of pointers that is commented out at line 313.
ExhaustedByPointer(v) ==
  /\ v.template = "list" => it.at = v.head
  /\ v.template \in NullEnded \cup {"tr1::unordered_set"} => it.at = Null
  /\ v.template \in {"vector", "deque"} => it.at = v.finish
  /\ v.template = "vector<bool>" => it.at = v.finish /\ it.sub >= v.to
  /\ v.template \in Trees => it.n = v.count
  /\ v.template = "bitset" => it.n > Len(v.words)
  /\ v.template = "tuple" /\ it.n < Len(v.fields) => v.fields[it.n + 1] = 0

\* Whether the iterator raises StopIteration.  A list is a ring through its
\* head, the others end with a null pointer; a vector and a tree count.
Exhausted(v) ==
  /\ v.template = "list" => it.at = v.head
  /\ v.template \in NullEnded \cup {"tr1::unordered_set"} => it.at = Null
  /\ v.template = "vector" => it.n >= it.lim
  /\ v.template = "vector<bool>" => it.at = v.finish /\ it.sub >= v.to
  /\ v.template = "deque" => it.at = v.finish
  /\ v.template \in Trees => it.n = v.count
  /\ v.template = "bitset" => it.n > Len(v.words)
  /\ v.template = "tuple" /\ it.n < Len(v.fields) => v.fields[it.n + 1] = 0

\* The elements of a vector of pointers that is a member are given to printer().
Stop ==
  /\ pc = "next"
  /\ Exhausted(Core(val))
  /\ pc' = IF val.member /\ val.mentionsVector /\ val.pointers
             THEN "follow" ELSE "done"
  /\ UNCHANGED <<val, said, it, out, followed, label>>

\* The next element printer() is to be called for, and whether there is one.
Element == val.start + Len(followed) * val.width
LeftToFollow == Len(followed) < VectorLength(val)

\* printer(key + "[" + str(i) + "]", (_M_start + i).dereference(), True)
FollowElement ==
  /\ pc = "follow"
  /\ LeftToFollow
  /\ Element \notin val.raises
  /\ followed' = Append(followed, Element)
  /\ UNCHANGED <<val, pc, said, it, out, label>>

\* "except: pass" is around the loop: an error in one element ends it, such as the
\* division by the size of an incomplete type.
FollowFails ==
  /\ pc = "follow"
  /\ LeftToFollow
  /\ Element \in val.raises
  /\ pc' = "done"
  /\ UNCHANGED <<val, said, it, out, followed, label>>

\* Mutant: one element less.
FollowEndsEarly ==
  /\ pc = "follow"
  /\ Len(followed) + 1 >= VectorLength(val)
  /\ pc' = "done"
  /\ UNCHANGED <<val, said, it, out, followed, label>>

FollowEnds ==
  /\ pc = "follow"
  /\ ~LeftToFollow
  /\ pc' = "done"
  /\ UNCHANGED <<val, said, it, out, followed, label>>

Follow == FollowElement \/ FollowFails \/ FollowEnds

Going(T) ==
  /\ pc = "next"
  /\ Core(val).template \in T
  /\ ~Exhausted(Core(val))

\* gdb cannot read what the iterator is at: the printing of the value ends.
Unreadable ==
  /\ Going(HasMemory)
  /\ it.at \notin Core(val).memory
  /\ pc' = "failed"
  /\ UNCHANGED <<val, said, it, out, followed, label>>

Reading(T) ==
  /\ Going(T)
  /\ T \subseteq HasMemory => it.at \in Core(val).memory

Yield(e) == Len(out) < MaxItems /\ out' = Append(out, e)

\* The element e is returned; the iterator is at a then.
Step(T, e, a, s, l) ==
  /\ Reading(T)
  /\ Yield(e)
  /\ it' = Position(a, s, l, it.n + 1)
  /\ UNCHANGED <<val, pc, said, followed, label>>

\* A pair of a map is two items; the second of them is taken from the same
\* element, without a step of the iterator.  One element here.
LinkedNext == Step(Linked, it.at, Core(val).next[it.at], 0, 0)

VectorNext == Step({"vector"}, it.at, it.at + Core(val).width, 0, it.lim)

DequeNextInBuffer ==
  /\ Reading({"deque"})
  /\ it.at + 1 # it.lim
  /\ Step({"deque"}, it.at, it.at + 1, it.sub, it.lim)

\* Mutant: the next buffer is taken to have the end of the one before.
DequeNextBufferKeepsEnd ==
  /\ Reading({"deque"})
  /\ it.at + 1 = it.lim
  /\ it.sub + 1 \in DOMAIN Core(val).map
  /\ Step({"deque"}, it.at, Core(val).map[it.sub + 1], it.sub + 1, it.lim)

\* self.node[1]: the first element of the next buffer.
DequeNextBuffer ==
  /\ Reading({"deque"})
  /\ it.at + 1 = it.lim
  /\ it.sub + 1 \in DOMAIN Core(val).map
  /\ LET first == Core(val).map[it.sub + 1]
     IN  Step({"deque"}, it.at, first, it.sub + 1, first + Core(val).buffer)

\* self.node[0] of a node that cannot be read.
DequeMapUnreadable ==
  /\ Reading({"deque"})
  /\ it.at + 1 = it.lim
  /\ it.sub + 1 \notin DOMAIN Core(val).map
  /\ pc' = "failed"
  /\ UNCHANGED <<val, said, it, out, followed, label>>

HashNextLink ==
  /\ Reading({"tr1::unordered_set"})
  /\ Core(val).next[it.at] # Null
  /\ Step({"tr1::unordered_set"}, it.at, Core(val).next[it.at], it.sub, 0)

\* Mutant: the next bucket, empty or not.
HashNextBucketAny ==
  /\ Reading({"tr1::unordered_set"})
  /\ Core(val).next[it.at] = Null
  /\ LET b == it.sub + 1
     IN  Step({"tr1::unordered_set"}, it.at, BucketHead(Core(val), b), b, 0)

HashNextBucket ==
  /\ Reading({"tr1::unordered_set"})
  /\ Core(val).next[it.at] = Null
  /\ LET b == Bucket(Core(val), it.sub + 1)
     IN  Step({"tr1::unordered_set"}, it.at, BucketHead(Core(val), b), b, 0)

LastBit == it.sub + 1 >= Core(val).bits

BitVectorNext ==
  Step({"vector<bool>"}, it.at * Core(val).bits + it.sub,
       IF LastBit THEN it.at + 1 ELSE it.at,
       IF LastBit THEN 0 ELSE it.sub + 1, 0)

\* The classes a tuple is derived from: one field for the last, no field if
\* it is empty.
TupleNext == Step({"tuple"}, it.n + 1, 0, 0, 0)

\* Mutant: bits are numbered in each word.
BitNumberInWord == it.sub

BitNumber == (it.n - 1) * Core(val).bits + it.sub

\* The loops of StdBitsetPrinter.children: the word it.n, of which the bits
\* from it.sub on are left in it.lim.
BitsetNext ==
  /\ Going({"bitset"})
  /\ IF it.lim % 2 = 1 THEN Yield(BitNumber) ELSE UNCHANGED out
  /\ it' = IF it.lim # 0
             THEN Position(0, it.sub + 1, it.lim \div 2, it.n)
             ELSE Position(0, 0, IF it.n < Len(Core(val).words)
                                   THEN Core(val).words[it.n + 1] ELSE 0,
                           it.n + 1)
  /\ UNCHANGED <<val, pc, said, followed, label>>

----------------------------------------------------------------------------
(* RbtreeIterator.__next__: while it.at is the result, it.sub looks for the *)
(* node behind it, and it.lim is the parent of it.sub on the way up.        *)

\* The node at it.at is returned and it.sub is the next one.
Return(next) ==
  /\ pc' = "next"
  /\ Yield(it.at)
  /\ it' = Position(next, 0, 0, it.n + 1)

TreeNext ==
  /\ Reading(Trees)
  /\ LET t == Core(val)
     IN  IF it.n + 1 = t.count THEN Return(it.at)
         ELSE IF t.right[it.at] # Null
           THEN /\ pc' = "down"
                /\ it' = Position(it.at, t.right[it.at], 0, it.n)
                /\ UNCHANGED out
           ELSE /\ pc' = "up"
                /\ it' = Position(it.at, it.at, t.parent[it.at], it.n)
                /\ UNCHANGED out
  /\ UNCHANGED <<val, said, followed, label>>

\* "while node.dereference()['_M_left']"
TreeDown ==
  /\ pc = "down"
  /\ it.sub \in Core(val).memory
  /\ IF Core(val).left[it.sub] # Null
       THEN /\ it' = Position(it.at, Core(val).left[it.sub], 0, it.n)
            /\ UNCHANGED <<pc, out>>
       ELSE Return(it.sub)
  /\ UNCHANGED <<val, said, followed, label>>

\* Mutant: one step up is enough.
TreeUpOnce ==
  /\ pc = "up"
  /\ it.lim \in Core(val).memory
  /\ Return(it.lim)
  /\ UNCHANGED <<val, said, followed, label>>

\* "while node == parent.dereference()['_M_right']"
TreeUp ==
  /\ pc = "up"
  /\ it.lim \in Core(val).memory
  /\ LET t == Core(val)
     IN  IF it.sub = t.right[it.lim]
           THEN /\ it' = Position(it.at, it.lim, t.parent[it.lim], it.n)
                /\ UNCHANGED <<pc, out>>
           ELSE Return(IF t.right[it.sub] # it.lim THEN it.lim ELSE it.sub)
  /\ UNCHANGED <<val, said, followed, label>>

TreeUnreadable ==
  /\ \/ pc = "down" /\ it.sub \notin Core(val).memory
     \/ pc = "up" /\ it.lim \notin Core(val).memory
  /\ pc' = "failed"
  /\ UNCHANGED <<val, said, it, out, followed, label>>

----------------------------------------------------------------------------

\* A value has been printed, or the bound is reached: it may never end.
Ended ==
  /\ pc \in Final \/ Len(out) = MaxItems
  /\ UNCHANGED vars

Dispatch == Member \/ PointerMember \/ PrintPointer \/ PrintStruct \/ Announce

Children ==
  \/ LinkedChildren
  \/ VectorChildren
  \/ DequeChildren
  \/ TreeChildren
  \/ HashChildren
  \/ BitVectorChildren
  \/ NoOperator
  \/ BitsetChildren
  \/ TupleChildren

Listing ==
  \/ Stop
  \/ Follow
  \/ Unreadable
  \/ LinkedNext
  \/ VectorNext
  \/ DequeNextInBuffer
  \/ DequeNextBuffer
  \/ DequeMapUnreadable
  \/ HashNextLink
  \/ HashNextBucket
  \/ BitVectorNext
  \/ TupleNext
  \/ BitsetNext
  \/ TreeNext
  \/ TreeDown
  \/ TreeUp
  \/ TreeUnreadable

Next == Dispatch \/ Children \/ Listing \/ Ended

Spec == Init /\ [][Next]_vars

\* gdb is sequential, and the program is stopped.
FairSpec == Spec /\ WF_vars(Next)

----------------------------------------------------------------------------
(* The values.                                                             *)

\* Another execution: the image of the program, the libraries, the stack and the
\* heap are loaded v.by further on, the stack may be deeper, and the address is the
\* one of the same object: it is in the same of the three and in no other one, and
\* if it is on the stack it is in a frame that is there both times.  With the image
\* and the libraries, the places move at which blocks are allocated.
CallMoved(l, by, a) ==
  IF In(a, l.section["TEXT"]) THEN a + by.image ELSE a + by.library

BlockMoved(l, by, b) ==
  [begin |-> b.begin + by.heap, size |-> b.size, count |-> b.count,
   call1 |-> CallMoved(l, by, b.call1), call2 |-> CallMoved(l, by, b.call2)]

Moved(v) ==
  LET l == v.layout
      m == v.layout2
  IN  /\ m.heap = {BlockMoved(l, v.by, b) : b \in l.heap}
      /\ m.stack.begin = l.stack.begin + v.by.stack
      /\ m.section = [s \in Section |->
                        [begin |-> l.section[s].begin + v.by.image,
                         end |-> l.section[s].end + v.by.image]]
      /\ \A b, c \in l.heap : b.begin = c.begin => b = c
      /\ \/ v.addr2 = v.addr + v.by.heap /\ BlocksAt(l, v.addr) # {}
         \/ /\ BlocksAt(l, v.addr) = {} /\ BlocksAt(m, v.addr2) = {}
            /\ \/ /\ v.addr2 = v.addr + v.by.stack
                  /\ InStack(l, v.addr) /\ InStack(m, v.addr2)
               \/ /\ v.addr2 = v.addr + v.by.image
                  /\ ~InStack(l, v.addr) /\ ~InStack(m, v.addr2)

IsValue(v) ==
  /\ v.template \in Template
  /\ {v.live, v.member, v.mentionsVector, v.pointers} \subseteq BOOLEAN
  /\ v.pointers => v.template = "vector" /\ v.raises \subseteq Int
  /\ v.template \in Container => IsContainer(v)
  /\ v.template \in Adaptor => IsContainer(v.c) /\ v.live = v.c.live
  /\ v.template = "pointer" =>
       /\ {v.layout, v.layout2} \subseteq Layout
       /\ {v.addr, v.addr2, v.by.image, v.by.library, v.by.stack, v.by.heap} \subseteq Int
       /\ v.readable \in BOOLEAN
       /\ Moved(v)
       /\ v.member => BlocksAt(v.layout, v.addr) = {}

ASSUME ValueAssumption == \A v \in Value : IsValue(v)

----------------------------------------------------------------------------
(* Properties.                                                             *)

TypeOK ==
  /\ IsValue(val)
  /\ pc \in {"member", "print", "children", "next", "down", "up", "follow"}
            \cup Final
  /\ said \in Int
  /\ it \in Iterator
  /\ out \in Seq(Int) /\ Len(out) <= MaxItems
  /\ followed \in Seq(Int)
  /\ Cardinality(label) <= 1

IsPrefixOf(s, t) ==
  Len(s) <= Len(t) /\ \A i \in DOMAIN s : s[i] = t[i]

\* The values that gdb gives up, although they are live.
LeftOut(v) ==
  \/ v.member /\ v.mentionsVector /\
       (v.template \in {"vector", "vector<bool>"} =>
          Len(v.contents) \notin 1..(VectorLimit - 1))
  \/ Core(v).template = "vector<bool>" /\ ~Core(v).minus

\* The live containers of the templates T are listed: each element once and in
\* order, from the first to the last.
ListsAll(T) ==
  val.live /\ Core(val).template \in T /\ ~LeftOut(val) =>
    /\ pc \notin {"failed", "hidden"}
    /\ IsPrefixOf(out, Core(val).contents)
    /\ pc \in {"follow", "done"} => out = Core(val).contents

\* The iterators that go by links show every element of a live list or hash
\* table, over empty buckets too, and stop behind the last of them.
LinkedListed == ListsAll(Linked \cup {"tr1::unordered_set"})

\* So do those that compute addresses, across the buffers of a deque too.
ArraysListed == ListsAll({"vector", "deque"})

\* RbtreeIterator visits the nodes of a live tree in order, whatever its shape.
TreesListed == ListsAll(Trees)

\* So are those that have no place of their own in memory for an element: every
\* bit of a vector<bool>, over its words, those bits of a bitset that are set and
\* no other ones, and every element of a tuple.
BitsListed == ListsAll(Others)

\* What to_string announces of a live container is what children lists.
AnnouncedIsListed ==
  val.live /\ Core(val).template \in Counted /\ pc = "done" => said = Len(out)

\* Even if the container is dead and its fields are left from something else,
\* no more elements are listed than its fields say.
ListingBounded ==
  Core(val).template \in Trees \cup {"vector"} =>
    Len(out) <= IF said > 0 THEN said ELSE 0

\* The elements of a live member that is a vector of pointers are followed from the
\* first on, each of them once, as far as they have been listed and up to the first
\* one that raises an error, and by nothing else is one of them left out.
ElementsFollowed ==
  val.member /\ val.mentionsVector /\ val.pointers /\ val.live /\ pc = "done" =>
    /\ IsPrefixOf(followed, out)
    /\ \A i \in 1..Len(followed) : followed[i] \notin val.raises
    /\ Len(followed) < Len(out) => out[Len(followed) + 1] \in val.raises

\* All of a label but the identifier of the block.
Whereabouts(x) == <<x.area, x.off, IF x.area = "HEAP" THEN x.size ELSE 0>>

\* In another execution, the label of a pointer says the same of where the object
\* is, wherever image, libraries, stack and heap are loaded and however deep the
\* stack is.  It is the same label if stack and heap only have moved; if the image or
\* a library has, the identifier of a block may be another one.
LabelsMove ==
  val.template = "pointer" =>
    \A x \in label :
      LET y == Label(val.layout2, val.addr2)
      IN  /\ Whereabouts(x) = Whereabouts(y)
          /\ val.by.image = 0 /\ val.by.library = 0 => x = y

\* Dead lists, hash tables and trees may send their iterator round in circles.
EndsAlways == {"vector", "vector<bool>", "deque", "bitset", "tuple"}

\* Every other value is printed in the end.
PrintingEnds ==
  val.live \/ Core(val).template \notin Container \ EndsAlways ~> pc \in Final

\* "the dump of every data structure in the scope": a live container that is not
\* empty is shown with its elements.
ContainersShown ==
  val.live /\ Core(val).template \in Container /\ pc \in Final =>
    out = Core(val).contents
============================================================================
