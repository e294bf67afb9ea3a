------------------------ MODULE ValuePrintersProofs ------------------------
(***************************************************************************)
(* Theorems about the printers of values: what they list of every live     *)
(* container of libstdc++, whatever its size and shape, and how a pointer  *)
(* is labelled in every pair of executions.                                *)
(***************************************************************************)
EXTENDS ValuePrinters, FiniteSetTheorems, SequenceTheorems,
        WellFoundedInduction, TLAPS

----------------------------------------------------------------------------
(* Natural numbers.                                                        *)

\* A set of natural numbers that is not empty has a least element.  This is
\* how statements about all buckets or all blocks are proved here.
LEMMA LeastNat ==
  ASSUME NEW T \in SUBSET Nat, T # {}
  PROVE  \E m \in T : \A x \in T : m <= x
<1>1. IsWellFoundedOn(OpToRel(<, Nat), Nat)
  BY NatLessThanWellFounded
<1>2. PICK R : R = OpToRel(<, Nat)
  OBVIOUS
<1>3. \A x, y \in Nat : <<x, y>> \in R <=> x < y
  BY <1>2 DEF OpToRel
<1>4. PICK m \in T : \A y \in T : ~ (<<y, m>> \in R)
  BY <1>1, <1>2, WFMin
<1>5. \A y \in T : m <= y
  <2>1. TAKE y \in T
  <2>2. y \in Nat /\ m \in Nat
    OBVIOUS
  <2>3. ~ (<<y, m>> \in R)
    BY <1>4
  <2>4. ~ (y < m)
    BY <1>3, <2>2, <2>3
  <2>5. QED
    BY <2>2, <2>4
<1>6. QED
  BY <1>5

----------------------------------------------------------------------------
(* What is known of a value.                                               *)

\* The container that a value of the program has, or is, has the fields that
\* its printer reads.
LEMMA CoreIsContainer ==
  ASSUME NEW v \in Value, Core(v).template \in Container
  PROVE  IsContainer(Core(v)) /\ Core(v).live = v.live
<1>1. IsValue(v)
  BY ValueAssumption
<1>2. CASE v.template \in Adaptor
  BY <1>1, <1>2 DEF IsValue, Core
<1>3. CASE v.template \notin Adaptor
  BY <1>1, <1>3 DEF IsValue, Core
<1>4. QED
  BY <1>2, <1>3

\* A printer of libstdc++ is asked for containers and adaptors only.
LEMMA CoreTemplate ==
  ASSUME NEW v \in Value, PrinterFor(v) = "libstdc++"
  PROVE  Core(v).template \in Container
<1>1. v.template \in Container \cup Adaptor
  BY DEF PrinterFor
<1>2. IsValue(v)
  BY ValueAssumption
<1>3. CASE v.template \in Adaptor
  BY <1>2, <1>3 DEF IsValue, Core, IsContainer
<1>4. CASE v.template \notin Adaptor
  BY <1>1, <1>4 DEF Core
<1>5. QED
  BY <1>3, <1>4

\* The fields of a list, or of a hash table of C++11, which is one list.
LEMMA LinkedShape ==
  ASSUME NEW c, IsContainer(c), c.template \in Linked
  PROVE  /\ c.memory \subseteq Int /\ c.head \in c.memory
         /\ c.next \in [c.memory -> Int] /\ c.count \in Int
BY DEF IsContainer, Shape

LEMMA VectorShape ==
  ASSUME NEW c, IsContainer(c), c.template = "vector"
  PROVE  /\ c.memory \subseteq Int
         /\ c.start \in Int /\ c.finish \in Int /\ c.width \in Nat \ {0}
BY DEF IsContainer, Shape, Linked, NullEnded

LEMMA DequeShape ==
  ASSUME NEW c, IsContainer(c), c.template = "deque"
  PROVE  /\ c.memory \subseteq Int
         /\ c.start \in Int /\ c.last \in Int /\ c.finish \in Int
         /\ c.finishFirst \in Int /\ c.startNode \in Int /\ c.finishNode \in Int
         /\ c.buffer \in Nat \ {0}
         /\ DOMAIN c.map \subseteq Int /\ c.map \in [DOMAIN c.map -> Int]
BY DEF IsContainer, Shape, Linked, NullEnded

LEMMA TreeShape ==
  ASSUME NEW c, IsContainer(c), c.template \in Trees
  PROVE  /\ c.memory \subseteq Int /\ c.head \in c.memory /\ c.count \in Nat
         /\ c.left \in [c.memory -> Int] /\ c.right \in [c.memory -> Int]
         /\ c.parent \in [c.memory -> Int]
BY DEF IsContainer, Shape, Linked, NullEnded, Trees

LEMMA HashShape ==
  ASSUME NEW c, IsContainer(c), c.template = "tr1::unordered_set"
  PROVE  /\ c.memory \subseteq Int /\ c.head \in c.memory
         /\ c.next \in [c.memory -> Int] /\ c.count \in Int
         /\ c.buckets \in Seq(Int)
BY DEF IsContainer, Shape, Linked, NullEnded, Trees

LEMMA BitVectorShape ==
  ASSUME NEW c, IsContainer(c), c.template = "vector<bool>"
  PROVE  /\ c.memory \subseteq Int /\ c.minus \in BOOLEAN
         /\ c.start \in Int /\ c.finish \in Int /\ c.from \in Int /\ c.to \in Int
         /\ c.bits \in Nat \ {0}
BY DEF IsContainer, Shape, Linked, NullEnded, Trees

LEMMA BitsetShape ==
  ASSUME NEW c, IsContainer(c), c.template = "bitset"
  PROVE  c.words \in Seq(Nat) /\ c.words # <<>> /\ c.bits \in Nat \ {0}
BY DEF IsContainer, Shape, Linked, NullEnded, Trees

\* The first bucket from b on that is not empty.
LEMMA BucketFound ==
  ASSUME NEW c, c.buckets \in Seq(Int), NEW b \in 1..(Len(c.buckets) + 1)
  PROVE  /\ Bucket(c, b) \in b..(Len(c.buckets) + 1)
         /\ \/ Bucket(c, b) = Len(c.buckets) + 1
            \/ c.buckets[Bucket(c, b)] # Null
         /\ \A d \in b..(Bucket(c, b) - 1) : c.buckets[d] = Null
<1> DEFINE N == Len(c.buckets) + 1
           T == {d \in b..N : d = N \/ c.buckets[d] # Null}
<1>1. N \in Nat /\ b \in Nat /\ b <= N
  BY LenProperties
<1>2. T \subseteq Nat /\ N \in T
  BY <1>1
<1>3. PICK m \in T : \A x \in T : m <= x
  BY <1>2, LeastNat
<1>4. m \in b..N /\ (m = N \/ c.buckets[m] # Null)
  OBVIOUS
<1>5. \A d \in b..(m - 1) : c.buckets[d] = Null
  <2>1. TAKE d \in b..(m - 1)
  <2>2. d \in b..N /\ ~ (m <= d)
    BY <1>1, <1>4
  <2>3. d \notin T
    BY <1>3, <2>2
  <2>4. QED
    BY <2>2, <2>3
<1>6. \E e \in b..(Len(c.buckets) + 1) :
        /\ e = Len(c.buckets) + 1 \/ c.buckets[e] # Null
        /\ \A d \in b..(e - 1) : c.buckets[d] = Null
  BY <1>4, <1>5
<1>7. QED
  BY <1>6 DEF Bucket

\* The first element of a bucket; a bucket that has one is not the end.
LEMMA BucketHeadType ==
  ASSUME NEW c, c.buckets \in Seq(Int), NEW b \in 1..(Len(c.buckets) + 1)
  PROVE  /\ BucketHead(c, b) \in Int
         /\ BucketHead(c, b) # Null => b <= Len(c.buckets)
<1>1. Len(c.buckets) \in Nat /\ DOMAIN c.buckets = 1..Len(c.buckets)
  BY LenProperties
<1>2. \A i \in 1..Len(c.buckets) : c.buckets[i] \in Int
  BY ElementOfSeq
<1>3. QED
  BY <1>1, <1>2 DEF BucketHead, Null

----------------------------------------------------------------------------
(* Types.                                                                  *)

Kinds == {"member", "print", "children", "next", "down", "up", "follow"}

\* The iterator of a hash table is at a bucket, or behind the last one.
HashAt(v) ==
  /\ it.sub \in 1..(Len(v.buckets) + 1)
  /\ it.at # Null => it.sub <= Len(v.buckets)

\* Which values each place of pc is for.
PlaceInv ==
  /\ val \in Value
  /\ pc \in Kinds \cup Final
  /\ pc = "member" => val.member
  /\ pc \in {"children", "next", "down", "up"} => Core(val).template \in Container
  /\ pc \in {"down", "up"} => Core(val).template \in Trees
  /\ pc = "follow" => val.member /\ val.mentionsVector /\ val.pointers
  /\ pc = "next" /\ Core(val).template = "tr1::unordered_set" => HashAt(Core(val))

DataInv ==
  /\ said \in Int
  /\ it \in Iterator
  /\ out \in Seq(Int) /\ Len(out) <= MaxItems
  /\ followed \in Seq(Int)
  /\ Cardinality(label) <= 1

TypeInv == PlaceInv /\ DataInv

LEMMA TypeInvImplies == TypeInv => TypeOK
BY ValueAssumption DEF TypeInv, PlaceInv, DataInv, TypeOK, Kinds

LEMMA TypeInit == Init => TypeInv
<1> SUFFICES ASSUME Init PROVE TypeInv
  OBVIOUS
<1>1. PlaceInv
  BY ValueAssumption DEF Init, PlaceInv, Kinds, IsValue
<1>2. Cardinality({}) = 0
  BY FS_EmptySet
<1>3. <<>> \in Seq(Int) /\ Len(<<>>) = 0
  BY EmptySeq
<1>4. MaxItems \in Nat
  BY LimitAssumption
<1>5. DataInv
  BY <1>2, <1>3, <1>4 DEF Init, DataInv, NoIterator, Position, Iterator
<1>6. QED
  BY <1>1, <1>5 DEF TypeInv

\* The number of elements announced is a number.
LEMMA SizeType ==
  ASSUME NEW c, IsContainer(c), c.template \in Counted
  PROVE  Size(c) \in Int
<1>1. CASE c.template = "vector"
  BY <1>1, VectorShape DEF Size, VectorLength, Distance
<1>2. CASE c.template = "vector<bool>"
  BY <1>2, BitVectorShape DEF Size, BitVectorLength
<1>3. CASE c.template = "deque"
  BY <1>3, DequeShape DEF Size, DequeSize
<1>4. CASE c.template \in Trees
  BY <1>4, TreeShape DEF Size, Trees
<1>5. CASE c.template \in {"unordered_set", "unordered_map"}
  BY <1>5, LinkedShape DEF Size, Linked, NullEnded
<1>6. CASE c.template = "tr1::unordered_set"
  BY <1>6, HashShape DEF Size
<1>7. QED
  BY <1>1, <1>2, <1>3, <1>4, <1>5, <1>6 DEF Counted

\* A new iterator, at the begin of what it walks.
LEMMA BeginType ==
  ASSUME TypeInv, NEW T, NEW i \in Iterator, Begin(T, i),
         Core(val).template = "tr1::unordered_set" =>
           /\ i.sub \in 1..(Len(Core(val).buckets) + 1)
           /\ i.at # Null => i.sub <= Len(Core(val).buckets)
  PROVE  TypeInv'
<1>1. PlaceInv'
  BY DEF TypeInv, PlaceInv, Begin, Kinds, HashAt
<1>2. DataInv'
  BY DEF TypeInv, DataInv, Begin
<1>3. QED
  BY <1>1, <1>2 DEF TypeInv

\* One element more.
LEMMA YieldType ==
  ASSUME TypeInv, NEW e \in Int, Yield(e)
  PROVE  out' \in Seq(Int) /\ Len(out') <= MaxItems
<1>1. out \in Seq(Int) /\ MaxItems \in Nat
  BY LimitAssumption DEF TypeInv, DataInv
<1>2. Append(out, e) \in Seq(Int) /\ Len(Append(out, e)) = Len(out) + 1
  BY <1>1, AppendProperties
<1>3. Len(out) \in Nat
  BY <1>1, LenProperties
<1>4. QED
  BY <1>1, <1>2, <1>3 DEF Yield

LEMMA StepType ==
  ASSUME TypeInv, NEW T, NEW e \in Int, NEW a \in Int, NEW s \in Int, NEW l \in Int,
         Step(T, e, a, s, l),
         Core(val).template = "tr1::unordered_set" =>
           /\ s \in 1..(Len(Core(val).buckets) + 1)
           /\ a # Null => s <= Len(Core(val).buckets)
  PROVE  TypeInv'
<1>1. it' = Position(a, s, l, it.n + 1) /\ it.n + 1 \in Nat
  BY DEF TypeInv, DataInv, Step, Iterator
<1>2. it' \in Iterator /\ it'.sub = s /\ it'.at = a
  BY <1>1 DEF Position, Iterator
<1>3. out' \in Seq(Int) /\ Len(out') <= MaxItems
  BY YieldType DEF Step
<1>4. PlaceInv'
  BY <1>2 DEF TypeInv, PlaceInv, Step, Reading, Going, Kinds, HashAt
<1>5. DataInv'
  BY <1>2, <1>3 DEF TypeInv, DataInv, Step
<1>6. QED
  BY <1>4, <1>5 DEF TypeInv

\* The iterators at their begin.
LEMMA ChildrenType ==
  ASSUME TypeInv, Children
  PROVE  TypeInv'
<1> DEFINE c == Core(val)
<1>0. pc = "children" /\ val \in Value
  BY DEF Children, TypeInv, PlaceInv, LinkedChildren, VectorChildren, DequeChildren,
         TreeChildren, HashChildren, BitVectorChildren, NoOperator, BitsetChildren,
         TupleChildren, Begin
<1>1. IsContainer(c)
  BY <1>0, CoreIsContainer DEF TypeInv, PlaceInv
<1>2. CASE LinkedChildren
  <2>1. c.template \in Linked
    BY <1>2 DEF LinkedChildren, Begin
  <2>2. Position(c.next[c.head], 0, 0, 0) \in Iterator
    BY <1>1, <2>1, LinkedShape DEF Position, Iterator
  <2>3. QED
    BY <1>2, <2>1, <2>2, BeginType DEF LinkedChildren, Linked, NullEnded
<1>3. CASE VectorChildren
  <2>1. c.template = "vector"
    BY <1>3 DEF VectorChildren, Begin
  <2>2. VectorLength(c) \in Int /\ c.start \in Int
    BY <1>1, <2>1, VectorShape DEF VectorLength, Distance
  <2>3. Position(c.start, 0, VectorLength(c), 0) \in Iterator
    BY <2>2 DEF Position, Iterator
  <2>4. QED
    BY <1>3, <2>1, <2>3, BeginType DEF VectorChildren
<1>4. CASE DequeChildren
  <2>1. c.template = "deque"
    BY <1>4 DEF DequeChildren, Begin
  <2>2. Position(c.start, c.startNode, c.last, 0) \in Iterator
    BY <1>1, <2>1, DequeShape DEF Position, Iterator
  <2>3. QED
    BY <1>4, <2>1, <2>2, BeginType DEF DequeChildren
<1>5. CASE TreeChildren
  <2>1. c.template \in Trees
    BY <1>5 DEF TreeChildren, Begin
  <2>2. Position(c.left[c.head], 0, 0, 0) \in Iterator
    BY <1>1, <2>1, TreeShape DEF Position, Iterator
  <2>3. QED
    BY <1>5, <2>1, <2>2, BeginType DEF TreeChildren, Trees
<1>6. CASE HashChildren
  <2>1. c.template = "tr1::unordered_set"
    BY <1>6 DEF HashChildren, Begin
  <2>2. PICK b : b = Bucket(c, 1)
    OBVIOUS
  <2>3. c.buckets \in Seq(Int)
    BY <1>1, <2>1, HashShape
  <2>4. Len(c.buckets) \in Nat /\ DOMAIN c.buckets = 1..Len(c.buckets)
    BY <2>3, LenProperties
  <2>5. b \in 1..(Len(c.buckets) + 1)
    BY <2>2, <2>3, <2>4, BucketFound
  <2>6. BucketHead(c, b) \in Int /\ (BucketHead(c, b) # Null => b <= Len(c.buckets))
    BY <2>3, <2>4, <2>5, BucketHeadType
  <2>7. Begin({"tr1::unordered_set"}, Position(BucketHead(c, b), b, 0, 0))
    BY <1>6, <2>2 DEF HashChildren
  <2>8. /\ Position(BucketHead(c, b), b, 0, 0) \in Iterator
        /\ Position(BucketHead(c, b), b, 0, 0).sub = b
        /\ Position(BucketHead(c, b), b, 0, 0).at = BucketHead(c, b)
    BY <2>4, <2>5, <2>6 DEF Position, Iterator
  <2>9. QED
    BY <2>5, <2>6, <2>7, <2>8, BeginType
<1>7. CASE BitVectorChildren
  <2>1. c.template = "vector<bool>"
    BY <1>7 DEF BitVectorChildren, Begin
  <2>2. Position(c.start, c.from, 0, 0) \in Iterator
    BY <1>1, <2>1, BitVectorShape DEF Position, Iterator
  <2>3. QED
    BY <1>7, <2>1, <2>2, BeginType DEF BitVectorChildren
<1>8. CASE NoOperator
  BY <1>8 DEF NoOperator, TypeInv, PlaceInv, DataInv, Final
<1>9. CASE BitsetChildren
  <2>1. c.template = "bitset"
    BY <1>9 DEF BitsetChildren, Begin
  <2>2. c.words[1] \in Nat
    BY <1>1, <2>1, BitsetShape, EmptySeq, LenProperties, ElementOfSeq
  <2>3. Position(0, 0, c.words[1], 1) \in Iterator
    BY <2>2 DEF Position, Iterator
  <2>4. QED
    BY <1>9, <2>1, <2>3, BeginType DEF BitsetChildren
<1>10. CASE TupleChildren
  <2>1. c.template = "tuple"
    BY <1>10 DEF TupleChildren, Begin
  <2>2. NoIterator \in Iterator
    BY DEF NoIterator, Position, Iterator
  <2>3. QED
    BY <1>10, <2>1, <2>2, BeginType DEF TupleChildren
<1>11. QED
  BY <1>2, <1>3, <1>4, <1>5, <1>6, <1>7, <1>8, <1>9, <1>10 DEF Children

\* The dispatch between the printers.
LEMMA DispatchType ==
  ASSUME TypeInv, Dispatch
  PROVE  TypeInv'
<1> USE DEF TypeInv, PlaceInv, DataInv
<1>1. CASE Member
  BY <1>1 DEF Member, Kinds, Final
<1>2. CASE PointerMember \/ PrintPointer
  <2>1. UNCHANGED <<val, said, it, out, followed>>
    BY <1>2 DEF PointerMember, PrintPointer
  <2>2. pc' \in Final
    BY <1>2 DEF PointerMember, PrintPointer, Final
  <2>3. UNCHANGED label \/ \E x : label' = {x}
    BY <1>2 DEF PointerMember, PrintPointer
  <2>4. Cardinality(label') <= 1
    <3>1. CASE UNCHANGED label
      BY <3>1
    <3>2. CASE \E x : label' = {x}
      <4>1. PICK x : label' = {x}
        BY <3>2
      <4>2. Cardinality({x}) = 1
        BY FS_Singleton
      <4>3. QED
        BY <4>1, <4>2
    <3>3. QED
      BY <2>3, <3>1, <3>2
  <2>5. QED
    BY <2>1, <2>2, <2>4 DEF Final
<1>3. CASE PrintStruct
  BY <1>3 DEF PrintStruct, Kinds, Final
<1>4. CASE Announce
  <2>1. Core(val).template \in Container
    BY <1>4, CoreTemplate DEF Announce
  <2>2. said' \in Int
    BY <1>4, <2>1, CoreIsContainer, SizeType DEF Announce
  <2>3. pc' = "children" /\ UNCHANGED <<val, it, out, followed, label>>
    BY <1>4 DEF Announce
  <2>4. QED
    BY <2>1, <2>2, <2>3 DEF Kinds
<1>5. QED
  BY <1>1, <1>2, <1>3, <1>4 DEF Dispatch

\* What an iterator reads of a container of its own kind.
LEMMA ReadingCore ==
  ASSUME TypeInv, NEW T, Reading(T), T \subseteq HasMemory
  PROVE  /\ IsContainer(Core(val)) /\ Core(val).template \in T
         /\ it.at \in Core(val).memory
         /\ it.at \in Int /\ it.sub \in Int /\ it.lim \in Int /\ it.n \in Nat
<1>1. Core(val).template \in Container /\ val \in Value
  BY DEF TypeInv, PlaceInv, Reading, Going
<1>2. IsContainer(Core(val))
  BY <1>1, CoreIsContainer
<1>3. QED
  BY <1>2 DEF TypeInv, DataInv, Iterator, Reading, Going

\* The steps of the iterators that go from element to element.
LEMMA StepsType ==
  ASSUME TypeInv,
         \/ LinkedNext \/ VectorNext \/ DequeNextInBuffer \/ DequeNextBuffer
         \/ HashNextLink \/ HashNextBucket \/ BitVectorNext \/ TupleNext
  PROVE  TypeInv'
<1> DEFINE c == Core(val)
<1>0. it.at \in Int /\ it.sub \in Int /\ it.lim \in Int /\ it.n \in Nat
  BY DEF TypeInv, DataInv, Iterator
<1>1. CASE LinkedNext
  <2>1. Step(Linked, it.at, c.next[it.at], 0, 0)
    BY <1>1 DEF LinkedNext
  <2>2. Reading(Linked) /\ Linked \subseteq HasMemory
    BY <2>1 DEF Step, Linked, NullEnded, HasMemory, Container, Trees, Others
  <2>3. c.next[it.at] \in Int /\ c.template # "tr1::unordered_set"
    BY <2>2, ReadingCore, LinkedShape DEF Linked, NullEnded
  <2>4. QED
    BY <1>0, <2>1, <2>3, StepType
<1>2. CASE VectorNext
  <2>1. Step({"vector"}, it.at, it.at + c.width, 0, it.lim)
    BY <1>2 DEF VectorNext
  <2>2. Reading({"vector"}) /\ {"vector"} \subseteq HasMemory
    BY <2>1 DEF Step, HasMemory, Container
  <2>3. it.at + c.width \in Int /\ c.template # "tr1::unordered_set"
    BY <1>0, <2>2, ReadingCore, VectorShape
  <2>4. QED
    BY <1>0, <2>1, <2>3, StepType
<1>3. CASE DequeNextInBuffer
  <2>1. Step({"deque"}, it.at, it.at + 1, it.sub, it.lim)
    BY <1>3 DEF DequeNextInBuffer
  <2>2. c.template # "tr1::unordered_set"
    BY <2>1 DEF Step, Reading, Going
  <2>3. QED
    BY <1>0, <2>1, <2>2, StepType
<1>4. CASE DequeNextBuffer
  <2>1. /\ it.sub + 1 \in DOMAIN c.map
        /\ Step({"deque"}, it.at, c.map[it.sub + 1], it.sub + 1,
                c.map[it.sub + 1] + c.buffer)
    BY <1>4 DEF DequeNextBuffer
  <2>2. Reading({"deque"}) /\ {"deque"} \subseteq HasMemory
    BY <2>1 DEF Step, HasMemory, Container
  <2>3. IsContainer(c) /\ c.template = "deque"
    BY <2>2, ReadingCore
  <2>4. c.map[it.sub + 1] \in Int /\ c.buffer \in Int
    BY <2>1, <2>3, DequeShape
  <2>5. c.map[it.sub + 1] + c.buffer \in Int
    BY <2>4
  <2>6. QED
    BY <1>0, <2>1, <2>3, <2>4, <2>5, StepType
<1>5. CASE HashNextLink
  <2>1. /\ c.next[it.at] # Null
        /\ Step({"tr1::unordered_set"}, it.at, c.next[it.at], it.sub, 0)
    BY <1>5 DEF HashNextLink
  <2>2. Reading({"tr1::unordered_set"}) /\ {"tr1::unordered_set"} \subseteq HasMemory
    BY <2>1 DEF Step, HasMemory, Container, Others
  <2>3. IsContainer(c) /\ c.template = "tr1::unordered_set" /\ it.at \in c.memory
    BY <2>2, ReadingCore
  <2>4. c.next[it.at] \in Int
    BY <2>3, HashShape
  <2>5. it.at # Null /\ HashAt(c)
    BY <2>2, <2>3
      DEF Reading, Going, Exhausted, NullEnded, Trees, TypeInv, PlaceInv
  <2>6. QED
    BY <1>0, <2>1, <2>4, <2>5, StepType DEF HashAt
<1>6. CASE HashNextBucket
  <2>0. PICK b : b = Bucket(c, it.sub + 1)
    OBVIOUS
  <2>1. Step({"tr1::unordered_set"}, it.at, BucketHead(c, b), b, 0)
    BY <1>6, <2>0 DEF HashNextBucket
  <2>2. Reading({"tr1::unordered_set"}) /\ {"tr1::unordered_set"} \subseteq HasMemory
    BY <2>1 DEF Step, HasMemory, Container, Others
  <2>3. IsContainer(c) /\ c.template = "tr1::unordered_set" /\ it.at \in c.memory
    BY <2>2, ReadingCore
  <2>4. c.buckets \in Seq(Int) /\ Len(c.buckets) \in Nat
    BY <2>3, HashShape, LenProperties
  <2>5. it.at # Null /\ HashAt(c)
    BY <2>2, <2>3
      DEF Reading, Going, Exhausted, NullEnded, Trees, TypeInv, PlaceInv
  <2>6. it.sub + 1 \in 1..(Len(c.buckets) + 1)
    BY <2>4, <2>5 DEF HashAt
  <2>7. b \in 1..(Len(c.buckets) + 1)
    BY <2>0, <2>4, <2>6, BucketFound
  <2>8. BucketHead(c, b) \in Int /\ (BucketHead(c, b) # Null => b <= Len(c.buckets))
    BY <2>4, <2>7, BucketHeadType
  <2>9. QED
    BY <1>0, <2>1, <2>7, <2>8, StepType
<1>7. CASE BitVectorNext
  <2>1. PICK e, a, s : /\ e = it.at * c.bits + it.sub
                       /\ a = IF LastBit THEN it.at + 1 ELSE it.at
                       /\ s = IF LastBit THEN 0 ELSE it.sub + 1
    OBVIOUS
  <2>2. Step({"vector<bool>"}, e, a, s, 0)
    BY <1>7, <2>1 DEF BitVectorNext
  <2>3. Reading({"vector<bool>"}) /\ {"vector<bool>"} \subseteq HasMemory
    BY <2>2 DEF Step, HasMemory, Container, Others
  <2>4. c.bits \in Int /\ c.template # "tr1::unordered_set"
    BY <2>3, ReadingCore, BitVectorShape
  <2>5. e \in Int /\ a \in Int /\ s \in Int
    BY <1>0, <2>1, <2>4
  <2>6. QED
    BY <2>2, <2>4, <2>5, StepType
<1>8. CASE TupleNext
  <2>1. Step({"tuple"}, it.n + 1, 0, 0, 0)
    BY <1>8 DEF TupleNext
  <2>2. c.template # "tr1::unordered_set"
    BY <2>1 DEF Step, Reading, Going
  <2>3. QED
    BY <1>0, <2>1, <2>2, StepType
<1>9. QED
  BY <1>1, <1>2, <1>3, <1>4, <1>5, <1>6, <1>7, <1>8

\* A tree's iterator returns an element.
LEMMA ReturnType ==
  ASSUME TypeInv, NEW next \in Int, Return(next), Core(val).template \in Trees,
         UNCHANGED <<val, said, followed, label>>
  PROVE  TypeInv'
<1>1. it' = Position(next, 0, 0, it.n + 1) /\ it.at \in Int /\ it.n + 1 \in Nat
  BY DEF TypeInv, DataInv, Return, Iterator
<1>2. it' \in Iterator
  BY <1>1 DEF Position, Iterator
<1>3. out' \in Seq(Int) /\ Len(out') <= MaxItems
  BY <1>1, YieldType DEF Return
<1>4. PlaceInv'
  BY DEF TypeInv, PlaceInv, Return, Kinds, Trees, Container
<1>5. DataInv'
  BY <1>2, <1>3 DEF TypeInv, DataInv
<1>6. QED
  BY <1>4, <1>5 DEF TypeInv

\* A tree's iterator goes to another place of its search.
LEMMA SearchType ==
  ASSUME TypeInv, NEW a \in Int, NEW s \in Int, NEW l \in Int,
         it' = Position(a, s, l, it.n), pc' \in {"down", "up"},
         Core(val).template \in Trees, UNCHANGED <<val, said, out, followed, label>>
  PROVE  TypeInv'
<1>1. it' \in Iterator
  BY DEF Position, Iterator, TypeInv, DataInv
<1>2. PlaceInv'
  BY DEF TypeInv, PlaceInv, Kinds, Trees, Container
<1>3. DataInv'
  BY <1>1 DEF TypeInv, DataInv
<1>4. QED
  BY <1>2, <1>3 DEF TypeInv

LEMMA TreesType ==
  ASSUME TypeInv, TreeNext \/ TreeDown \/ TreeUp
  PROVE  TypeInv'
<1> DEFINE t == Core(val)
<1>0. it.at \in Int /\ it.sub \in Int /\ it.lim \in Int /\ it.n \in Nat
  BY DEF TypeInv, DataInv, Iterator
<1>1. t.template \in Trees /\ val \in Value /\ UNCHANGED <<val, said, followed, label>>
  BY DEF TypeInv, PlaceInv, TreeNext, TreeDown, TreeUp, Reading, Going
<1>2. IsContainer(t)
  BY <1>1, CoreIsContainer DEF Container
<1>3. /\ t.memory \subseteq Int
      /\ \A a \in t.memory : t.left[a] \in Int /\ t.right[a] \in Int
                             /\ t.parent[a] \in Int
  BY <1>1, <1>2, TreeShape
<1>4. CASE TreeNext
  <2>1. Trees \subseteq HasMemory
    BY DEF HasMemory, Container, Trees
  <2>2. it.at \in t.memory
    BY <1>4, <2>1 DEF TreeNext, Reading
  <2>3. CASE it.n + 1 = t.count
    BY <1>0, <1>1, <1>4, <2>3, ReturnType DEF TreeNext
  <2>4. CASE it.n + 1 # t.count /\ t.right[it.at] # Null
    <3>1. /\ pc' = "down" /\ it' = Position(it.at, t.right[it.at], 0, it.n)
          /\ UNCHANGED out
      BY <1>4, <2>4 DEF TreeNext
    <3>2. QED
      BY <1>0, <1>1, <1>3, <2>2, <3>1, SearchType
  <2>5. CASE it.n + 1 # t.count /\ t.right[it.at] = Null
    <3>1. /\ pc' = "up" /\ it' = Position(it.at, it.at, t.parent[it.at], it.n)
          /\ UNCHANGED out
      BY <1>4, <2>5 DEF TreeNext
    <3>2. QED
      BY <1>0, <1>1, <1>3, <2>2, <3>1, SearchType
  <2>6. QED
    BY <2>3, <2>4, <2>5
<1>5. CASE TreeDown
  <2>1. it.sub \in t.memory /\ pc = "down"
    BY <1>5 DEF TreeDown
  <2>2. CASE t.left[it.sub] # Null
    <3>1. /\ pc' = "down" /\ it' = Position(it.at, t.left[it.sub], 0, it.n)
          /\ UNCHANGED out
      BY <1>5, <2>1, <2>2 DEF TreeDown
    <3>2. QED
      BY <1>0, <1>1, <1>3, <2>1, <3>1, SearchType
  <2>3. CASE t.left[it.sub] = Null
    BY <1>0, <1>1, <1>5, <2>3, ReturnType DEF TreeDown
  <2>4. QED
    BY <2>2, <2>3
<1>6. CASE TreeUp
  <2>1. it.lim \in t.memory /\ pc = "up"
    BY <1>6 DEF TreeUp
  <2>2. CASE it.sub = t.right[it.lim]
    <3>1. /\ pc' = "up" /\ it' = Position(it.at, it.lim, t.parent[it.lim], it.n)
          /\ UNCHANGED out
      BY <1>6, <2>1, <2>2 DEF TreeUp
    <3>2. QED
      BY <1>0, <1>1, <1>3, <2>1, <3>1, SearchType
  <2>3. CASE it.sub # t.right[it.lim]
    <3>1. PICK a : a = IF t.right[it.sub] # it.lim THEN it.lim ELSE it.sub
      OBVIOUS
    <3>2. a \in Int /\ Return(a)
      BY <1>0, <1>6, <2>3, <3>1 DEF TreeUp
    <3>3. QED
      BY <1>1, <3>2, ReturnType
  <2>4. QED
    BY <2>2, <2>3
<1>7. QED
  BY <1>4, <1>5, <1>6

\* The word of a bitset.
LEMMA BitsetType ==
  ASSUME TypeInv, BitsetNext
  PROVE  TypeInv'
<1> DEFINE c == Core(val)
<1>0. it.at \in Int /\ it.sub \in Int /\ it.lim \in Int /\ it.n \in Nat
  BY DEF TypeInv, DataInv, Iterator
<1>1. c.template = "bitset" /\ val \in Value /\ pc = "next"
  BY DEF BitsetNext, Going, TypeInv, PlaceInv
<1>2. c.words \in Seq(Nat) /\ c.bits \in Nat
  BY <1>1, CoreIsContainer, BitsetShape DEF Container, Others
<1>3. Len(c.words) \in Nat /\ \A i \in 1..Len(c.words) : c.words[i] \in Nat
  BY <1>2, LenProperties, ElementOfSeq
<1>4. it' \in Iterator
  <2>1. CASE it.lim # 0
    <3>1. it' = Position(0, it.sub + 1, it.lim \div 2, it.n)
      BY <2>1 DEF BitsetNext
    <3>2. QED
      BY <1>0, <3>1 DEF Position, Iterator
  <2>2. CASE it.lim = 0
    <3>1. PICK l : l = IF it.n < Len(c.words) THEN c.words[it.n + 1] ELSE 0
      OBVIOUS
    <3>2. it' = Position(0, 0, l, it.n + 1)
      BY <2>2, <3>1 DEF BitsetNext
    <3>3. l \in Int
      BY <1>0, <1>3, <3>1
    <3>4. QED
      BY <1>0, <3>2, <3>3 DEF Position, Iterator
  <2>3. QED
    BY <2>1, <2>2
<1>5. out' \in Seq(Int) /\ Len(out') <= MaxItems
  <2>1. BitNumber \in Int
    BY <1>0, <1>2 DEF BitNumber
  <2>2. QED
    BY <2>1, YieldType DEF BitsetNext, TypeInv, DataInv
<1>6. PlaceInv'
  BY <1>1 DEF BitsetNext, TypeInv, PlaceInv, Kinds
<1>7. DataInv'
  BY <1>4, <1>5 DEF BitsetNext, TypeInv, DataInv
<1>8. QED
  BY <1>6, <1>7 DEF TypeInv

\* The elements of a vector that printer() follows.
LEMMA FollowType ==
  ASSUME TypeInv, Follow
  PROVE  TypeInv'
<1>1. val \in Value /\ val.pointers /\ pc = "follow"
  BY DEF Follow, FollowElement, FollowFails, FollowEnds, TypeInv, PlaceInv
<1>2. IsContainer(val) /\ val.template = "vector"
  BY <1>1, ValueAssumption DEF IsValue, Container
<1>3. val.start \in Int /\ val.width \in Nat
  BY <1>2, VectorShape
<1>4. followed \in Seq(Int)
  BY DEF TypeInv, DataInv
<1>5. PICK i : i = Len(followed)
  OBVIOUS
<1>6. i \in Nat
  BY <1>4, <1>5, LenProperties
<1>7. \/ followed' = Append(followed, val.start + i * val.width) /\ UNCHANGED pc
      \/ followed' = followed /\ pc' = "done"
  BY <1>5 DEF Follow, FollowElement, FollowFails, FollowEnds, Element
<1>8. val.start + i * val.width \in Int
  BY <1>3, <1>6
<1>9. followed' \in Seq(Int)
  BY <1>4, <1>7, <1>8, AppendProperties
<1>10. PlaceInv'
  BY <1>1, <1>7 DEF Follow, FollowElement, FollowFails, FollowEnds, TypeInv,
     PlaceInv, Kinds, Final
<1>11. DataInv'
  BY <1>9 DEF Follow, FollowElement, FollowFails, FollowEnds, TypeInv, DataInv
<1>12. QED
  BY <1>10, <1>11 DEF TypeInv

LEMMA TypeNext == TypeInv /\ [Next]_vars => TypeInv'
<1> SUFFICES ASSUME TypeInv, [Next]_vars PROVE TypeInv'
  OBVIOUS
<1>1. CASE Dispatch
  BY <1>1, DispatchType
<1>2. CASE Children
  BY <1>2, ChildrenType
<1>3. CASE Listing
  <2>1. CASE Stop \/ Unreadable \/ DequeMapUnreadable \/ TreeUnreadable
    BY <2>1 DEF Stop, Unreadable, DequeMapUnreadable, TreeUnreadable, TypeInv,
         PlaceInv, DataInv, Kinds, Final
  <2>2. CASE Follow
    BY <2>2, FollowType
  <2>3. CASE BitsetNext
    BY <2>3, BitsetType
  <2>4. CASE TreeNext \/ TreeDown \/ TreeUp
    BY <2>4, TreesType
  <2>5. QED
    BY <1>3, <2>1, <2>2, <2>3, <2>4, StepsType DEF Listing
<1>4. CASE UNCHANGED vars
  BY <1>4 DEF vars, TypeInv, PlaceInv, DataInv, HashAt
<1>5. QED
  BY <1>1, <1>2, <1>3, <1>4 DEF Next, Ended

\* Every variable keeps its type, for every set of values, live or dead: no
\* printer computes anything but addresses and numbers from what it reads.
THEOREM TypeCorrect == Spec => []TypeOK
<1>1. Spec => []TypeInv
  BY TypeInit, TypeNext, PTL DEF Spec
<1>2. QED
  BY <1>1, TypeInvImplies, PTL

\* One value is printed in a behaviour.
LEMMA ValueKept == [Next]_vars => val' = val
<1> SUFFICES ASSUME [Next]_vars PROVE val' = val
  OBVIOUS
<1>1. CASE Dispatch
  BY <1>1 DEF Dispatch, Member, PointerMember, PrintPointer, PrintStruct, Announce
<1>2. CASE Children
  BY <1>2 DEF Children, LinkedChildren, VectorChildren, DequeChildren, TreeChildren,
       HashChildren, BitVectorChildren, NoOperator, BitsetChildren, TupleChildren, Begin
<1>3. CASE Listing
  <2>1. CASE \/ LinkedNext \/ VectorNext \/ DequeNextInBuffer \/ DequeNextBuffer
             \/ HashNextLink \/ HashNextBucket \/ BitVectorNext \/ TupleNext
    BY <2>1 DEF LinkedNext, VectorNext, DequeNextInBuffer, DequeNextBuffer,
         HashNextLink, HashNextBucket, BitVectorNext, TupleNext, Step
  <2>2. CASE Stop \/ Follow \/ Unreadable \/ DequeMapUnreadable \/ BitsetNext
             \/ TreeNext \/ TreeDown \/ TreeUp \/ TreeUnreadable
    BY <2>2 DEF Stop, Follow, FollowElement, FollowFails, FollowEnds, Unreadable,
       DequeMapUnreadable, BitsetNext,
         TreeNext, TreeDown, TreeUp, TreeUnreadable
  <2>3. QED
    BY <1>3, <2>1, <2>2 DEF Listing
<1>4. CASE UNCHANGED vars
  BY <1>4 DEF vars
<1>5. QED
  BY <1>1, <1>2, <1>3, <1>4 DEF Next, Ended

----------------------------------------------------------------------------
(* Labels.                                                                 *)

\* A block in another execution: it is as large, and further on.
LEMMA BlockMoves ==
  ASSUME NEW l \in Layout, NEW by, NEW b \in l.heap
  PROVE  /\ b.begin \in Nat /\ b.size \in Nat
         /\ BlockMoved(l, by, b).begin = b.begin + by.heap
         /\ BlockMoved(l, by, b).size = b.size
BY DEF Layout, Block, BlockMoved

\* What is at an address in another execution: the same blocks, elsewhere.
LEMMA SameBlocks ==
  ASSUME NEW v \in Value, v.template = "pointer", v.addr2 = v.addr + v.by.heap
  PROVE  /\ \A b \in BlocksAt(v.layout, v.addr) :
              BlockMoved(v.layout, v.by, b) \in BlocksAt(v.layout2, v.addr2)
         /\ \A c \in BlocksAt(v.layout2, v.addr2) :
              \E b \in BlocksAt(v.layout, v.addr) : c = BlockMoved(v.layout, v.by, b)
<1> DEFINE l == v.layout
           m == v.layout2
           Moves(b) == BlockMoved(l, v.by, b)
<1>1. /\ Moved(v) /\ l \in Layout /\ m \in Layout
      /\ v.addr \in Int /\ v.addr2 \in Int /\ v.by.heap \in Int
  BY ValueAssumption DEF IsValue, Adaptor, Container, Linked, NullEnded, Trees, Others
<1>2. m.heap = {Moves(b) : b \in l.heap}
  BY <1>1 DEF Moved
<1>3. \A b \in l.heap : /\ b.begin \in Nat /\ b.size \in Nat
                        /\ Moves(b).begin = b.begin + v.by.heap /\ Moves(b).size = b.size
  BY <1>1, BlockMoves
<1> HIDE DEF Moves
<1>4. \A b \in l.heap : b \in BlocksAt(l, v.addr) <=> Moves(b) \in BlocksAt(m, v.addr2)
  <2>1. TAKE b \in l.heap
  <2>2. /\ b.begin \in Int /\ b.size \in Int /\ Moves(b) \in m.heap
        /\ Moves(b).begin = b.begin + v.by.heap /\ Moves(b).size = b.size
    BY <1>2, <1>3
  <2>3. b \in BlocksAt(l, v.addr) <=> b.begin <= v.addr /\ v.addr <= b.begin + b.size
    BY DEF BlocksAt
  <2>4. Moves(b) \in BlocksAt(m, v.addr2)
          <=> Moves(b).begin <= v.addr2 /\ v.addr2 <= Moves(b).begin + Moves(b).size
    BY <2>2 DEF BlocksAt
  <2>5. QED
    BY <1>1, <2>2, <2>3, <2>4
<1>5. /\ \A b \in BlocksAt(l, v.addr) : b \in l.heap
      /\ \A c \in BlocksAt(m, v.addr2) : c \in m.heap
  BY DEF BlocksAt
<1>6. /\ \A b \in BlocksAt(l, v.addr) : Moves(b) \in BlocksAt(m, v.addr2)
      /\ \A c \in BlocksAt(m, v.addr2) : \E b \in BlocksAt(l, v.addr) : c = Moves(b)
  BY <1>2, <1>4, <1>5
<1>7. QED
  BY <1>6 DEF Moves

\* The first of the blocks at an address.
First(m, a) ==
  CHOOSE b \in BlocksAt(m, a) : \A c \in BlocksAt(m, a) : b.begin <= c.begin

LEMMA FirstBlock ==
  ASSUME NEW m \in Layout, NEW a \in Int, BlocksAt(m, a) # {}
  PROVE  /\ First(m, a) \in BlocksAt(m, a)
         /\ \A c \in BlocksAt(m, a) : First(m, a).begin <= c.begin
<1> DEFINE T == {b.begin : b \in BlocksAt(m, a)}
<1>1. T \subseteq Nat /\ T # {}
  <2>1. \A b \in BlocksAt(m, a) : b \in m.heap
    BY DEF BlocksAt
  <2>2. \A b \in m.heap : b \in Block
    BY DEF Layout
  <2>3. \A b \in BlocksAt(m, a) : b.begin \in Nat
    BY <2>1, <2>2 DEF Block
  <2>4. QED
    BY <2>3
<1>2. PICK n \in T : \A x \in T : n <= x
  BY <1>1, LeastNat
<1>3. \E b \in BlocksAt(m, a) : \A c \in BlocksAt(m, a) : b.begin <= c.begin
  BY <1>2
<1>4. QED
  BY <1>3 DEF First

\* Two executions agree on the first of the blocks at the address of an object.
LEMMA FirstMoves ==
  ASSUME NEW v \in Value, v.template = "pointer", v.addr2 = v.addr + v.by.heap,
         BlocksAt(v.layout, v.addr) # {}
  PROVE  /\ BlocksAt(v.layout2, v.addr2) # {}
         /\ First(v.layout, v.addr) \in v.layout.heap
         /\ First(v.layout2, v.addr2)
              = BlockMoved(v.layout, v.by, First(v.layout, v.addr))
<1> DEFINE l == v.layout
           m == v.layout2
<1>1. /\ Moved(v) /\ l \in Layout /\ m \in Layout
      /\ v.addr \in Int /\ v.addr2 \in Int /\ v.by.heap \in Int
  BY ValueAssumption DEF IsValue, Adaptor, Container, Linked, NullEnded, Trees, Others
<1>2. PICK b : b = First(l, v.addr)
  OBVIOUS
<1>3. b \in BlocksAt(l, v.addr) /\ \A c \in BlocksAt(l, v.addr) : b.begin <= c.begin
  BY <1>1, <1>2, FirstBlock
<1>4. b \in l.heap
  BY <1>3 DEF BlocksAt
<1>5. PICK b2 : b2 = BlockMoved(l, v.by, b)
  OBVIOUS
<1>6. b2 \in BlocksAt(m, v.addr2)
  BY <1>3, <1>5, SameBlocks
<1>7. PICK f : f = First(m, v.addr2)
  OBVIOUS
<1>8. f \in BlocksAt(m, v.addr2) /\ \A c \in BlocksAt(m, v.addr2) : f.begin <= c.begin
  BY <1>1, <1>6, <1>7, FirstBlock
<1>9. PICK d \in BlocksAt(l, v.addr) : f = BlockMoved(l, v.by, d)
  BY <1>8, SameBlocks
<1>10. d \in l.heap
  BY <1>9 DEF BlocksAt
<1>11. /\ b.begin \in Nat /\ d.begin \in Nat
       /\ b2.begin = b.begin + v.by.heap /\ f.begin = d.begin + v.by.heap
  BY <1>1, <1>4, <1>5, <1>9, <1>10, BlockMoves
<1>12. f.begin <= b2.begin /\ b.begin <= d.begin
  BY <1>3, <1>6, <1>8, <1>9
<1>13. b.begin = d.begin
  BY <1>1, <1>11, <1>12
<1>14. b = d
  BY <1>1, <1>4, <1>10, <1>13 DEF Moved
<1>15. QED
  BY <1>2, <1>4, <1>5, <1>6, <1>7, <1>9, <1>14

\* The identifier of a block does not change if neither image nor libraries move.
LEMMA SameId ==
  ASSUME NEW l \in Layout, NEW by, NEW b \in l.heap, by.image = 0, by.library = 0
  PROVE  AllocId(BlockMoved(l, by, b)) = AllocId(b)
<1>1. b.call1 \in Nat /\ b.call2 \in Nat
  BY DEF Layout, Block
<1>2. CallMoved(l, by, b.call1) = b.call1 /\ CallMoved(l, by, b.call2) = b.call2
  BY <1>1 DEF CallMoved
<1>3. PICK c : c = BlockMoved(l, by, b)
  OBVIOUS
<1>4. c.call1 = b.call1 /\ c.call2 = b.call2 /\ c.count = b.count
  BY <1>2, <1>3 DEF BlockMoved
<1>5. QED
  BY <1>3, <1>4 DEF AllocId

\* Two executions that differ in where things are loaded label the pointers to
\* one object in the same way, but for the identifier of a block.
LEMMA SameLabel ==
  ASSUME NEW v \in Value, v.template = "pointer"
  PROVE  /\ Whereabouts(Label(v.layout, v.addr)) = Whereabouts(Label(v.layout2, v.addr2))
         /\ v.by.image = 0 /\ v.by.library = 0 =>
              Label(v.layout, v.addr) = Label(v.layout2, v.addr2)
<1> DEFINE l == v.layout
           m == v.layout2
<1>1. /\ Moved(v) /\ l \in Layout /\ m \in Layout
      /\ v.addr \in Int /\ v.addr2 \in Int
      /\ v.by.heap \in Int /\ v.by.stack \in Int /\ v.by.image \in Int
  BY ValueAssumption DEF IsValue, Adaptor, Container, Linked, NullEnded, Trees, Others
<1>2. CASE BlocksAt(l, v.addr) # {} /\ v.addr2 = v.addr + v.by.heap
  <2>1. PICK b : b = First(l, v.addr)
    OBVIOUS
  <2>2. PICK f : f = BlockMoved(l, v.by, b)
    OBVIOUS
  <2>3. b \in l.heap /\ BlocksAt(m, v.addr2) # {} /\ f = First(m, v.addr2)
    BY <1>2, <2>1, <2>2, FirstMoves
  <2>4. b.begin \in Nat /\ f.begin = b.begin + v.by.heap /\ f.size = b.size
    <3>1. b \in l.heap /\ l \in Layout
      BY <1>1, <2>3
    <3>2. /\ b.begin \in Nat
          /\ BlockMoved(l, v.by, b).begin = b.begin + v.by.heap
          /\ BlockMoved(l, v.by, b).size = b.size
      BY <3>1, BlockMoves
    <3>3. QED
      BY <2>2, <3>2
  <2>5. Label(l, v.addr) = [area |-> "HEAP", id |-> AllocId(b), size |-> b.size,
                            off |-> v.addr - b.begin]
    BY <1>2, <2>1 DEF Label, First
  <2>6. Label(m, v.addr2) = [area |-> "HEAP", id |-> AllocId(f), size |-> f.size,
                             off |-> v.addr2 - f.begin]
    BY <2>3 DEF Label, First
  <2>7. v.addr - b.begin = v.addr2 - f.begin
    BY <1>1, <1>2, <2>4
  <2>8. v.by.image = 0 /\ v.by.library = 0 => AllocId(f) = AllocId(b)
    <3>1. b \in l.heap /\ l \in Layout
      BY <1>1, <2>3
    <3>2. SUFFICES ASSUME v.by.image = 0, v.by.library = 0
                   PROVE  AllocId(f) = AllocId(b)
      OBVIOUS
    <3>3. AllocId(BlockMoved(l, v.by, b)) = AllocId(b)
      BY <3>1, <3>2, SameId
    <3>4. QED
      BY <2>2, <3>3
  <2>9. QED
    BY <2>4, <2>5, <2>6, <2>7, <2>8 DEF Whereabouts
<1>3. CASE /\ BlocksAt(l, v.addr) = {} /\ BlocksAt(m, v.addr2) = {}
           /\ v.addr2 = v.addr + v.by.stack
           /\ InStack(l, v.addr) /\ InStack(m, v.addr2)
  <2>1. m.stack.begin = l.stack.begin + v.by.stack /\ l.stack.begin \in Int
    BY <1>1 DEF Moved, Layout, Segment
  <2>2. m.stack.begin - v.addr2 = l.stack.begin - v.addr
    BY <1>1, <1>3, <2>1
  <2>3. Label(l, v.addr) = Label(m, v.addr2)
    BY <1>3, <2>2 DEF Label, OutsideHeapLabel
  <2>4. QED
    BY <2>3
<1>4. CASE /\ BlocksAt(l, v.addr) = {} /\ BlocksAt(m, v.addr2) = {}
           /\ v.addr2 = v.addr + v.by.image
           /\ ~InStack(l, v.addr) /\ ~InStack(m, v.addr2)
  <2>1. \A s \in Section : /\ l.section[s].begin \in Int /\ l.section[s].end \in Int
                           /\ m.section[s].begin = l.section[s].begin + v.by.image
                           /\ m.section[s].end = l.section[s].end + v.by.image
    <3>1. TAKE s \in Section
    <3>2. /\ l.section \in [Section -> Segment]
          /\ m.section = [x \in Section |->
                            [begin |-> l.section[x].begin + v.by.image,
                             end |-> l.section[x].end + v.by.image]]
      BY <1>1 DEF Moved, Layout
    <3>3. l.section[s] \in Segment
      BY <3>2
    <3>4. m.section[s] = [begin |-> l.section[s].begin + v.by.image,
                          end |-> l.section[s].end + v.by.image]
      BY <3>2
    <3>5. QED
      BY <3>3, <3>4 DEF Segment
  <2>2. \A s \in Section : /\ In(v.addr, l.section[s]) <=> In(v.addr2, m.section[s])
                           /\ v.addr - l.section[s].begin = v.addr2 - m.section[s].begin
    BY <1>1, <1>4, <2>1 DEF In
  <2>3. SectionOf(l, v.addr) = SectionOf(m, v.addr2)
    BY <2>2 DEF SectionOf, Section
  <2>4. SectionOf(l, v.addr) \in Section \cup {"ANY"}
    BY DEF SectionOf, Section
  <2>5. OutsideHeapLabel(l, v.addr) = OutsideHeapLabel(m, v.addr2)
    BY <1>4, <2>2, <2>3, <2>4 DEF OutsideHeapLabel
  <2>6. Label(l, v.addr) = Label(m, v.addr2)
    BY <1>4, <2>5 DEF Label
  <2>7. QED
    BY <2>6
<1>5. QED
  BY <1>1, <1>2, <1>3, <1>4 DEF Moved

\* What has been printed of a pointer is its label.
LabelInv ==
  /\ val \in Value
  /\ pc = "member" => val.member
  /\ val.template = "pointer" => label \subseteq {Label(val.layout, val.addr)}

LEMMA LabelInit == Init => LabelInv
BY ValueAssumption DEF Init, LabelInv, IsValue

LEMMA LabelNext == LabelInv /\ [Next]_vars => LabelInv'
<1> SUFFICES ASSUME LabelInv, [Next]_vars PROVE LabelInv'
  OBVIOUS
<1> USE DEF LabelInv
<1>1. CASE PointerMember
  <2>1. BlocksAt(val.layout, val.addr) = {}
    BY <1>1, ValueAssumption DEF PointerMember, IsValue
  <2>2. Label(val.layout, val.addr) = OutsideHeapLabel(val.layout, val.addr)
    BY <2>1 DEF Label
  <2>3. QED
    BY <1>1, <2>2 DEF PointerMember
<1>2. CASE PrintPointer
  BY <1>2 DEF PrintPointer
<1>3. CASE Member \/ PrintStruct \/ Announce
  BY <1>3 DEF Member, PrintStruct, Announce
<1>4. CASE Children
  BY <1>4 DEF Children, LinkedChildren, VectorChildren, DequeChildren, TreeChildren,
       HashChildren, BitVectorChildren, NoOperator, BitsetChildren, TupleChildren, Begin
<1>5. CASE Listing
  BY <1>5 DEF Listing, Stop, Follow, FollowElement, FollowFails, FollowEnds,
     Unreadable, LinkedNext, VectorNext,
       DequeNextInBuffer, DequeNextBuffer, DequeMapUnreadable, HashNextLink,
       HashNextBucket, BitVectorNext, TupleNext, BitsetNext, TreeNext, TreeDown, TreeUp,
       TreeUnreadable, Step, Return, Going, Reading
<1>6. CASE UNCHANGED vars
  BY <1>6 DEF vars
<1>7. QED
  BY <1>1, <1>2, <1>3, <1>4, <1>5, <1>6 DEF Next, Dispatch, Ended

\* The label behind an address says of the object where it is in a block, a section
\* or the stack, and says the same in two executions, wherever image, libraries,
\* stack and heap are loaded and however deep the stack is.  The identifier of a block
\* is the same, too, unless the image or a library has moved: it is made of return
\* addresses.  The address in front of the label is not the same, of course.
THEOREM LabelsAreStable == Spec => []LabelsMove
<1>1. Spec => []LabelInv
  BY LabelInit, LabelNext, PTL DEF Spec
<1>2. LabelInv => LabelsMove
  BY SameLabel DEF LabelInv, LabelsMove
<1>3. QED
  BY <1>1, <1>2, PTL

----------------------------------------------------------------------------
(* Dead vectors and trees.                                                 *)

\* A vector and a tree count what they list, up to what was announced.
Counts ==
  /\ pc \in {"member", "print", "children", "hidden"} => out = <<>>
  /\ pc = "children" => said = Size(Core(val))
  /\ pc \in {"next", "down", "up"} =>
       /\ it.n = Len(out)
       /\ Core(val).template = "vector" => it.lim = said
       /\ Core(val).template \in Trees => said = Core(val).count
  /\ pc \in {"down", "up"} => it.n < said
  /\ Len(out) = 0 \/ Len(out) <= said

BoundInv == Core(val).template \in Trees \cup {"vector"} => Counts

LEMMA BoundInit == Init => BoundInv
<1> SUFFICES ASSUME Init PROVE BoundInv
  OBVIOUS
<1>1. Len(<<>>) = 0
  BY EmptySeq
<1>2. QED
  BY <1>1 DEF Init, BoundInv, Counts

\* An iterator that counts returns an element only below the bound.
LEMMA YieldCounts ==
  ASSUME TypeInv, NEW e \in Int, Yield(e)
  PROVE  Len(out') = Len(out) + 1 /\ Len(out) \in Nat
<1>1. out \in Seq(Int)
  BY DEF TypeInv, DataInv
<1>2. QED
  BY <1>1, AppendProperties, LenProperties DEF Yield

LEMMA BoundVector ==
  ASSUME TypeInv, BoundInv, Core(val).template = "vector", [Next]_vars
  PROVE  Counts'
<1> DEFINE c == Core(val)
<1>0. /\ Counts /\ it.n \in Nat /\ it.lim \in Int /\ it.at \in Int /\ said \in Int
      /\ Len(out) \in Nat
  BY LenProperties DEF BoundInv, TypeInv, DataInv, Iterator
<1>00. c.template \notin Trees \cup Linked
  BY DEF Trees, Linked, NullEnded
<1>1. CASE Dispatch
  BY <1>0, <1>1, <1>00 DEF Dispatch, Member, PointerMember, PrintPointer, PrintStruct,
       Announce, Counts, PrinterFor, Core, Counted, Container
<1>2. CASE Children
  <2>1. VectorChildren
    BY <1>2, <1>00 DEF Children, LinkedChildren, DequeChildren, TreeChildren,
       HashChildren, BitVectorChildren, NoOperator, BitsetChildren, TupleChildren, Begin
  <2>2. /\ pc = "children" /\ pc' = "next" /\ UNCHANGED <<val, said, out>>
        /\ it' = Position(c.start, 0, VectorLength(c), 0)
    BY <2>1 DEF VectorChildren, Begin
  <2>3. said = VectorLength(c) /\ out = <<>>
    BY <1>0, <2>2 DEF Counts, Size
  <2>4. it'.n = 0 /\ it'.lim = said
    BY <2>2, <2>3 DEF Position
  <2>5. Len(<<>>) = 0
    BY EmptySeq
  <2>6. QED
    BY <1>0, <1>00, <2>2, <2>3, <2>4, <2>5 DEF Counts
<1>3. CASE VectorNext
  <2>1. Step({"vector"}, it.at, it.at + c.width, 0, it.lim)
    BY <1>3 DEF VectorNext
  <2>2. /\ pc = "next" /\ pc' = pc /\ UNCHANGED <<val, said>>
        /\ Yield(it.at) /\ it' = Position(it.at + c.width, 0, it.lim, it.n + 1)
        /\ ~Exhausted(c)
    BY <2>1 DEF Step, Reading, Going
  <2>3. ~(it.n >= it.lim)
    BY <1>00, <2>2 DEF Exhausted, Linked
  <2>4. Len(out') = Len(out) + 1
    BY <1>0, <2>2, YieldCounts
  <2>5. it'.n = it.n + 1 /\ it'.lim = it.lim
    BY <2>2 DEF Position
  <2>6. it.n = Len(out) /\ it.lim = said
    BY <1>0, <2>2 DEF Counts
  <2>7. Len(out') <= said
    BY <1>0, <2>3, <2>4, <2>6
  <2>8. QED
    BY <1>0, <1>00, <2>2, <2>4, <2>5, <2>6, <2>7 DEF Counts
<1>4. CASE Stop \/ Follow \/ Unreadable
  BY <1>0, <1>00, <1>4 DEF Stop, Follow, FollowElement, FollowFails, FollowEnds,
     Unreadable, Counts
<1>5. CASE UNCHANGED vars
  BY <1>0, <1>5 DEF vars, Counts
<1>6. ~(LinkedNext \/ DequeNextInBuffer \/ DequeNextBuffer \/ DequeMapUnreadable
        \/ HashNextLink \/ HashNextBucket \/ BitVectorNext \/ TupleNext \/ BitsetNext
        \/ TreeNext \/ TreeDown \/ TreeUp \/ TreeUnreadable)
  BY <1>00 DEF LinkedNext, DequeNextInBuffer, DequeNextBuffer, DequeMapUnreadable,
       HashNextLink, HashNextBucket, BitVectorNext, TupleNext, BitsetNext, TreeNext,
       TreeDown, TreeUp, TreeUnreadable, Step, Reading, Going, TypeInv, PlaceInv
<1>7. QED
  BY <1>1, <1>2, <1>3, <1>4, <1>5, <1>6 DEF Next, Listing, Ended

LEMMA BoundTree ==
  ASSUME TypeInv, BoundInv, Core(val).template \in Trees, [Next]_vars
  PROVE  Counts'
<1> DEFINE c == Core(val)
<1>0. /\ Counts /\ it.n \in Nat /\ it.sub \in Int /\ it.lim \in Int /\ it.at \in Int
      /\ said \in Int /\ Len(out) \in Nat
  BY LenProperties DEF BoundInv, TypeInv, DataInv, Iterator
<1>00. c.template \notin Linked \cup {"vector", "vector<bool>", "deque", "bitset",
                                      "tuple", "tr1::unordered_set"}
  BY DEF Trees, Linked, NullEnded
<1>1. CASE Dispatch
  BY <1>0, <1>1, <1>00 DEF Dispatch, Member, PointerMember, PrintPointer, PrintStruct,
       Announce, Counts, PrinterFor, Core, Counted, Container
<1>2. CASE Children
  <2>1. TreeChildren
    BY <1>2, <1>00 DEF Children, LinkedChildren, DequeChildren, VectorChildren,
       HashChildren, BitVectorChildren, NoOperator, BitsetChildren, TupleChildren, Begin
  <2>2. /\ pc = "children" /\ pc' = "next" /\ UNCHANGED <<val, said, out>>
        /\ it' = Position(c.left[c.head], 0, 0, 0)
    BY <2>1 DEF TreeChildren, Begin
  <2>3. said = c.count /\ out = <<>>
    BY <1>0, <1>00, <2>2 DEF Counts, Size
  <2>4. it'.n = 0
    BY <2>2 DEF Position
  <2>5. Len(<<>>) = 0
    BY EmptySeq
  <2>6. QED
    BY <1>0, <1>00, <2>2, <2>3, <2>4, <2>5 DEF Counts
<1>3. c.count \in Nat /\ IsContainer(c) /\ c.memory \subseteq Int
  BY CoreIsContainer, TreeShape DEF TypeInv, PlaceInv, Container
<1>4. CASE TreeNext
  <2>1. pc = "next" /\ ~Exhausted(c) /\ it.at \in c.memory /\ UNCHANGED <<val, said>>
    BY <1>4 DEF TreeNext, Reading, Going, HasMemory, Container, Trees, Others
  <2>2. it.n # c.count
    BY <1>00, <2>1 DEF Exhausted, Linked
  <2>3. it.n = Len(out) /\ said = c.count /\ it.n < said
    BY <1>0, <1>3, <2>1, <2>2 DEF Counts
  <2>4. CASE Return(it.at)
    BY <1>0, <1>00, <2>1, <2>3, <2>4, YieldCounts DEF Return, Position, Counts
  <2>5. CASE ~Return(it.at)
    <3>1. pc' \in {"down", "up"} /\ out' = out /\ it'.n = it.n
      BY <1>4, <2>5 DEF TreeNext, Position
    <3>2. QED
      BY <1>0, <1>00, <2>1, <2>3, <3>1 DEF Counts
  <2>6. QED
    BY <2>4, <2>5
<1>5. CASE TreeDown \/ TreeUp
  <2>1. pc \in {"down", "up"} /\ UNCHANGED <<val, said>>
    BY <1>5 DEF TreeDown, TreeUp
  <2>2. it.n = Len(out) /\ said = c.count /\ it.n < said
    BY <1>0, <2>1 DEF Counts
  <2>3. CASE \E a \in Int : Return(a)
    BY <1>0, <1>00, <2>1, <2>2, <2>3, YieldCounts DEF Return, Position, Counts
  <2>4. CASE \A a \in Int : ~Return(a)
    <3>1. pc' = pc /\ out' = out /\ it'.n = it.n
      BY <1>0, <1>5, <2>4 DEF TreeDown, TreeUp, Position
    <3>2. QED
      BY <1>0, <1>00, <2>1, <2>2, <3>1 DEF Counts
  <2>5. QED
    BY <2>3, <2>4
<1>6. CASE Stop \/ Follow \/ Unreadable \/ TreeUnreadable
  BY <1>0, <1>00, <1>6 DEF Stop, Follow, FollowElement, FollowFails, FollowEnds,
     Unreadable, TreeUnreadable, Counts
<1>7. CASE UNCHANGED vars
  BY <1>0, <1>7 DEF vars, Counts
<1>8. ~(LinkedNext \/ VectorNext \/ DequeNextInBuffer \/ DequeNextBuffer
        \/ DequeMapUnreadable \/ HashNextLink \/ HashNextBucket \/ BitVectorNext
        \/ TupleNext \/ BitsetNext)
  BY <1>00 DEF LinkedNext, VectorNext, DequeNextInBuffer, DequeNextBuffer,
       DequeMapUnreadable, HashNextLink, HashNextBucket, BitVectorNext, TupleNext,
       BitsetNext, Step, Reading, Going
<1>9. QED
  BY <1>1, <1>2, <1>4, <1>5, <1>6, <1>7, <1>8 DEF Next, Listing, Ended

\* A dead vector or tree lists no more elements than its fields announce, even
\* if its links lead round in circles.
THEOREM ListingIsBounded == Spec => []ListingBounded
<1>1. TypeInv /\ BoundInv /\ [Next]_vars => BoundInv'
  <2>1. SUFFICES ASSUME TypeInv, BoundInv, [Next]_vars,
                        Core(val)'.template \in Trees \cup {"vector"}
                 PROVE  Counts'
    BY DEF BoundInv
  <2>2. val' = val
    BY <2>1, ValueKept
  <2>3. QED
    BY <2>1, <2>2, BoundVector, BoundTree
<1>2. Spec => []TypeInv
  BY TypeInit, TypeNext, PTL DEF Spec
<1>3. Spec => []BoundInv
  BY <1>1, <1>2, BoundInit, PTL DEF Spec
<1>4. TypeInv /\ BoundInv => ListingBounded
  <2>1. SUFFICES ASSUME TypeInv, Counts PROVE Len(out) <= IF said > 0 THEN said ELSE 0
    BY DEF BoundInv, ListingBounded
  <2>2. said \in Int /\ out \in Seq(Int)
    BY <2>1 DEF TypeInv, DataInv
  <2>3. Len(out) \in Nat
    BY <2>2, LenProperties
  <2>4. QED
    BY <2>1, <2>2, <2>3 DEF Counts
<1>5. QED
  BY <1>2, <1>3, <1>4, PTL

----------------------------------------------------------------------------
(* Live containers.                                                        *)

Walked == Linked \cup Trees \cup {"tr1::unordered_set", "vector", "deque",
                                  "vector<bool>", "tuple", "bitset"}

\* Where an iterator is when k elements have been listed.  The end of a list is
\* its head or a null pointer.
EndOf(c) == IF c.template = "list" THEN c.head ELSE Null

LinkedHere(c, k) ==
  it.at = IF k = Len(c.contents) THEN EndOf(c) ELSE c.contents[k + 1]

HashHere(c, k) ==
  IF k = Len(c.contents) THEN it.at = Null
  ELSE it.at = c.contents[k + 1] /\ it.sub = c.home[k + 1]

VectorHere(c, k) ==
  it.n = k /\ it.lim = Len(c.contents) /\ it.at = c.start + k * c.width

DequeHere(c, k) ==
  /\ it.sub = c.place[k + 1][1]
  /\ it.at = c.map[it.sub] + c.place[k + 1][2]
  /\ it.lim = c.map[it.sub] + c.buffer

BitHere(c, k) ==
  /\ it.sub \in 0..(c.bits - 1)
  /\ k = (it.at - c.start) * c.bits + it.sub

TupleHere(c, k) == it.n = k

\* The iterator of a bitset is at a bit, and what has been listed is all that is
\* set below it.
BitsetHere(c, k) ==
  /\ it.n \in 1..(Len(c.words) + 1)
  /\ it.n <= Len(c.words) =>
       it.sub \in 0..c.bits /\ it.lim = c.shift[it.n][it.sub]
  /\ it.n > Len(c.words) => it.sub = 0 /\ it.lim = 0
  /\ \A i \in 1..Len(c.contents) :
       i <= k <=> c.contents[i] < (it.n - 1) * c.bits + it.sub

\* A tree's iterator looks for the node k + 2 while it is at the node k + 1:
\* on the way down this is the least of the subtree, on the way up it is the
\* one behind the subtree.
TreeHere(c, k) ==
  /\ it.n = k
  /\ k < Len(c.contents) => it.at = k + 1
  /\ pc \in {"down", "up"} =>
       /\ k + 1 < Len(c.contents)
       /\ it.sub \in 1..Len(c.contents)
  /\ pc = "down" => c.lo[it.sub] = k + 2
  /\ pc = "up" => c.hi[it.sub] = k + 1 /\ it.lim = c.parent[it.sub]

Here(c) ==
  /\ c.template \in Linked => LinkedHere(c, Len(out))
  /\ c.template = "tr1::unordered_set" => HashHere(c, Len(out))
  /\ c.template = "vector" => VectorHere(c, Len(out))
  /\ c.template = "deque" => DequeHere(c, Len(out))
  /\ c.template \in Trees => TreeHere(c, Len(out))
  /\ c.template = "vector<bool>" => BitHere(c, Len(out))
  /\ c.template = "tuple" => TupleHere(c, Len(out))
  /\ c.template = "bitset" => BitsetHere(c, Len(out))

Progress(c) ==
  /\ pc \notin {"failed", "hidden"}
  /\ IsPrefixOf(out, c.contents)
  /\ pc \in {"member", "print", "children"} => out = <<>>
  /\ pc \in {"next", "down", "up"} => Here(c)
  /\ pc \in {"follow", "done"} => out = c.contents

\* The value is a live container of one of the templates T, and is shown.
Shown(T) == val.live /\ Core(val).template \in T /\ ~LeftOut(val)

WalkInv == Shown(Walked) => Progress(Core(val))

\* What libstdc++ guarantees of it.
LEMMA LiveCore ==
  ASSUME TypeInv, Shown(Walked)
  PROVE  /\ IsContainer(Core(val)) /\ Core(val).live /\ val \in Value
         /\ Core(val).contents \in Seq(Int)
         /\ \A i \in 1..Len(Core(val).contents) : Core(val).contents[i] \in Int
         /\ Core(val).template \notin Others =>
              \A i \in 1..Len(Core(val).contents) :
                Core(val).contents[i] \in Core(val).memory
         /\ Len(Core(val).contents) \in Nat
         /\ Represents(Core(val))
<1>1. Core(val).template \in Container
  BY DEF Shown, Walked, Container, Others, Linked, NullEnded, Trees
<1>2. val \in Value /\ val.live
  BY DEF TypeInv, PlaceInv, Shown
<1>3. IsContainer(Core(val)) /\ Core(val).live
  BY <1>1, <1>2, CoreIsContainer
<1>4. /\ Core(val).contents \in Seq(Int)
      /\ Core(val).template \notin Others =>
           Addresses(Core(val)) \subseteq Core(val).memory
      /\ Represents(Core(val))
  BY <1>1, <1>3 DEF IsContainer
<1>5. /\ DOMAIN Core(val).contents = 1..Len(Core(val).contents)
      /\ Len(Core(val).contents) \in Nat
  BY <1>4, LenProperties
<1>6. \A i \in 1..Len(Core(val).contents) : Core(val).contents[i] \in Int
  BY <1>4, ElementOfSeq
<1>7. QED
  BY <1>2, <1>3, <1>4, <1>5, <1>6 DEF Addresses

LEMMA EmptyIsPrefix ==
  ASSUME NEW s \in Seq(Int)
  PROVE  IsPrefixOf(<<>>, s)
<1>1. Len(<<>>) = 0 /\ DOMAIN <<>> = {} /\ Len(s) \in Nat
  BY EmptySeq, LenProperties
<1>2. QED
  BY <1>1 DEF IsPrefixOf

\* The next element in order makes a longer prefix.
LEMMA PrefixGrows ==
  ASSUME NEW o \in Seq(Int), NEW s \in Seq(Int), IsPrefixOf(o, s), Len(o) < Len(s),
         NEW e \in Int, e = s[Len(o) + 1]
  PROVE  IsPrefixOf(Append(o, e), s) /\ Len(Append(o, e)) = Len(o) + 1
<1>1. Len(o) \in Nat /\ Len(s) \in Nat /\ DOMAIN o = 1..Len(o)
  BY LenProperties
<1>2. PICK t \in Seq(Int) : t = Append(o, e)
  BY AppendProperties
<1>3. /\ Len(t) = Len(o) + 1
      /\ \A i \in 1..Len(o) : t[i] = o[i]
      /\ t[Len(o) + 1] = e
  BY <1>2, AppendProperties
<1>4. DOMAIN t = 1..(Len(o) + 1)
  BY <1>2, <1>3, LenProperties
<1>5. \A i \in DOMAIN t : t[i] = s[i]
  <2>1. TAKE i \in DOMAIN t
  <2>2. CASE i = Len(o) + 1
    BY <1>3, <2>2
  <2>3. CASE i # Len(o) + 1
    <3>1. i \in 1..Len(o)
      BY <1>1, <1>4, <2>3
    <3>2. o[i] = s[i]
      BY <1>1, <3>1 DEF IsPrefixOf
    <3>3. QED
      BY <1>3, <3>1, <3>2
  <2>4. QED
    BY <2>2, <2>3
<1>6. IsPrefixOf(t, s)
  BY <1>1, <1>3, <1>5 DEF IsPrefixOf
<1>7. QED
  BY <1>2, <1>3, <1>6

\* A prefix of the whole length is the whole.
LEMMA PrefixFull ==
  ASSUME NEW o \in Seq(Int), NEW s \in Seq(Int), IsPrefixOf(o, s), Len(o) >= Len(s)
  PROVE  o = s
<1>1. Len(o) \in Nat /\ Len(s) \in Nat
  BY LenProperties
<1>2. Len(o) = Len(s) /\ DOMAIN o = 1..Len(o)
  BY <1>1, LenProperties DEF IsPrefixOf
<1>3. \A i \in 1..Len(o) : o[i] = s[i]
  BY <1>2 DEF IsPrefixOf
<1>4. QED
  BY <1>2, <1>3, SeqEqual

\* The element at the iterator is the next in order, and is listed.
LEMMA YieldNext ==
  ASSUME TypeInv, Shown(Walked), Progress(Core(val)), Len(out) < Len(Core(val).contents),
         Yield(Core(val).contents[Len(out) + 1])
  PROVE  IsPrefixOf(out', Core(val).contents) /\ Len(out') = Len(out) + 1
<1>1. PICK s \in Seq(Int) : s = Core(val).contents
  BY LiveCore
<1>2. PICK o \in Seq(Int) : o = out
  BY DEF TypeInv, DataInv
<1>3. IsPrefixOf(o, s) /\ Len(o) < Len(s) /\ Len(o) \in Nat /\ Len(s) \in Nat
  BY <1>1, <1>2, LenProperties DEF Progress
<1>4. PICK e \in Int : e = s[Len(o) + 1]
  BY <1>3, ElementOfSeq
<1>5. out' = Append(o, e)
  BY <1>1, <1>2, <1>4 DEF Yield
<1>6. QED
  BY <1>1, <1>2, <1>3, <1>4, <1>5, PrefixGrows

\* The size of a vector is the distance of two pointers, in elements.
LEMMA QuotientOfProduct ==
  ASSUME NEW n \in Nat, NEW w \in Nat \ {0}
  PROVE  (n * w) \div w = n /\ n * w >= 0
<1>1. n * w \in Nat /\ n * w >= 0
  OBVIOUS
<1>2. PICK q, m : q = (n * w) \div w /\ m = (n * w) % w
  OBVIOUS
<1>3. q \in Int /\ m \in 0..(w - 1) /\ n * w = w * q + m
  BY <1>1, <1>2
<1>4. m = w * (n - q)
  BY <1>3
<1>5. n - q = 0
  <2>1. CASE n - q >= 1
    <3>1. w * (n - q) >= w
      BY <1>3, <2>1
    <3>2. QED
      BY <1>3, <1>4, <3>1
  <2>2. CASE n - q <= -1
    <3>1. w * (n - q) <= -w
      BY <1>3, <2>2
    <3>2. QED
      BY <1>3, <1>4, <3>1
  <2>3. QED
    BY <1>3, <2>1, <2>2
<1>6. QED
  BY <1>1, <1>2, <1>3, <1>5

LEMMA OneMore ==
  ASSUME NEW b \in Int, NEW j \in Int, NEW w \in Int
  PROVE  b + j * w + w = b + (j + 1) * w
<1>1. (j + 1) * w = j * w + w
  OBVIOUS
<1>2. QED
  BY <1>1

LEMMA VectorLengthLive ==
  ASSUME NEW c, IsContainer(c), c.template = "vector", Represents(c),
         Len(c.contents) \in Nat
  PROVE  VectorLength(c) = Len(c.contents)
<1>1. VectorRepresents(c)
  BY DEF Represents
<1>2. c.start \in Int /\ c.width \in Nat \ {0}
  BY VectorShape
<1>3. c.finish = c.start + Len(c.contents) * c.width
  BY <1>1 DEF VectorRepresents
<1>4. PICK p \in Nat : p = Len(c.contents) * c.width /\ p \div c.width = Len(c.contents)
  BY <1>2, QuotientOfProduct
<1>5. c.start <= c.finish /\ c.finish - c.start = p
  BY <1>2, <1>3, <1>4
<1>6. QED
  BY <1>4, <1>5 DEF VectorLength, Distance

\* A natural number in units of w.
LEMMA Division ==
  ASSUME NEW n \in Nat, NEW w \in Nat \ {0}
  PROVE  /\ n \div w \in Int /\ n % w \in 0..(w - 1)
         /\ n = (n \div w) * w + (n % w)
<1>1. PICK q, m : q = n \div w /\ m = n % w
  OBVIOUS
<1>2. q \in Int /\ m \in 0..(w - 1) /\ n = w * q + m
  BY <1>1
<1>3. w * q = q * w
  BY <1>2
<1>4. QED
  BY <1>1, <1>2, <1>3

\* There is one way to write a number in units of w.
LEMMA DivisionUnique ==
  ASSUME NEW w \in Nat \ {0}, NEW p \in Int, NEW q \in Int,
         NEW r \in 0..(w - 1), NEW s \in 0..(w - 1), p * w + r = q * w + s
  PROVE  p = q /\ r = s
<1>1. (p - q) * w = s - r
  OBVIOUS
<1>2. PICK d \in Int : d = p - q
  OBVIOUS
<1>3. d * w = s - r
  BY <1>1, <1>2
<1>4. d = 0
  <2>1. CASE d >= 1
    <3>1. d * w >= w
      BY <2>1
    <3>2. QED
      BY <1>3, <3>1
  <2>2. CASE d <= -1
    <3>1. d * w <= -w
      BY <2>2
    <3>2. QED
      BY <1>3, <3>1
  <2>3. QED
    BY <2>1, <2>2
<1>5. QED
  BY <1>2, <1>3, <1>4

\* The bits of a live vector<bool>.
LEMMA BitsLive ==
  ASSUME NEW c, IsContainer(c), c.template = "vector<bool>", Represents(c),
         c.contents \in Seq(Int)
  PROVE  /\ Len(c.contents) \in Nat
         /\ c.start \in Int /\ c.bits \in Nat \ {0} /\ c.minus \in BOOLEAN /\ c.from = 0
         /\ c.finish \in Int /\ c.to \in 0..(c.bits - 1)
         /\ Len(c.contents) = (c.finish - c.start) * c.bits + c.to
         /\ \A i \in 1..Len(c.contents) :
              /\ c.contents[i] = c.start * c.bits + i - 1
              /\ c.start + ((i - 1) \div c.bits) \in c.memory
<1>1. /\ Len(c.contents) \in Nat /\ DOMAIN c.contents = 1..Len(c.contents)
      /\ c.start \in Int /\ c.bits \in Nat \ {0} /\ c.minus \in BOOLEAN
  BY LenProperties, BitVectorShape
<1>2. OtherRepresents(c)
  BY DEF Represents, Others
<1>3. /\ c.from = 0
      /\ c.finish = c.start + Len(c.contents) \div c.bits
      /\ c.to = Len(c.contents) % c.bits
      /\ \A i \in DOMAIN c.contents :
           /\ c.contents[i] = c.start * c.bits + i - 1
           /\ c.start + ((i - 1) \div c.bits) \in c.memory
  BY <1>2 DEF OtherRepresents
<1>4. PICK n \in Nat, w \in Nat \ {0}, s \in Int :
        n = Len(c.contents) /\ w = c.bits /\ s = c.start
  BY <1>1
<1>5. /\ n \div w \in Int /\ n % w \in 0..(w - 1)
      /\ n = (n \div w) * w + (n % w)
  BY Division
<1>6. PICK q, r \in Int : q = n \div w /\ r = n % w
  BY <1>5
<1>7. r \in 0..(w - 1) /\ n = q * w + r
  BY <1>5, <1>6
<1>8. c.finish = s + q /\ c.to = r
  BY <1>3, <1>4, <1>6
<1>9. c.finish \in Int /\ c.to \in 0..(c.bits - 1) /\ c.finish - c.start = q
  <2>1. c.to \in 0..(c.bits - 1)
    BY <1>4, <1>7, <1>8
  <2>2. PICK f \in Int : f = s + q
    OBVIOUS
  <2>3. f - s = q
    BY <2>2
  <2>4. QED
    BY <1>4, <1>8, <2>1, <2>2, <2>3
<1>10. Len(c.contents) = (c.finish - c.start) * c.bits + c.to
  BY <1>4, <1>7, <1>8, <1>9
<1>11. QED
  BY <1>1, <1>3, <1>9, <1>10

\* printer() shows a live member that mentions std::vector if it is one of a
\* size below the limit.
LEMMA PassesLive ==
  ASSUME NEW v \in Value, v.live, v.mentionsVector, Core(v).template \in Container
  PROVE  Passes(v) <=>
           /\ v.template \in {"vector", "vector<bool>"}
           /\ v.template = "vector<bool>" => v.minus
           /\ Len(v.contents) \in 1..(VectorLimit - 1)
<1>1. CASE v.template \notin {"vector", "vector<bool>"}
  BY <1>1 DEF Passes, HasDifference
<1>2. CASE v.template \in {"vector", "vector<bool>"}
  <2>1. Core(v) = v
    BY <1>2 DEF Core, Adaptor
  <2>2. IsContainer(v) /\ v.contents \in Seq(Int) /\ Represents(v)
    BY <2>1, CoreIsContainer DEF IsContainer
  <2>3. Len(v.contents) \in Nat /\ VectorLimit \in Nat
    BY <2>2, LenProperties, LimitAssumption
  <2>4. Difference(v) = Len(v.contents)
    <3>1. CASE v.template = "vector"
      BY <2>2, <2>3, <3>1, VectorLengthLive DEF Difference
    <3>2. CASE v.template = "vector<bool>"
      <4>1. PICK n, w, d, r \in Int :
              /\ n = Len(v.contents) /\ w = v.bits /\ d = v.finish - v.start
              /\ r = v.to /\ n = d * w + r /\ v.from = 0
        BY <2>2, <3>2, BitsLive
      <4>2. w * d + r - 0 = n
        BY <4>1
      <4>3. QED
        BY <3>2, <4>1, <4>2 DEF Difference
    <3>3. QED
      BY <1>2, <3>1, <3>2
  <2>5. QED
    BY <1>2, <2>3, <2>4 DEF Passes, HasDifference
<1>3. QED
  BY <1>1, <1>2

\* The steps that are the same for all.
LEMMA WalkCommon ==
  ASSUME TypeInv, Shown(Walked), Progress(Core(val)),
         Dispatch \/ Follow \/ UNCHANGED vars
  PROVE  Progress(Core(val))'
<1> DEFINE c == Core(val)
<1>1. CASE Member
  <2>1. Passes(val)
    <3>1. SUFFICES ASSUME val.mentionsVector PROVE Passes(val)
      BY DEF Passes
    <3>2. val.member /\ val \in Value /\ val.live /\ ~LeftOut(val)
      BY <1>1 DEF Member, TypeInv, PlaceInv, Shown
    <3>3. Core(val).template \in Container
      BY DEF Shown, Walked, Container, Others, Linked, NullEnded, Trees
    <3>4. /\ val.template \in {"vector", "vector<bool>"}
          /\ Len(val.contents) \in 1..(VectorLimit - 1)
      <4>1. CASE val.template \in {"vector", "vector<bool>"}
        BY <3>1, <3>2, <4>1 DEF LeftOut
      <4>2. CASE val.template \notin {"vector", "vector<bool>"}
        BY <3>1, <3>2, <4>2 DEF LeftOut
      <4>3. QED
        BY <4>1, <4>2
    <3>5. val.template = "vector<bool>" => val.minus
      BY <3>2 DEF LeftOut, Core, Adaptor
    <3>6. QED
      BY <3>1, <3>2, <3>3, <3>4, <3>5, PassesLive
  <2>2. QED
    BY <1>1, <2>1 DEF Member, Progress
<1>2. CASE PointerMember \/ PrintPointer \/ PrintStruct
  <2>1. PrinterFor(val) = "libstdc++" /\ val.template # "pointer"
    BY DEF PrinterFor, Shown, Core, Walked, Container, Adaptor, Linked, NullEnded, Trees,
       Others
  <2>2. QED
    BY <1>2, <2>1 DEF PointerMember, PrintPointer, PrintStruct
<1>3. CASE Announce
  BY <1>3 DEF Announce, Progress
<1>4. CASE Follow
  BY <1>4 DEF Follow, FollowElement, FollowFails, FollowEnds, Progress
<1>5. CASE UNCHANGED vars
  BY <1>5 DEF vars, Progress, Here, LinkedHere, HashHere, VectorHere,
     DequeHere, TreeHere, BitHere, TupleHere, BitsetHere
<1>6. QED
  BY <1>1, <1>2, <1>3, <1>4, <1>5 DEF Dispatch

LEMMA ListedLength ==
  ASSUME TypeInv, Shown(Walked), Progress(Core(val))
  PROVE  /\ Len(out) \in Nat /\ Len(out) <= Len(Core(val).contents)
         /\ out = <<>> => Len(out) = 0
<1>1. out \in Seq(Int)
  BY DEF TypeInv, DataInv
<1>2. QED
  BY <1>1, LenProperties, EmptySeq DEF Progress, IsPrefixOf

\* The iterator is made: nothing has been listed yet.
LEMMA WalkBegins ==
  ASSUME TypeInv, Shown(Walked), Progress(Core(val)), NEW T, NEW i, Begin(T, i), Here(Core(val))'
  PROVE  Progress(Core(val))'
BY DEF Begin, Progress

\* The iterator stops when everything has been listed.
LEMMA WalkStops ==
  ASSUME TypeInv, Shown(Walked), Progress(Core(val)), Stop,
         Len(out) = Len(Core(val).contents)
  PROVE  Progress(Core(val))'
<1>1. PICK o \in Seq(Int) : o = out
  BY DEF TypeInv, DataInv
<1>2. PICK s \in Seq(Int) : s = Core(val).contents
  BY LiveCore
<1>3. o = s
  BY <1>1, <1>2, LenProperties, PrefixFull DEF Progress
<1>4. out = Core(val).contents
  BY <1>1, <1>2, <1>3
<1>5. QED
  BY <1>4 DEF Stop, Progress

\* The iterator returns the next element in order.
LEMMA WalkSteps ==
  ASSUME TypeInv, Shown(Walked), Progress(Core(val)), val' = val,
         Len(out) < Len(Core(val).contents),
         Yield(Core(val).contents[Len(out) + 1]),
         pc' = "next", Here(Core(val))'
  PROVE  Progress(Core(val))'
BY YieldNext DEF Progress

LEMMA WalkLinked ==
  ASSUME TypeInv, Shown(Walked), Progress(Core(val)), Core(val).template \in Linked,
         Children \/ Listing
  PROVE  Progress(Core(val))'
<1> DEFINE c == Core(val)
           n == Len(c.contents)
           k == Len(out)
<1>0. c.template \notin {"vector", "vector<bool>", "deque", "bitset", "tuple",
                         "tr1::unordered_set"} \cup Trees
  BY DEF Linked, NullEnded, Trees
<1>1. /\ IsContainer(c) /\ n \in Nat /\ k \in Nat /\ k <= n
      /\ \A i \in 1..n : c.contents[i] \in c.memory
      /\ out = <<>> => k = 0
  BY <1>0, LiveCore, ListedLength DEF Others
<1>2. /\ c.next[c.head] = IF n = 0 THEN EndOf(c) ELSE c.contents[1]
      /\ \A i \in 1..n : c.next[c.contents[i]] =
                           IF i = n THEN EndOf(c) ELSE c.contents[i + 1]
      /\ EndOf(c) \notin Addresses(c)
  BY LiveCore DEF Represents, LinkedRepresents, EndOf
<1>3. \A i \in 1..n : c.contents[i] # EndOf(c)
  BY <1>2, LiveCore, LenProperties DEF Addresses
<1>4. Exhausted(c) <=> it.at = EndOf(c)
  <2>1. CASE c.template = "list"
    BY <1>0, <2>1 DEF Exhausted, NullEnded, EndOf
  <2>2. CASE c.template \in NullEnded
    BY <1>0, <2>2 DEF Exhausted, NullEnded, EndOf
  <2>3. QED
    BY <2>1, <2>2 DEF Linked
<1>5. pc = "next" => it.at = IF k = n THEN EndOf(c) ELSE c.contents[k + 1]
  BY DEF Progress, Here, LinkedHere
<1>6. pc = "next" => (Exhausted(c) <=> k = n)
  BY <1>1, <1>3, <1>4, <1>5
<1>7. CASE LinkedChildren
  <2>1. it' = Position(c.next[c.head], 0, 0, 0) /\ out' = out /\ val' = val /\ k = 0
    BY <1>1, <1>7 DEF LinkedChildren, Begin, Progress
  <2>2. LinkedHere(c, k)'
    BY <1>2, <2>1 DEF LinkedHere, Position, EndOf
  <2>3. Here(c)'
    BY <1>0, <2>1, <2>2 DEF Here
  <2>4. QED
    BY <1>7, <2>3, WalkBegins DEF LinkedChildren
<1>8. CASE LinkedNext
  <2>1. /\ pc = "next" /\ pc' = pc /\ ~Exhausted(c) /\ val' = val /\ Yield(it.at)
        /\ it' = Position(c.next[it.at], 0, 0, it.n + 1)
    BY <1>8 DEF LinkedNext, Step, Reading, Going
  <2>2. k < n /\ it.at = c.contents[k + 1]
    BY <1>1, <1>5, <1>6, <2>1
  <2>3. k' = k + 1
    BY <2>1, <2>2, YieldNext
  <2>4. it'.at = IF k + 1 = n THEN EndOf(c) ELSE c.contents[k + 2]
    BY <1>1, <1>2, <2>1, <2>2 DEF Position
  <2>5. LinkedHere(c, k)'
    BY <1>1, <2>1, <2>3, <2>4 DEF LinkedHere, EndOf
  <2>6. Here(c)'
    BY <1>0, <2>1, <2>5 DEF Here
  <2>7. QED
    BY <2>1, <2>2, <2>6, WalkSteps
<1>9. CASE Stop
  BY <1>6, <1>9, WalkStops DEF Stop
<1>10. ~Unreadable
  BY <1>1, <1>5, <1>6 DEF Unreadable, Going
<1>11. CASE Follow
  BY <1>11, WalkCommon
<1>12. QED
  BY <1>0, <1>7, <1>8, <1>9, <1>10, <1>11 DEF Children, Listing, VectorChildren,
     DequeChildren, TreeChildren, HashChildren, BitVectorChildren, NoOperator,
     BitsetChildren, TupleChildren, VectorNext, DequeNextInBuffer, DequeNextBuffer,
     DequeMapUnreadable, HashNextLink, HashNextBucket, BitVectorNext, TupleNext,
     BitsetNext, TreeNext, TreeDown, TreeUp, TreeUnreadable, Begin, Step, Reading,
     Going, TypeInv, PlaceInv

LEMMA WalkVector ==
  ASSUME TypeInv, Shown(Walked), Progress(Core(val)), Core(val).template = "vector",
         Children \/ Listing
  PROVE  Progress(Core(val))'
<1> DEFINE c == Core(val)
           n == Len(c.contents)
           k == Len(out)
<1>0. c.template \notin {"vector<bool>", "deque", "bitset", "tuple",
                         "tr1::unordered_set"} \cup Trees \cup Linked
  BY DEF Linked, NullEnded, Trees
<1>1. /\ IsContainer(c) /\ n \in Nat /\ k \in Nat /\ k <= n
      /\ \A i \in 1..n : c.contents[i] \in c.memory
      /\ out = <<>> => k = 0
  BY <1>0, LiveCore, ListedLength DEF Others
<1>2. \A i \in 1..n : c.contents[i] = c.start + (i - 1) * c.width
  BY LiveCore, LenProperties DEF Represents, VectorRepresents
<1>3. VectorLength(c) = n /\ c.start \in Int /\ c.width \in Nat
  BY <1>1, LiveCore, VectorLengthLive, VectorShape
<1>4. Exhausted(c) <=> it.n >= it.lim
  BY <1>0 DEF Exhausted, Linked
<1>5. pc = "next" => it.n = k /\ it.lim = n /\ it.at = c.start + k * c.width
  BY DEF Progress, Here, VectorHere
<1>6. pc = "next" => (Exhausted(c) <=> k = n)
  BY <1>1, <1>4, <1>5
<1>7. pc = "next" /\ k < n => it.at = c.contents[k + 1]
  <2>1. SUFFICES ASSUME pc = "next", k < n PROVE it.at = c.contents[k + 1]
    OBVIOUS
  <2>2. k + 1 \in 1..n /\ (k + 1) - 1 = k
    BY <1>1, <2>1
  <2>3. QED
    BY <1>2, <1>5, <2>1, <2>2
<1>8. CASE VectorChildren
  <2>1. it' = Position(c.start, 0, n, 0) /\ out' = out /\ val' = val /\ k = 0
    BY <1>1, <1>3, <1>8 DEF VectorChildren, Begin, Progress
  <2>2. VectorHere(c, k)'
    BY <1>3, <2>1 DEF VectorHere, Position
  <2>3. Here(c)'
    BY <1>0, <2>1, <2>2 DEF Here
  <2>4. QED
    BY <1>8, <2>3, WalkBegins DEF VectorChildren
<1>9. CASE VectorNext
  <2>1. /\ pc = "next" /\ pc' = pc /\ ~Exhausted(c) /\ val' = val /\ Yield(it.at)
        /\ it' = Position(it.at + c.width, 0, it.lim, it.n + 1)
    BY <1>9 DEF VectorNext, Step, Reading, Going
  <2>2. k < n /\ it.at = c.contents[k + 1]
    BY <1>1, <1>6, <1>7, <2>1
  <2>3. k' = k + 1
    BY <2>1, <2>2, YieldNext
  <2>4. it.at + c.width = c.start + (k + 1) * c.width
    <3>1. PICK j, w, b \in Int : j = k /\ w = c.width /\ b = c.start
      BY <1>1, <1>3
    <3>2. it.at = b + j * w
      BY <1>5, <2>1, <3>1
    <3>3. b + j * w + w = b + (j + 1) * w
      BY OneMore
    <3>4. QED
      BY <3>1, <3>2, <3>3
  <2>5. VectorHere(c, k)'
    BY <1>5, <2>1, <2>3, <2>4 DEF VectorHere, Position
  <2>6. Here(c)'
    BY <1>0, <2>1, <2>5 DEF Here
  <2>7. QED
    BY <2>1, <2>2, <2>6, WalkSteps
<1>10. CASE Stop
  BY <1>6, <1>10, WalkStops DEF Stop
<1>11. ~Unreadable
  BY <1>1, <1>6, <1>7 DEF Unreadable, Going
<1>12. CASE Follow
  BY <1>12, WalkCommon
<1>13. QED
  BY <1>0, <1>8, <1>9, <1>10, <1>11, <1>12 DEF Children, Listing, LinkedChildren,
     DequeChildren, TreeChildren, HashChildren, BitVectorChildren, NoOperator,
     BitsetChildren, TupleChildren, LinkedNext, DequeNextInBuffer, DequeNextBuffer,
     DequeMapUnreadable, HashNextLink, HashNextBucket, BitVectorNext, TupleNext,
     BitsetNext, TreeNext, TreeDown, TreeUp, TreeUnreadable, Begin, Step, Reading,
     Going, TypeInv, PlaceInv

LEMMA WalkDeque ==
  ASSUME TypeInv, Shown(Walked), Progress(Core(val)), Core(val).template = "deque",
         Children \/ Listing
  PROVE  Progress(Core(val))'
<1> DEFINE c == Core(val)
           n == Len(c.contents)
           k == Len(out)
           node(i) == c.place[i][1]
           off(i) == c.place[i][2]
<1>0. c.template \notin {"vector<bool>", "vector", "bitset", "tuple",
                         "tr1::unordered_set"} \cup Trees \cup Linked
  BY DEF Linked, NullEnded, Trees
<1>1. /\ IsContainer(c) /\ n \in Nat /\ k \in Nat /\ k <= n
      /\ \A i \in 1..n : c.contents[i] \in c.memory
      /\ out = <<>> => k = 0
  BY <1>0, LiveCore, ListedLength DEF Others
<1>2. DequeRepresents(c) /\ DOMAIN c.contents = 1..n
  BY LiveCore, LenProperties DEF Represents
<1>3. /\ c.startNode \in Int /\ c.finishNode \in Int /\ c.buffer \in Nat \ {0}
      /\ \A d \in DOMAIN c.map : d \in Int /\ c.map[d] \in Int
  BY <1>1, DequeShape
<1>4. \A i \in 1..(n + 1) : /\ node(i) \in c.startNode..c.finishNode
                            /\ off(i) \in 0..(c.buffer - 1)
                            /\ node(i) \in DOMAIN c.map
                            /\ c.map[node(i)] \in Int /\ off(i) \in Int
  <2>1. /\ c.startNode..c.finishNode \subseteq DOMAIN c.map
        /\ c.place \in [1..(n + 1) -> (c.startNode..c.finishNode)
                                         \X (0..(c.buffer - 1))]
    BY <1>2, Zenon DEF DequeRepresents
  <2>2. TAKE i \in 1..(n + 1)
  <2>3. c.place[i] \in (c.startNode..c.finishNode) \X (0..(c.buffer - 1))
    BY <2>1, <2>2, Zenon
  <2>4. node(i) \in c.startNode..c.finishNode /\ off(i) \in 0..(c.buffer - 1)
    BY <2>3
  <2> QED
    BY <1>3, <2>1, <2>4
<1>5. /\ c.start = c.map[c.startNode] + off(1) /\ node(1) = c.startNode
      /\ c.last = c.map[c.startNode] + c.buffer
      /\ c.finish = c.map[c.finishNode] + off(n + 1) /\ node(n + 1) = c.finishNode
      /\ c.finish \notin Addresses(c)
  BY <1>2 DEF DequeRepresents
<1>6. \A i \in 1..n : /\ c.contents[i] = c.map[node(i)] + off(i)
                      /\ c.place[i + 1] = IF off(i) + 1 = c.buffer
                                            THEN <<node(i) + 1, 0>>
                                            ELSE <<node(i), off(i) + 1>>
  BY <1>2 DEF DequeRepresents
<1>7. Exhausted(c) <=> it.at = c.finish
  BY <1>0 DEF Exhausted, Linked
<1>8. pc = "next" => /\ it.sub = node(k + 1)
                     /\ it.at = c.map[node(k + 1)] + off(k + 1)
                     /\ it.lim = c.map[node(k + 1)] + c.buffer
  BY DEF Progress, Here, DequeHere
<1>9. pc = "next" /\ k < n => it.at = c.contents[k + 1]
  <2>1. k < n => k + 1 \in 1..n
    BY <1>1
  <2>2. k < n => c.contents[k + 1] = c.map[node(k + 1)] + off(k + 1)
    BY <1>6, <2>1
  <2>3. QED
    BY <1>8, <2>2
<1>10. pc = "next" => (Exhausted(c) <=> k = n)
  <2>1. SUFFICES ASSUME pc = "next" PROVE Exhausted(c) <=> k = n
    OBVIOUS
  <2>2. CASE k = n
    BY <1>5, <1>7, <1>8, <2>1, <2>2
  <2>3. CASE k < n
    <3>1. c.contents[k + 1] \in Addresses(c)
      BY <1>1, <1>2, <2>3 DEF Addresses
    <3>2. QED
      BY <1>5, <1>7, <1>9, <2>1, <2>3, <3>1
  <2>4. QED
    BY <1>1, <2>2, <2>3
<1>11. pc = "next" /\ k < n => (it.at + 1 = it.lim <=> off(k + 1) + 1 = c.buffer)
  <2>1. SUFFICES ASSUME pc = "next", k < n
                 PROVE  it.at + 1 = it.lim <=> off(k + 1) + 1 = c.buffer
    OBVIOUS
  <2>2. k + 1 \in 1..(n + 1)
    BY <1>1, <2>1
  <2>3. PICK m, o, b \in Int :
          m = c.map[node(k + 1)] /\ o = off(k + 1) /\ b = c.buffer
    <3>1. /\ c.map[node(k + 1)] \in Int /\ off(k + 1) \in Int
          /\ c.buffer \in Int
      BY <1>3, <1>4, <2>2
    <3> QED
      BY <3>1, Zenon
  <2>4. it.at = m + o /\ it.lim = m + b
    BY <1>8, <2>1, <2>3
  <2>5. (m + o) + 1 = m + b <=> o + 1 = b
    OBVIOUS
  <2>6. QED
    BY <2>3, <2>4, <2>5
<1>12. k < n /\ off(k + 1) + 1 = c.buffer =>
         /\ node(k + 2) = node(k + 1) + 1 /\ off(k + 2) = 0
         /\ node(k + 1) + 1 \in DOMAIN c.map
  <2>1. SUFFICES ASSUME k < n, off(k + 1) + 1 = c.buffer
                 PROVE  /\ node(k + 2) = node(k + 1) + 1 /\ off(k + 2) = 0
                        /\ node(k + 1) + 1 \in DOMAIN c.map
    OBVIOUS
  <2>2. k + 1 \in 1..n /\ k + 2 \in 1..(n + 1) /\ (k + 1) + 1 = k + 2
    BY <1>1, <2>1
  <2>3. c.place[k + 2] = <<node(k + 1) + 1, 0>>
    BY <1>6, <2>1, <2>2
  <2>4. QED
    BY <1>4, <2>2, <2>3
<1>13. k < n /\ off(k + 1) + 1 # c.buffer =>
         node(k + 2) = node(k + 1) /\ off(k + 2) = off(k + 1) + 1
  <2>1. SUFFICES ASSUME k < n, off(k + 1) + 1 # c.buffer
                 PROVE  node(k + 2) = node(k + 1) /\ off(k + 2) = off(k + 1) + 1
    OBVIOUS
  <2>2. k + 1 \in 1..n /\ (k + 1) + 1 = k + 2
    BY <1>1, <2>1
  <2>3. c.place[k + 2] = <<node(k + 1), off(k + 1) + 1>>
    BY <1>6, <2>1, <2>2
  <2>4. QED
    BY <2>3
<1>14. CASE DequeChildren
  <2>1. it' = Position(c.start, c.startNode, c.last, 0) /\ out' = out /\ val' = val /\ k = 0
    BY <1>1, <1>14 DEF DequeChildren, Begin, Progress
  <2>2. DequeHere(c, k)'
    BY <1>5, <2>1 DEF DequeHere, Position
  <2>3. Here(c)'
    BY <1>0, <2>1, <2>2 DEF Here
  <2>4. QED
    BY <1>14, <2>3, WalkBegins DEF DequeChildren
<1>15. CASE DequeNextInBuffer
  <2>1. /\ pc = "next" /\ pc' = pc /\ ~Exhausted(c) /\ val' = val /\ Yield(it.at)
        /\ it' = Position(it.at + 1, it.sub, it.lim, it.n + 1) /\ it.at + 1 # it.lim
    BY <1>15 DEF DequeNextInBuffer, Step, Reading, Going
  <2>2. k < n /\ it.at = c.contents[k + 1]
    BY <1>1, <1>9, <1>10, <2>1
  <2>3. k' = k + 1
    BY <2>1, <2>2, YieldNext
  <2>4. node(k + 2) = node(k + 1) /\ off(k + 2) = off(k + 1) + 1
    BY <1>11, <1>13, <2>1, <2>2
  <2>5. /\ it'.sub = node(k + 2) /\ it'.lim = c.map[node(k + 2)] + c.buffer
        /\ it'.at = it.at + 1
    BY <1>8, <2>1, <2>4 DEF Position
  <2>6. it.at + 1 = c.map[node(k + 2)] + off(k + 2)
    <3>1. k + 1 \in 1..(n + 1)
      BY <1>1
    <3>2. PICK m, o \in Int : m = c.map[node(k + 1)] /\ o = off(k + 1)
      BY <1>4, <3>1
    <3>3. it.at = m + o /\ (m + o) + 1 = m + (o + 1)
      BY <1>8, <2>1, <3>2
    <3>4. QED
      BY <2>4, <3>2, <3>3
  <2>7. DequeHere(c, k)'
    <3>1. (k + 1) + 1 = k + 2
      BY <1>1
    <3>2. QED
      BY <2>1, <2>3, <2>5, <2>6, <3>1 DEF DequeHere
  <2>8. Here(c)'
    BY <1>0, <2>1, <2>7 DEF Here
  <2>9. QED
    BY <2>1, <2>2, <2>8, WalkSteps
<1>16. CASE DequeNextBuffer
  <2>1. /\ pc = "next" /\ pc' = pc /\ ~Exhausted(c) /\ val' = val /\ Yield(it.at)
        /\ it' = Position(c.map[it.sub + 1], it.sub + 1, c.map[it.sub + 1] + c.buffer,
                          it.n + 1)
        /\ it.at + 1 = it.lim
    BY <1>16 DEF DequeNextBuffer, Step, Reading, Going
  <2>2. k < n /\ it.at = c.contents[k + 1]
    BY <1>1, <1>9, <1>10, <2>1
  <2>3. k' = k + 1
    BY <2>1, <2>2, YieldNext
  <2>4. node(k + 2) = node(k + 1) + 1 /\ off(k + 2) = 0 /\ k + 2 \in 1..(n + 1)
    BY <1>1, <1>11, <1>12, <2>1, <2>2
  <2>5. /\ it'.sub = node(k + 2) /\ it'.lim = c.map[node(k + 2)] + c.buffer
        /\ it'.at = c.map[node(k + 2)]
    BY <1>8, <2>1, <2>4 DEF Position
  <2>6. it'.at = c.map[node(k + 2)] + off(k + 2)
    BY <1>4, <2>4, <2>5
  <2>7. DequeHere(c, k)'
    <3>1. (k + 1) + 1 = k + 2
      BY <1>1
    <3>2. QED
      BY <2>1, <2>3, <2>5, <2>6, <3>1 DEF DequeHere
  <2>8. Here(c)'
    BY <1>0, <2>1, <2>7 DEF Here
  <2>9. QED
    BY <2>1, <2>2, <2>8, WalkSteps
<1>17. CASE Stop
  BY <1>10, <1>17, WalkStops DEF Stop
<1>18. ~Unreadable
  BY <1>1, <1>9, <1>10 DEF Unreadable, Going
<1>19. ~DequeMapUnreadable
  BY <1>1, <1>8, <1>10, <1>11, <1>12 DEF DequeMapUnreadable, Reading, Going
<1>20. CASE Follow
  BY <1>20, WalkCommon
<1>21. QED
  BY <1>0, <1>14, <1>15, <1>16, <1>17, <1>18, <1>19, <1>20
  DEF Children, Listing, LinkedChildren,
     VectorChildren, TreeChildren, HashChildren, BitVectorChildren, NoOperator,
     BitsetChildren, TupleChildren, LinkedNext, VectorNext,
     HashNextLink, HashNextBucket, BitVectorNext, TupleNext,
     BitsetNext, TreeNext, TreeDown, TreeUp, TreeUnreadable, Begin, Step, Reading,
     Going, TypeInv, PlaceInv

\* Behind the first k elements of a live hash table, when the bucket of the last
\* of them is used up, the next bucket that is not empty has the element k + 1.
LEMMA NextBucket ==
  ASSUME NEW c, HashRepresents(c), c.buckets \in Seq(Int), c.contents \in Seq(Int),
         NEW k \in 0..Len(c.contents),
         k > 0 /\ k < Len(c.contents) => c.home[k + 1] # c.home[k],
         NEW b, b = IF k = 0 THEN 1 ELSE c.home[k] + 1
  PROVE  /\ Bucket(c, b) \in 1..(Len(c.buckets) + 1)
         /\ IF k = Len(c.contents) THEN BucketHead(c, Bucket(c, b)) = Null
            ELSE /\ Bucket(c, b) = c.home[k + 1]
                 /\ BucketHead(c, Bucket(c, b)) = c.contents[k + 1]
<1> DEFINE n == Len(c.contents)
           m == Len(c.buckets)
<1>1. /\ n \in Nat /\ m \in Nat /\ DOMAIN c.contents = 1..n /\ k \in Nat /\ k <= n
  BY LenProperties
<1>2. /\ \A i \in 1..n : c.home[i] \in 1..m /\ c.home[i] \in Int
      /\ \A i, j \in 1..n : i <= j => c.home[i] <= c.home[j]
      /\ \A i \in 1..n : c.contents[i] # Null
  <2>1. /\ c.home \in [1..n -> 1..m]
        /\ \A i, j \in 1..n : i <= j => c.home[i] <= c.home[j]
        /\ Null \notin Addresses(c)
    BY DEF HashRepresents
  <2>2. \A i \in 1..n : c.home[i] \in 1..m
    BY <2>1
  <2>3. \A i \in 1..n : c.home[i] \in Int
    BY <1>1, <2>2
  <2>4. \A i \in 1..n : c.contents[i] # Null
    BY <1>1, <2>1, Zenon DEF Addresses
  <2>5. QED
    BY <2>1, <2>2, <2>3, <2>4
<1>3. \A d \in 1..m :
        \/ c.buckets[d] = Null /\ \A i \in 1..n : c.home[i] # d
        \/ \E i \in 1..n : /\ c.home[i] = d /\ c.buckets[d] = c.contents[i]
                           /\ i > 1 => c.home[i - 1] # d
  BY DEF HashRepresents
<1>4. b \in 1..(m + 1)
  BY <1>1, <1>2
<1>5. \A i \in 1..k : c.home[i] < b
  <2>1. TAKE i \in 1..k
  <2>2. i \in 1..n /\ k \in 1..n /\ i <= k
    BY <1>1
  <2>3. c.home[i] <= c.home[k] /\ b = c.home[k] + 1
    BY <1>2, <2>2
  <2>4. QED
    BY <1>2, <2>2, <2>3
<1>6. PICK B : B = Bucket(c, b)
  OBVIOUS
<1>7. /\ B \in b..(m + 1)
      /\ B = m + 1 \/ c.buckets[B] # Null
      /\ \A d \in b..(B - 1) : c.buckets[d] = Null
  BY <1>4, <1>6, BucketFound
<1>8. B \in 1..(m + 1)
  BY <1>1, <1>4, <1>7
<1>9. CASE k = n
  <2>1. \A d \in b..m : c.buckets[d] = Null
    <3>1. TAKE d \in b..m
    <3>2. d \in 1..m /\ \A i \in 1..n : c.home[i] # d
      BY <1>1, <1>2, <1>4, <1>5, <1>9
    <3>3. QED
      BY <1>3, <3>2, Zenon
  <2>2. B = m + 1
    BY <1>1, <1>4, <1>7, <2>1
  <2>3. QED
    BY <1>1, <1>6, <1>8, <1>9, <2>2 DEF BucketHead
<1>10. CASE k < n
  <2>1. PICK h : h = c.home[k + 1]
    OBVIOUS
  <2>2. k + 1 \in 1..n /\ h \in 1..m
    BY <1>1, <1>2, <1>10, <2>1
  <2>3. b <= h
    <3>1. CASE k = 0
      BY <2>2, <3>1
    <3>2. CASE k > 0
      <4>1. k \in 1..n /\ c.home[k] <= h /\ c.home[k] # h /\ b = c.home[k] + 1
        BY <1>1, <1>2, <1>10, <2>1, <2>2, <3>2
      <4>2. QED
        BY <1>2, <2>2, <4>1
    <3>3. QED
      BY <1>1, <3>1, <3>2
  <2>4. \A d \in b..(h - 1) : c.buckets[d] = Null
    <3>1. TAKE d \in b..(h - 1)
    <3>2. d \in 1..m /\ d >= b /\ d < h
      BY <1>1, <1>4, <2>2
    <3>3. \A i \in 1..n : c.home[i] # d
      <4>1. TAKE i \in 1..n
      <4>2. CASE i <= k
        <5>1. i \in 1..k
          BY <1>1, <4>2
        <5>2. c.home[i] < b
          BY <1>5, <5>1
        <5>3. c.home[i] \in Int /\ b \in Int /\ d \in Int
          BY <1>2, <1>4, <3>2
        <5>4. QED
          BY <3>2, <5>2, <5>3
      <4>3. CASE i > k
        <5>1. k + 1 <= i
          BY <1>1, <4>3
        <5>2. h <= c.home[i]
          BY <1>2, <2>1, <2>2, <5>1
        <5>3. QED
          BY <1>2, <2>2, <3>2, <5>2
      <4>4. QED
        BY <1>1, <4>2, <4>3
    <3>4. QED
      BY <1>3, <3>2, <3>3, Zenon
  <2>5. c.buckets[h] = c.contents[k + 1]
    <3>1. PICK i \in 1..n : /\ c.home[i] = h /\ c.buckets[h] = c.contents[i]
                            /\ i > 1 => c.home[i - 1] # h
      BY <1>3, <2>1, <2>2, Zenon
    <3>2. ~ (i <= k)
      <4>1. SUFFICES ASSUME i <= k PROVE FALSE
        OBVIOUS
      <4>2. i \in 1..k
        BY <1>1, <4>1
      <4>3. c.home[i] < b
        BY <1>5, <4>2
      <4>4. QED
        BY <1>4, <2>2, <2>3, <3>1, <4>3
    <3>3. ~ (i > k + 1)
      <4>1. SUFFICES ASSUME i > k + 1 PROVE FALSE
        OBVIOUS
      <4>2. i - 1 \in 1..n /\ k + 1 <= i - 1 /\ i - 1 <= i /\ i > 1
        BY <1>1, <4>1
      <4>3. /\ c.home[k + 1] <= c.home[i - 1]
            /\ c.home[i - 1] <= c.home[i]
        BY <1>2, <2>2, <4>2
      <4>4. c.home[i - 1] = h
        <5>1. c.home[i - 1] \in Int /\ h \in Int
          BY <1>2, <2>2, <4>2
        <5>2. QED
          BY <2>1, <3>1, <4>3, <5>1
      <4>5. QED
        BY <3>1, <4>2, <4>4
    <3>4. i = k + 1
      BY <1>1, <3>2, <3>3
    <3>5. QED
      BY <3>1, <3>4
  <2>6. c.buckets[h] # Null
    BY <1>2, <2>2, <2>5
  <2>7. ~ (B > h)
    BY <1>1, <1>4, <1>7, <1>8, <2>2, <2>3, <2>6
  <2>8. ~ (B < h)
    BY <1>1, <1>4, <1>7, <1>8, <2>2, <2>4
  <2>9. B = h
    BY <1>8, <2>2, <2>7, <2>8
  <2>10. BucketHead(c, B) = c.contents[k + 1]
    BY <1>1, <2>2, <2>5, <2>9 DEF BucketHead
  <2>11. QED
    BY <1>6, <1>8, <1>10, <2>1, <2>9, <2>10
<1>11. QED
  BY <1>1, <1>9, <1>10

LEMMA WalkHash ==
  ASSUME TypeInv, Shown(Walked), Progress(Core(val)),
         Core(val).template = "tr1::unordered_set", Children \/ Listing
  PROVE  Progress(Core(val))'
<1> DEFINE c == Core(val)
           n == Len(c.contents)
           k == Len(out)
<1>0. c.template \notin {"vector<bool>", "vector", "bitset", "tuple", "deque"}
                        \cup Trees \cup Linked
  BY DEF Linked, NullEnded, Trees
<1>1. /\ IsContainer(c) /\ n \in Nat /\ k \in Nat /\ k <= n
      /\ \A i \in 1..n : c.contents[i] \in c.memory
      /\ out = <<>> => k = 0
  BY <1>0, LiveCore, ListedLength DEF Others
<1>2. /\ HashRepresents(c) /\ DOMAIN c.contents = 1..n
      /\ c.buckets \in Seq(Int) /\ c.contents \in Seq(Int)
  BY <1>1, LiveCore, LenProperties, HashShape DEF Represents
<1>3. /\ \A i \in 1..n : c.contents[i] # Null
      /\ \A i \in 1..n : c.next[c.contents[i]] =
           IF i < n /\ c.home[i + 1] = c.home[i] THEN c.contents[i + 1] ELSE Null
  <2>1. /\ Null \notin Addresses(c)
        /\ \A i \in 1..n : c.next[c.contents[i]] =
             IF i < n /\ c.home[i + 1] = c.home[i] THEN c.contents[i + 1] ELSE Null
    BY <1>2 DEF HashRepresents
  <2>2. \A i \in 1..n : c.contents[i] # Null
    BY <1>2, <2>1, Zenon DEF Addresses
  <2>3. QED
    BY <2>1, <2>2
<1>4. Exhausted(c) <=> it.at = Null
  BY <1>0 DEF Exhausted, Linked
<1>5. pc = "next" => HashHere(c, k)
  BY DEF Progress, Here
<1>6. pc = "next" => (Exhausted(c) <=> k = n)
  BY <1>1, <1>3, <1>4, <1>5 DEF HashHere
<1>7. CASE HashChildren
  <2>1. PICK b : b = Bucket(c, 1)
    OBVIOUS
  <2>2. Begin({"tr1::unordered_set"}, Position(BucketHead(c, b), b, 0, 0))
    BY <1>7, <2>1 DEF HashChildren
  <2>3. /\ it' = Position(BucketHead(c, b), b, 0, 0) /\ out' = out /\ val' = val
        /\ k = 0
    BY <1>1, <2>2 DEF Begin, Progress
  <2>4. IF 0 = n THEN BucketHead(c, b) = Null
        ELSE b = c.home[1] /\ BucketHead(c, b) = c.contents[1]
    <3>1. 0 \in 0..n /\ 0 + 1 = 1
      BY <1>1
    <3>2. QED
      BY <1>2, <2>1, <3>1, NextBucket
  <2>5. HashHere(c, 0)'
    BY <2>3, <2>4 DEF HashHere, Position
  <2>6. Here(c)'
    BY <1>0, <2>3, <2>5 DEF Here
  <2>7. QED
    BY <2>2, <2>6, WalkBegins
<1>8. CASE HashNextLink
  <2>1. /\ pc = "next" /\ pc' = pc /\ ~Exhausted(c) /\ val' = val /\ Yield(it.at)
        /\ it' = Position(c.next[it.at], it.sub, 0, it.n + 1) /\ c.next[it.at] # Null
    BY <1>8 DEF HashNextLink, Step, Reading, Going
  <2>2. k < n /\ it.at = c.contents[k + 1] /\ it.sub = c.home[k + 1] /\ k + 1 \in 1..n
    BY <1>1, <1>5, <1>6, <2>1 DEF HashHere
  <2>3. k' = k + 1
    BY <2>1, <2>2, YieldNext
  <2>4. (k + 1) + 1 = k + 2 /\ (k + 1 < n <=> k + 1 # n)
    BY <1>1, <2>2
  <2>5. /\ k + 1 # n /\ c.home[k + 2] = c.home[k + 1]
        /\ c.next[it.at] = c.contents[k + 2]
    BY <1>3, <2>1, <2>2, <2>4
  <2>6. it'.at = c.contents[k + 2] /\ it'.sub = c.home[k + 2]
    BY <2>1, <2>2, <2>5 DEF Position
  <2>7. HashHere(c, k)'
    BY <2>1, <2>3, <2>4, <2>5, <2>6 DEF HashHere
  <2>8. Here(c)'
    BY <1>0, <2>1, <2>7 DEF Here
  <2>9. QED
    BY <2>1, <2>2, <2>8, WalkSteps
<1>9. CASE HashNextBucket
  <2>1. PICK b : b = Bucket(c, it.sub + 1)
    OBVIOUS
  <2>2. /\ Step({"tr1::unordered_set"}, it.at, BucketHead(c, b), b, 0)
        /\ c.next[it.at] = Null
    BY <1>9, <2>1 DEF HashNextBucket
  <2>3. /\ pc = "next" /\ pc' = pc /\ ~Exhausted(c) /\ val' = val /\ Yield(it.at)
        /\ it' = Position(BucketHead(c, b), b, 0, it.n + 1)
    BY <2>2 DEF Step, Reading, Going
  <2>4. k < n /\ it.at = c.contents[k + 1] /\ it.sub = c.home[k + 1] /\ k + 1 \in 1..n
    BY <1>1, <1>5, <1>6, <2>3 DEF HashHere
  <2>5. k' = k + 1
    BY <2>3, <2>4, YieldNext
  <2>6. PICK j \in 0..n : j = k + 1 /\ j > 0 /\ j \in 1..n
    BY <1>1, <2>4
  <2>7. j < n => c.home[j + 1] # c.home[j]
    <3>1. SUFFICES ASSUME j < n, c.home[j + 1] = c.home[j] PROVE FALSE
      OBVIOUS
    <3>2. c.next[it.at] = c.contents[j + 1] /\ j + 1 \in 1..n
      BY <1>1, <1>3, <2>4, <2>6, <3>1
    <3>3. QED
      BY <1>3, <2>2, <3>2
  <2>8. it.sub + 1 = IF j = 0 THEN 1 ELSE c.home[j] + 1
    BY <2>4, <2>6
  <2>9. IF j = n THEN BucketHead(c, b) = Null
        ELSE b = c.home[j + 1] /\ BucketHead(c, b) = c.contents[j + 1]
    BY <1>2, <2>1, <2>6, <2>7, <2>8, NextBucket
  <2>10. it'.at = BucketHead(c, b) /\ it'.sub = b
    BY <2>3 DEF Position
  <2>11. HashHere(c, k)'
    BY <2>3, <2>5, <2>6, <2>9, <2>10 DEF HashHere
  <2>12. Here(c)'
    BY <1>0, <2>3, <2>11 DEF Here
  <2>13. QED
    BY <2>3, <2>4, <2>12, WalkSteps
<1>10. CASE Stop
  BY <1>6, <1>10, WalkStops DEF Stop
<1>11. ~Unreadable
  BY <1>1, <1>5, <1>6 DEF Unreadable, Going, HashHere
<1>12. CASE Follow
  BY <1>12, WalkCommon
<1>13. QED
  BY <1>0, <1>7, <1>8, <1>9, <1>10, <1>11, <1>12
  DEF Children, Listing, LinkedChildren,
     VectorChildren, TreeChildren, DequeChildren, BitVectorChildren, NoOperator,
     BitsetChildren, TupleChildren, LinkedNext, VectorNext, DequeNextInBuffer,
     DequeNextBuffer, DequeMapUnreadable, BitVectorNext, TupleNext,
     BitsetNext, TreeNext, TreeDown, TreeUp, TreeUnreadable, Begin, Step, Reading,
     Going, TypeInv, PlaceInv

LEMMA WalkTree ==
  ASSUME TypeInv, Shown(Walked), Progress(Core(val)), Core(val).template \in Trees,
         Children \/ Listing
  PROVE  Progress(Core(val))'
<1> DEFINE c == Core(val)
           n == Len(c.contents)
           k == Len(out)
<1>0. c.template \notin {"vector<bool>", "vector", "bitset", "tuple", "deque",
                         "tr1::unordered_set"} \cup Linked
  BY DEF Linked, NullEnded, Trees
<1>1. /\ IsContainer(c) /\ n \in Nat /\ k \in Nat /\ k <= n
      /\ \A i \in 1..n : c.contents[i] \in c.memory
      /\ out = <<>> => k = 0
  BY <1>0, LiveCore, ListedLength DEF Others
<1>2. TreeRepresents(c)
  BY LiveCore DEF Represents
<1>3. /\ c.count = n
      /\ \A i \in 1..n : c.contents[i] = i
      /\ c.left[c.head] = IF n = 0 THEN c.head ELSE 1
      /\ \A i \in 1..n : c.lo[i] \in 1..n /\ c.hi[i] \in 1..n
      /\ \A i \in 1..n : c.lo[i] <= i /\ i <= c.hi[i]
  BY <1>2 DEF TreeRepresents
<1>4. \A i \in 1..n : /\ c.lo[i] = i => c.left[i] = Null
                      /\ c.lo[i] # i => /\ c.left[i] \in c.lo[i]..(i - 1)
                                        /\ c.lo[c.left[i]] = c.lo[i]
                                        /\ c.hi[c.left[i]] = i - 1
                                        /\ c.parent[c.left[i]] = i
  BY <1>2 DEF TreeRepresents
<1>5. \A i \in 1..n : /\ c.hi[i] = i => c.right[i] = Null
                      /\ c.hi[i] # i => /\ c.right[i] \in (i + 1)..c.hi[i]
                                        /\ c.lo[c.right[i]] = i + 1
                                        /\ c.hi[c.right[i]] = c.hi[i]
                                        /\ c.parent[c.right[i]] = i
  BY <1>2 DEF TreeRepresents
<1>6. \A i \in 1..n : \/ c.lo[i] = 1 /\ c.hi[i] = n
                      \/ /\ c.parent[i] \in 1..n
                         /\ i \in {c.left[c.parent[i]], c.right[c.parent[i]]}
  BY <1>2 DEF TreeRepresents
<1>7. \A i \in 1..n : i \in c.memory
  BY <1>1, <1>3
<1>8. Exhausted(c) <=> it.n = n
  BY <1>0, <1>3 DEF Exhausted, Linked
<1>9. pc \in {"next", "down", "up"} => TreeHere(c, k)
  BY DEF Progress, Here
<1>10. pc = "next" /\ ~Exhausted(c) => k < n /\ it.n = k /\ it.at = k + 1 /\ k + 1 \in 1..n
  BY <1>1, <1>8, <1>9 DEF TreeHere
<1>11. pc \in {"down", "up"} =>
         /\ k + 1 < n /\ it.n = k /\ it.at = k + 1 /\ it.sub \in 1..n
         /\ c.contents[k + 1] = it.at
  BY <1>1, <1>3, <1>9 DEF TreeHere
\* The element at the iterator is returned, and the one behind it is found.
<1>12. ASSUME k < n, it.n = k, it.at = k + 1, val' = val,
              Return(IF k + 1 < n THEN k + 2 ELSE it.at)
       PROVE  Progress(c)'
  <2>1. it.at = c.contents[k + 1]
    BY <1>1, <1>3, <1>12
  <2>2. Yield(c.contents[k + 1]) /\ pc' = "next"
    BY <1>12, <2>1 DEF Return
  <2>3. k' = k + 1
    BY <1>12, <2>2, YieldNext
  <2>4. it'.n = k + 1 /\ it'.at = IF k + 1 < n THEN k + 2 ELSE it.at
    BY <1>12 DEF Return, Position
  <2>5. TreeHere(c, k)'
    BY <1>1, <1>12, <2>2, <2>3, <2>4 DEF TreeHere
  <2>6. Here(c)'
    BY <1>0, <1>12, <2>5 DEF Here
  <2>7. QED
    BY <1>12, <2>2, <2>6, WalkSteps
\* The search goes on.
<1>13. ASSUME val' = val, out' = out, pc \in {"next", "down", "up"},
              pc' \in {"down", "up"}, TreeHere(c, k)'
       PROVE  Progress(c)'
  <2>1. Here(c)'
    BY <1>0, <1>13 DEF Here
  <2>2. QED
    BY <1>13, <2>1 DEF Progress
<1>14. CASE TreeChildren
  <2>1. it' = Position(c.left[c.head], 0, 0, 0) /\ out' = out /\ val' = val /\ k = 0
        /\ pc' = "next"
    BY <1>1, <1>14 DEF TreeChildren, Begin, Progress
  <2>2. TreeHere(c, k)'
    BY <1>1, <1>3, <2>1 DEF TreeHere, Position
  <2>3. Here(c)'
    BY <1>0, <2>1, <2>2 DEF Here
  <2>4. QED
    BY <1>14, <2>3, WalkBegins DEF TreeChildren
<1>15. CASE TreeNext
  <2>1. pc = "next" /\ ~Exhausted(c) /\ val' = val
    BY <1>15 DEF TreeNext, Reading, Going
  <2>2. k < n /\ it.n = k /\ it.at = k + 1 /\ k + 1 \in 1..n
    BY <1>10, <2>1
  <2>3. CASE it.n + 1 = c.count
    <3>1. Return(it.at) /\ ~ (k + 1 < n)
      BY <1>1, <1>3, <1>15, <2>2, <2>3 DEF TreeNext
    <3>2. QED
      BY <1>12, <2>1, <2>2, <3>1
  <2>4. CASE it.n + 1 # c.count /\ c.right[it.at] # Null
    <3>1. /\ pc' = "down" /\ it' = Position(it.at, c.right[it.at], 0, it.n)
          /\ out' = out
      BY <1>15, <2>4 DEF TreeNext
    <3>2. PICK j \in 1..n : j = k + 1
      BY <2>2
    <3>3. c.hi[j] # j
      BY <1>5, <2>2, <2>4, <3>2
    <3>4. c.right[j] \in (j + 1)..c.hi[j] /\ c.lo[c.right[j]] = j + 1
      BY <1>5, <3>3
    <3>5. c.right[j] \in 1..n
      BY <1>3, <3>4
    <3>6. /\ it'.at = k + 1 /\ it'.sub = c.right[j] /\ it'.n = k
      BY <2>2, <3>1, <3>2 DEF Position
    <3>7. k + 1 < n /\ j + 1 = k + 2
      BY <1>1, <1>3, <2>2, <2>4, <3>2
    <3>8. TreeHere(c, k)'
      BY <2>1, <3>1, <3>4, <3>5, <3>6, <3>7 DEF TreeHere
    <3>9. QED
      BY <1>13, <2>1, <3>1, <3>8
  <2>5. CASE it.n + 1 # c.count /\ c.right[it.at] = Null
    <3>1. /\ pc' = "up" /\ it' = Position(it.at, it.at, c.parent[it.at], it.n)
          /\ out' = out
      BY <1>15, <2>5 DEF TreeNext
    <3>2. PICK j \in 1..n : j = k + 1
      BY <2>2
    <3>3. c.hi[j] = j
      <4>1. SUFFICES ASSUME c.hi[j] # j PROVE FALSE
        OBVIOUS
      <4>2. c.right[j] \in (j + 1)..c.hi[j] /\ c.right[j] = 0
        BY <1>5, <2>2, <2>5, <3>2, <4>1 DEF Null
      <4>3. QED
        BY <3>2, <4>2
    <3>4. it'.at = k + 1 /\ it'.sub = j /\ it'.n = k /\ it'.lim = c.parent[j]
      BY <2>2, <3>1, <3>2 DEF Position
    <3>5. k + 1 < n
      BY <1>1, <1>3, <2>2, <2>5
    <3>6. TreeHere(c, k)'
      BY <2>1, <3>1, <3>2, <3>3, <3>4, <3>5 DEF TreeHere
    <3>7. QED
      BY <1>13, <2>1, <3>1, <3>6
  <2>6. QED
    BY <2>3, <2>4, <2>5
<1>16. CASE TreeDown
  <2>1. /\ pc = "down" /\ val' = val /\ it.sub \in 1..n /\ c.lo[it.sub] = k + 2
        /\ k + 1 < n /\ it.n = k /\ it.at = k + 1
    BY <1>9, <1>11, <1>16 DEF TreeDown, TreeHere
  <2>2. PICK j \in 1..n : j = it.sub
    BY <2>1
  <2>3. CASE c.left[j] # Null
    <3>1. pc' = pc /\ it' = Position(it.at, c.left[j], 0, it.n) /\ out' = out
      BY <1>16, <2>2, <2>3 DEF TreeDown
    <3>2. c.left[j] \in c.lo[j]..(j - 1) /\ c.lo[c.left[j]] = c.lo[j]
      BY <1>4, <2>3
    <3>3. c.left[j] \in 1..n
      BY <1>3, <3>2
    <3>4. it'.at = k + 1 /\ it'.sub = c.left[j] /\ it'.n = k
      BY <2>1, <3>1 DEF Position
    <3>5. TreeHere(c, k)'
      BY <2>1, <2>2, <3>1, <3>2, <3>3, <3>4 DEF TreeHere
    <3>6. QED
      BY <1>13, <2>1, <3>1, <3>5
  <2>4. CASE c.left[j] = Null
    <3>1. c.lo[j] = j
      <4>1. SUFFICES ASSUME c.lo[j] # j PROVE FALSE
        OBVIOUS
      <4>2. c.left[j] \in c.lo[j]..(j - 1) /\ c.lo[j] \in 1..n
        BY <1>3, <1>4, <4>1
      <4>3. QED
        BY <2>4, <4>2 DEF Null
    <3>2. it.sub = k + 2
      BY <2>1, <2>2, <3>1
    <3>3. Return(k + 2)
      BY <1>16, <2>2, <2>4, <3>2 DEF TreeDown
    <3>4. k < n
      BY <1>1, <2>1
    <3>5. QED
      BY <1>12, <2>1, <3>3, <3>4
  <2>5. QED
    BY <2>3, <2>4
<1>17. ASSUME pc = "up"
       PROVE  /\ it.sub \in 1..n /\ it.lim \in 1..n /\ it.lim = c.parent[it.sub]
              /\ \/ it.sub = c.right[it.lim] /\ c.hi[it.lim] = k + 1
                 \/ it.sub # c.right[it.lim] /\ it.lim = k + 2
              /\ c.hi[it.sub] = k + 1
  <2>1. /\ it.sub \in 1..n /\ c.hi[it.sub] = k + 1 /\ k + 1 < n
        /\ it.lim = c.parent[it.sub]
    BY <1>9, <1>11, <1>17 DEF TreeHere
  <2>2. PICK j, p : j = it.sub /\ p = c.parent[j]
    OBVIOUS
  <2>3. j \in 1..n /\ c.hi[j] # n
    BY <1>1, <2>1, <2>2
  <2>4. p \in 1..n /\ j \in {c.left[p], c.right[p]}
    BY <1>6, <2>2, <2>3
  <2>5. CASE j = c.right[p]
    <3>1. c.hi[p] # p
      BY <1>5, <2>3, <2>4, <2>5 DEF Null
    <3>2. c.hi[c.right[p]] = c.hi[p]
      BY <1>5, <2>4, <3>1
    <3>3. QED
      BY <2>1, <2>2, <2>4, <2>5, <3>2
  <2>6. CASE j # c.right[p]
    <3>1. j = c.left[p]
      BY <2>4, <2>6
    <3>2. c.lo[p] # p
      BY <1>4, <2>3, <2>4, <3>1 DEF Null
    <3>3. c.hi[c.left[p]] = p - 1
      BY <1>4, <2>4, <3>2
    <3>4. p - 1 = k + 1
      BY <2>1, <2>2, <3>1, <3>3
    <3>5. p = k + 2
      BY <1>1, <2>4, <3>4
    <3>6. QED
      BY <2>1, <2>2, <2>4, <2>6, <3>5
  <2>7. QED
    BY <2>5, <2>6
<1>18. CASE TreeUp
  <2>1. /\ pc = "up" /\ val' = val /\ k + 1 < n /\ it.n = k /\ it.at = k + 1
    BY <1>11, <1>18 DEF TreeUp
  <2>2. PICK j, p \in 1..n : j = it.sub /\ p = it.lim
    BY <1>17, <2>1
  <2>3. CASE j = c.right[p]
    <3>1. pc' = pc /\ it' = Position(it.at, p, c.parent[p], it.n) /\ out' = out
      BY <1>18, <2>2, <2>3 DEF TreeUp
    <3>2. c.hi[p] = k + 1
      <4>1. p \in 1..n /\ k + 2 # k + 1
        BY <1>1
      <4>2. QED
        BY <1>17, <2>1, <2>2, <2>3
    <3>3. it'.at = k + 1 /\ it'.sub = p /\ it'.n = k /\ it'.lim = c.parent[p]
      BY <2>1, <3>1 DEF Position
    <3>4. TreeHere(c, k)'
      BY <2>1, <3>1, <3>2, <3>3 DEF TreeHere
    <3>5. QED
      BY <1>13, <2>1, <3>1, <3>4
  <2>4. CASE j # c.right[p]
    <3>1. p = k + 2 /\ c.hi[j] = k + 1
      BY <1>17, <2>1, <2>2, <2>4
    <3>2. c.right[j] # p
      <4>1. CASE c.hi[j] = j
        BY <1>1, <1>5, <3>1, <4>1 DEF Null
      <4>2. CASE c.hi[j] # j
        <5>1. c.right[j] \in (j + 1)..(k + 1)
          BY <1>5, <3>1, <4>2
        <5>2. QED
          BY <1>1, <3>1, <5>1
      <4>3. QED
        BY <4>1, <4>2
    <3>3. Return(k + 2)
      BY <1>18, <2>2, <2>4, <3>1, <3>2 DEF TreeUp
    <3>4. k < n
      BY <1>1, <2>1
    <3>5. QED
      BY <1>12, <2>1, <3>3, <3>4
  <2>5. QED
    BY <2>3, <2>4
<1>19. CASE Stop
  <2>1. k = n
    BY <1>8, <1>9, <1>19 DEF Stop, TreeHere
  <2>2. QED
    BY <1>19, <2>1, WalkStops
<1>20. ~Unreadable
  BY <1>7, <1>10 DEF Unreadable, Going
<1>21. ~TreeUnreadable
  BY <1>7, <1>11, <1>17 DEF TreeUnreadable
<1>22. CASE Follow
  BY <1>22, WalkCommon
<1>23. QED
  BY <1>0, <1>14, <1>15, <1>16, <1>18, <1>19, <1>20, <1>21, <1>22
  DEF Children, Listing, LinkedChildren,
     VectorChildren, HashChildren, DequeChildren, BitVectorChildren, NoOperator,
     BitsetChildren, TupleChildren, LinkedNext, VectorNext, DequeNextInBuffer,
     DequeNextBuffer, DequeMapUnreadable, HashNextLink, HashNextBucket, BitVectorNext,
     TupleNext, BitsetNext, Begin, Step, Reading, Going

LEMMA WalkBits ==
  ASSUME TypeInv, Shown(Walked), Progress(Core(val)), Core(val).template = "vector<bool>",
         Children \/ Listing
  PROVE  Progress(Core(val))'
<1> DEFINE c == Core(val)
           n == Len(c.contents)
           k == Len(out)
<1>0. c.template \notin {"vector", "deque", "bitset", "tuple",
                         "tr1::unordered_set"} \cup Trees \cup Linked
  BY DEF Linked, NullEnded, Trees
<1>1. /\ IsContainer(c) /\ n \in Nat /\ k \in Nat /\ k <= n
      /\ out = <<>> => k = 0
  BY LiveCore, ListedLength
<1>2. /\ c.minus /\ c.from = 0
      /\ \A i \in 1..n : /\ c.contents[i] = c.start * c.bits + i - 1
                         /\ c.start + ((i - 1) \div c.bits) \in c.memory
  BY LiveCore, BitsLive DEF Shown, LeftOut
<1>3. PICK w \in Nat \ {0}, s, f, r \in Int :
        /\ w = c.bits /\ s = c.start /\ f = c.finish /\ r = c.to
        /\ r \in 0..(w - 1) /\ n = (f - s) * w + r
  <2>1. /\ c.bits \in Nat \ {0} /\ c.start \in Int /\ c.finish \in Int
        /\ c.to \in 0..(c.bits - 1) /\ n = (c.finish - c.start) * c.bits + c.to
    BY LiveCore, BitsLive
  <2>2. c.to \in Int
    BY <2>1
  <2>3. QED
    BY <2>1, <2>2
<1>4. Exhausted(c) <=> it.at = f /\ it.sub >= r
  BY <1>0, <1>3 DEF Exhausted, Linked
<1>5. PICK a, b \in Int : a = it.at /\ b = it.sub
  BY DEF TypeInv, DataInv, Iterator
<1>6. pc = "next" => b \in 0..(w - 1) /\ k = (a - s) * w + b
  BY <1>3, <1>5 DEF Progress, Here, BitHere
<1>7. pc = "next" => (Exhausted(c) <=> k = n)
  <2>1. SUFFICES ASSUME pc = "next" PROVE Exhausted(c) <=> k = n
    OBVIOUS
  <2>2. CASE k = n
    <3>1. (a - s) * w + b = (f - s) * w + r /\ b \in 0..(w - 1)
      BY <1>3, <1>6, <2>1, <2>2
    <3>2. a - s = f - s /\ b = r
      <4>1. PICK d, e \in Int : d = a - s /\ e = f - s
        OBVIOUS
      <4>2. d * w + b = e * w + r /\ b \in 0..(w - 1) /\ r \in 0..(w - 1)
        BY <1>3, <3>1, <4>1
      <4>3. d = e /\ b = r
        BY <4>2, DivisionUnique
      <4>4. QED
        BY <4>1, <4>3
    <3>3. QED
      BY <1>4, <1>5, <2>2, <3>2
  <2>3. CASE Exhausted(c)
    <3>1. a = f /\ b >= r
      BY <1>4, <1>5, <2>3
    <3>2. k >= n
      <4>1. k = (f - s) * w + b
        BY <1>6, <2>1, <3>1
      <4>2. PICK d \in Int : d = (f - s) * w
        OBVIOUS
      <4>3. k = d + b /\ n = d + r /\ b >= r
        BY <1>3, <3>1, <4>1, <4>2
      <4>4. QED
        BY <4>3
    <3>3. QED
      BY <1>1, <2>3, <3>2
  <2>4. QED
    BY <2>2, <2>3
<1>8. ASSUME pc = "next", k < n
      PROVE  /\ k + 1 \in 1..n /\ a * w + b = c.contents[k + 1]
             /\ a \in c.memory
  <2>1. k + 1 \in 1..n /\ (k + 1) - 1 = k
    BY <1>1, <1>8
  <2>2. PICK j \in Nat : j = k
    BY <1>1
  <2>3. c.contents[k + 1] = s * w + j
    <3>1. c.contents[k + 1] = s * w + (k + 1) - 1
      BY <1>2, <1>3, <2>1
    <3>2. s * w + (j + 1) - 1 = s * w + j
      OBVIOUS
    <3>3. QED
      BY <2>2, <3>1, <3>2
  <2>4. j = (a - s) * w + b /\ b \in 0..(w - 1)
    BY <1>6, <1>8, <2>2
  <2>5. a * w + b = s * w + j
    <3>1. (a - s) * w = a * w - s * w
      OBVIOUS
    <3>2. QED
      BY <2>4, <3>1
  <2>6. a \in c.memory
    <3>1. s + (j \div w) \in c.memory
      BY <1>2, <1>3, <2>1, <2>2
    <3>2. j \div w \in Int /\ j % w \in 0..(w - 1) /\ j = (j \div w) * w + (j % w)
      BY Division
    <3>3. PICK q \in Int, m \in 0..(w - 1) : q = j \div w /\ j = q * w + m
      BY <3>2
    <3>4. a - s = q
      <4>1. PICK d \in Int : d = a - s
        OBVIOUS
      <4>2. d * w + b = q * w + m /\ b \in 0..(w - 1)
        BY <2>4, <3>3, <4>1
      <4>3. d = q
        BY <4>2, DivisionUnique
      <4>4. QED
        BY <4>1, <4>3
    <3>5. QED
      BY <3>1, <3>3, <3>4
  <2>7. QED
    BY <2>1, <2>3, <2>5, <2>6
<1>9. CASE BitVectorChildren
  <2>1. it' = Position(c.start, c.from, 0, 0) /\ out' = out /\ val' = val /\ k = 0
    BY <1>1, <1>9 DEF BitVectorChildren, Begin, Progress
  <2>2. it'.at = s /\ it'.sub = 0
    BY <1>2, <1>3, <2>1 DEF Position
  <2>3. 0 \in 0..(w - 1) /\ (s - s) * w + 0 = 0
    OBVIOUS
  <2>4. BitHere(c, k)'
    BY <1>3, <2>1, <2>2, <2>3 DEF BitHere
  <2>5. Here(c)'
    BY <1>0, <2>1, <2>4 DEF Here
  <2>6. QED
    BY <1>9, <2>5, WalkBegins DEF BitVectorChildren
<1>10. CASE BitVectorNext
  <2>1. /\ pc = "next" /\ pc' = pc /\ ~Exhausted(c) /\ val' = val /\ Yield(a * w + b)
        /\ it' = Position(IF LastBit THEN a + 1 ELSE a,
                          IF LastBit THEN 0 ELSE b + 1, 0, it.n + 1)
    BY <1>3, <1>5, <1>10 DEF BitVectorNext, Step, Reading, Going
  <2>2. k < n
    BY <1>1, <1>7, <2>1
  <2>3. Yield(c.contents[k + 1])
    BY <1>8, <2>1, <2>2
  <2>4. k' = k + 1
    BY <2>2, <2>3, YieldNext
  <2>5. PICK x, y \in Int : x = it'.at /\ y = it'.sub
                            /\ x = (IF b + 1 >= w THEN a + 1 ELSE a)
                            /\ y = (IF b + 1 >= w THEN 0 ELSE b + 1)
    BY <1>3, <1>5, <2>1 DEF Position, LastBit
  <2>6. y \in 0..(w - 1) /\ k + 1 = (x - s) * w + y
    <3>1. PICK j \in Int : j = k /\ j = (a - s) * w + b /\ b \in 0..(w - 1)
      BY <1>1, <1>6, <2>1
    <3>2. CASE b + 1 >= w
      <4>1. b = w - 1 /\ x = a + 1 /\ y = 0
        BY <2>5, <3>1, <3>2
      <4>2. ((a + 1) - s) * w = (a - s) * w + w
        OBVIOUS
      <4>3. j + 1 = ((a + 1) - s) * w + 0
        BY <3>1, <4>1, <4>2
      <4>4. QED
        BY <3>1, <4>1, <4>3
    <3>3. CASE ~(b + 1 >= w)
      <4>1. x = a /\ y = b + 1 /\ y \in 0..(w - 1)
        BY <2>5, <3>1, <3>3
      <4>2. j + 1 = (a - s) * w + (b + 1)
        BY <3>1
      <4>3. QED
        BY <3>1, <4>1, <4>2
    <3>4. QED
      BY <3>2, <3>3
  <2>7. BitHere(c, k)'
    BY <1>3, <2>1, <2>4, <2>5, <2>6 DEF BitHere
  <2>8. Here(c)'
    BY <1>0, <2>1, <2>7 DEF Here
  <2>9. QED
    BY <2>1, <2>2, <2>3, <2>8, WalkSteps
<1>11. CASE Stop
  BY <1>7, <1>11, WalkStops DEF Stop
<1>12. ~Unreadable
  BY <1>1, <1>5, <1>7, <1>8 DEF Unreadable, Going
<1>13. CASE Follow
  BY <1>13, WalkCommon
<1>14. ~NoOperator
  BY <1>2 DEF NoOperator
<1>15. QED
  BY <1>0, <1>9, <1>10, <1>11, <1>12, <1>13, <1>14 DEF Children, Listing,
     LinkedChildren, VectorChildren, DequeChildren, TreeChildren, HashChildren,
     BitsetChildren, TupleChildren, LinkedNext, VectorNext, DequeNextInBuffer,
     DequeNextBuffer, DequeMapUnreadable, HashNextLink, HashNextBucket, TupleNext,
     BitsetNext, TreeNext, TreeDown, TreeUp, TreeUnreadable, Begin, Step, Reading,
     Going, TypeInv, PlaceInv

\* A tuple has as many elements as classes before the empty one at its end.
LEMMA TupleLive ==
  ASSUME NEW c, IsContainer(c), c.template = "tuple", Represents(c),
         c.contents \in Seq(Int)
  PROVE  /\ Len(c.contents) \in Nat /\ Len(c.fields) \in Nat
         /\ Len(c.contents) <= Len(c.fields)
         /\ \A i \in 1..Len(c.contents) : c.contents[i] = i /\ c.fields[i] # 0
         /\ Len(c.contents) < Len(c.fields) => c.fields[Len(c.contents) + 1] = 0
<1> DEFINE S == {j \in DOMAIN c.fields : c.fields[j] # 0}
           F == Len(c.fields)
           m == IF F > 0 /\ c.fields[F] = 0 THEN F - 1 ELSE F
<1>1. c.fields \in Seq(Nat)
  BY DEF IsContainer, Shape, Linked, NullEnded, Trees
<1>2. F \in Nat /\ DOMAIN c.fields = 1..F
  BY <1>1, LenProperties
<1>3. /\ c.contents = [i \in 1..Cardinality(S) |-> i]
      /\ \A i \in 1..(F - 1) : c.fields[i] # 0
  BY DEF Represents, OtherRepresents, Others
<1>4. m \in Nat /\ m <= F
  BY <1>2
<1>5. S = 1..m
  BY <1>2, <1>3
<1>6. Cardinality(1..m) = m
  BY <1>4, FS_Interval
<1>7. c.contents = [i \in 1..m |-> i]
  BY <1>3, <1>5, <1>6
<1>8. Len(c.contents) \in Nat /\ DOMAIN c.contents = 1..Len(c.contents)
  BY LenProperties
<1>9. DOMAIN c.contents = 1..m
  BY <1>7
<1>10. Len(c.contents) = m
  BY <1>4, <1>8, <1>9
<1>11. \A i \in 1..m : c.contents[i] = i
  BY <1>7
<1>12. \A i \in 1..m : c.fields[i] # 0
  BY <1>5
<1>13. m < F => c.fields[m + 1] = 0
  BY <1>2
<1>14. m <= F
  BY <1>4
<1> HIDE DEF m, F
<1>15. QED
  BY <1>2, <1>8, <1>10, <1>11, <1>12, <1>13, <1>14 DEF F

LEMMA WalkTuple ==
  ASSUME TypeInv, Shown(Walked), Progress(Core(val)), Core(val).template = "tuple",
         Children \/ Listing
  PROVE  Progress(Core(val))'
<1> DEFINE c == Core(val)
           n == Len(c.contents)
           k == Len(out)
<1>0. c.template \notin {"vector", "deque", "bitset", "vector<bool>",
                         "tr1::unordered_set"} \cup Trees \cup Linked \cup HasMemory
  BY DEF Linked, NullEnded, Trees, HasMemory
<1>1. /\ IsContainer(c) /\ n \in Nat /\ k \in Nat /\ k <= n
      /\ out = <<>> => k = 0
  BY LiveCore, ListedLength
<1>2. /\ n <= Len(c.fields) /\ Len(c.fields) \in Nat
      /\ \A i \in 1..n : c.contents[i] = i /\ c.fields[i] # 0
      /\ n < Len(c.fields) => c.fields[n + 1] = 0
  BY LiveCore, TupleLive
<1>3. Exhausted(c) <=> (it.n < Len(c.fields) => c.fields[it.n + 1] = 0)
  BY <1>0 DEF Exhausted, Linked
<1>4. pc = "next" => it.n = k
  BY DEF Progress, Here, TupleHere
<1>5. pc = "next" => (Exhausted(c) <=> k = n)
  <2>1. SUFFICES ASSUME pc = "next" PROVE Exhausted(c) <=> k = n
    OBVIOUS
  <2>2. CASE k = n
    BY <1>2, <1>3, <1>4, <2>1, <2>2
  <2>3. CASE k < n
    <3>1. k + 1 \in 1..n /\ k < Len(c.fields)
      BY <1>1, <1>2, <2>3
    <3>2. c.fields[k + 1] # 0
      BY <1>2, <3>1
    <3>3. QED
      BY <1>3, <1>4, <2>1, <2>3, <3>1, <3>2
  <2>4. QED
    BY <1>1, <2>2, <2>3
<1>6. CASE TupleChildren
  <2>1. it' = NoIterator /\ out' = out /\ val' = val /\ k = 0
    BY <1>1, <1>6 DEF TupleChildren, Begin, Progress
  <2>2. TupleHere(c, k)'
    BY <2>1 DEF TupleHere, NoIterator, Position
  <2>3. Here(c)'
    BY <1>0, <2>1, <2>2 DEF Here
  <2>4. QED
    BY <1>6, <2>3, WalkBegins DEF TupleChildren
<1>7. CASE TupleNext
  <2>1. /\ pc = "next" /\ pc' = pc /\ ~Exhausted(c) /\ val' = val /\ Yield(it.n + 1)
        /\ it' = Position(0, 0, 0, it.n + 1)
    BY <1>7 DEF TupleNext, Step, Reading, Going
  <2>2. k < n /\ k + 1 \in 1..n /\ it.n = k
    BY <1>1, <1>4, <1>5, <2>1
  <2>3. Yield(c.contents[k + 1])
    BY <1>2, <2>1, <2>2
  <2>4. k' = k + 1
    BY <2>2, <2>3, YieldNext
  <2>5. TupleHere(c, k)'
    BY <2>1, <2>2, <2>4 DEF TupleHere, Position
  <2>6. Here(c)'
    BY <1>0, <2>1, <2>5 DEF Here
  <2>7. QED
    BY <2>1, <2>2, <2>3, <2>6, WalkSteps
<1>8. CASE Stop
  BY <1>5, <1>8, WalkStops DEF Stop
<1>9. ~Unreadable
  BY <1>0 DEF Unreadable, Going
<1>10. CASE Follow
  BY <1>10, WalkCommon
<1>11. QED
  BY <1>0, <1>6, <1>7, <1>8, <1>9, <1>10 DEF Children, Listing,
     LinkedChildren, VectorChildren, DequeChildren, TreeChildren, HashChildren,
     BitVectorChildren, NoOperator, BitsetChildren, LinkedNext, VectorNext,
     DequeNextInBuffer, DequeNextBuffer, DequeMapUnreadable, HashNextLink,
     HashNextBucket, BitVectorNext, BitsetNext, TreeNext, TreeDown, TreeUp,
     TreeUnreadable, Begin, Step, Reading, Going, TypeInv, PlaceInv

\* The bits of a live bitset, by word and place in the word.
LEMMA BitsetLive ==
  ASSUME NEW c, IsContainer(c), c.template = "bitset", Represents(c),
         c.contents \in Seq(Int)
  PROVE  /\ Len(c.words) \in Nat \ {0} /\ c.bits \in Nat \ {0}
         /\ \A w \in 1..Len(c.words) :
              /\ c.words[w] \in Nat
              /\ c.shift[w][0] = c.words[w]
              /\ c.shift[w][c.bits] = 0
              /\ \A j \in 0..c.bits : c.shift[w][j] \in Nat
              /\ \A j \in 0..(c.bits - 1) : c.shift[w][j + 1] = c.shift[w][j] \div 2
         /\ \A i \in 1..Len(c.contents) :
              /\ \A j \in 1..(i - 1) : c.contents[j] < c.contents[i]
              /\ \E w \in 1..Len(c.words), j \in 0..(c.bits - 1) :
                   c.contents[i] = (w - 1) * c.bits + j /\ c.shift[w][j] % 2 = 1
         /\ \A w \in 1..Len(c.words), j \in 0..(c.bits - 1) :
              c.shift[w][j] % 2 = 1 =>
                \E i \in 1..Len(c.contents) : c.contents[i] = (w - 1) * c.bits + j
<1>1. c.words \in Seq(Nat) /\ c.words # <<>> /\ c.bits \in Nat \ {0}
  BY BitsetShape
<1>2. /\ Len(c.words) \in Nat \ {0} /\ DOMAIN c.words = 1..Len(c.words)
      /\ \A w \in 1..Len(c.words) : c.words[w] \in Nat
  BY <1>1, LenProperties, EmptySeq, ElementOfSeq
<1>3. DOMAIN c.contents = 1..Len(c.contents)
  BY LenProperties
<1>4. OtherRepresents(c)
  BY DEF Represents, Others
<1>5. /\ \A i \in DOMAIN c.contents : \A j \in 1..(i - 1) : c.contents[j] < c.contents[i]
      /\ Shifts(c)
      /\ Addresses(c) = UNION {BitsOf(c, w) : w \in DOMAIN c.words}
  BY <1>4 DEF OtherRepresents
<1>6. \A w \in 1..Len(c.words) :
        /\ c.shift[w][0] = c.words[w]
        /\ c.shift[w][c.bits] = 0
        /\ \A j \in 0..c.bits : c.shift[w][j] \in Nat
        /\ \A j \in 0..(c.bits - 1) : c.shift[w][j + 1] = c.shift[w][j] \div 2
  BY <1>2, <1>5 DEF Shifts
<1>7. ASSUME NEW i \in 1..Len(c.contents)
      PROVE  \E w \in 1..Len(c.words), j \in 0..(c.bits - 1) :
               c.contents[i] = (w - 1) * c.bits + j /\ c.shift[w][j] % 2 = 1
  <2>1. c.contents[i] \in Addresses(c)
    BY <1>3 DEF Addresses
  <2>2. PICK w \in 1..Len(c.words) : c.contents[i] \in BitsOf(c, w)
    BY <1>2, <1>5, <2>1
  <2>3. QED
    BY <2>2 DEF BitsOf
<1>8. ASSUME NEW w \in 1..Len(c.words), NEW j \in 0..(c.bits - 1),
             c.shift[w][j] % 2 = 1
      PROVE  \E i \in 1..Len(c.contents) : c.contents[i] = (w - 1) * c.bits + j
  <2>1. (w - 1) * c.bits + j \in BitsOf(c, w)
    BY <1>8 DEF BitsOf
  <2>2. (w - 1) * c.bits + j \in Addresses(c)
    BY <1>2, <1>5, <2>1
  <2>3. QED
    BY <1>3, <2>2 DEF Addresses
<1>9. QED
  BY <1>1, <1>2, <1>3, <1>5, <1>6, <1>7, <1>8

\* When nothing is left of a word, the bits from there on are not set.
LEMMA NothingLeftOfWord ==
  ASSUME NEW b \in Nat, NEW f, NEW s \in 0..b, f[s] = 0,
         \A j \in 0..(b - 1) : f[j + 1] = f[j] \div 2
  PROVE  \A j \in s..b : f[j] = 0
<1> DEFINE T == {j \in s..b : f[j] # 0}
<1>1. SUFFICES ASSUME T # {} PROVE FALSE
  OBVIOUS
<1>2. T \subseteq Nat
  OBVIOUS
<1>3. PICK m \in T : \A x \in T : m <= x
  BY <1>1, <1>2, LeastNat
<1>4. m \in s..b /\ m # s /\ m - 1 \in s..b /\ m - 1 \in 0..(b - 1)
  OBVIOUS
<1>5. m - 1 \notin T
  BY <1>3, <1>4
<1>6. f[m - 1] = 0
  BY <1>4, <1>5
<1>7. f[(m - 1) + 1] = 0 \div 2 /\ (m - 1) + 1 = m
  BY <1>4, <1>6
<1>8. QED
  BY <1>7

\* A bit of one of the first m words has a number below those of the next.
LEMMA BelowNextWord ==
  ASSUME NEW b \in Nat \ {0}, NEW m \in Nat, NEW u \in 1..m, NEW j \in 0..(b - 1)
  PROVE  (u - 1) * b + j < m * b
<1>1. PICK d \in Nat : d = m - u
  OBVIOUS
<1>2. d * b >= 0
  OBVIOUS
<1>3. m * b = (u - 1) * b + b + d * b
  BY <1>1
<1>4. PICK p, q, r \in Int : p = (u - 1) * b /\ q = d * b /\ r = m * b
  OBVIOUS
<1>5. QED
  BY <1>2, <1>3, <1>4

LEMMA WalkBitset ==
  ASSUME TypeInv, Shown(Walked), Progress(Core(val)), Core(val).template = "bitset",
         Children \/ Listing
  PROVE  Progress(Core(val))'
<1> DEFINE c == Core(val)
           n == Len(c.contents)
           k == Len(out)
           L == Len(c.words)
<1>0. c.template \notin {"vector", "deque", "tuple", "vector<bool>",
                         "tr1::unordered_set"} \cup Trees \cup Linked \cup HasMemory
  BY DEF Linked, NullEnded, Trees, HasMemory
<1>1. /\ IsContainer(c) /\ n \in Nat /\ k \in Nat /\ k <= n
      /\ \A i \in 1..n : c.contents[i] \in Int
      /\ out = <<>> => k = 0
  BY LiveCore, ListedLength
<1>2. PICK b \in Nat \ {0}, N \in Nat \ {0} : b = c.bits /\ N = L
  BY LiveCore, BitsetLive
<1>3. \A w \in 1..N :
        /\ c.words[w] \in Nat
        /\ c.shift[w][0] = c.words[w]
        /\ c.shift[w][b] = 0
        /\ \A j \in 0..b : c.shift[w][j] \in Nat
        /\ \A j \in 0..(b - 1) : c.shift[w][j + 1] = c.shift[w][j] \div 2
  BY <1>2, LiveCore, BitsetLive
<1>4. \A i \in 1..n :
        /\ \A j \in 1..(i - 1) : c.contents[j] < c.contents[i]
        /\ \E w \in 1..N, j \in 0..(b - 1) :
             c.contents[i] = (w - 1) * b + j /\ c.shift[w][j] % 2 = 1
  <2>1. \A i \in 1..Len(c.contents) :
          /\ \A j \in 1..(i - 1) : c.contents[j] < c.contents[i]
          /\ \E w \in 1..Len(c.words), j \in 0..(c.bits - 1) :
               c.contents[i] = (w - 1) * c.bits + j /\ c.shift[w][j] % 2 = 1
    BY LiveCore, BitsetLive
  <2>2. QED
    BY <1>2, <2>1, Zenon
<1>5. \A w \in 1..N, j \in 0..(b - 1) :
        c.shift[w][j] % 2 = 1 => \E i \in 1..n : c.contents[i] = (w - 1) * b + j
  BY <1>2, LiveCore, BitsetLive
<1>6. Exhausted(c) <=> it.n > N
  BY <1>0, <1>2 DEF Exhausted, Linked
<1>7. PICK w, s, l \in Int : w = it.n /\ s = it.sub /\ l = it.lim
  BY DEF TypeInv, DataInv, Iterator
<1>8. ASSUME pc = "next"
      PROVE  /\ w \in 1..(N + 1)
             /\ w <= N => s \in 0..b /\ l = c.shift[w][s]
             /\ w > N => s = 0 /\ l = 0
             /\ \A i \in 1..n : i <= k <=> c.contents[i] < (w - 1) * b + s
  BY <1>2, <1>7, <1>8 DEF Progress, Here, BitsetHere
<1>9. ASSUME pc = "next", w > N
      PROVE  k = n
  <2>1. SUFFICES ASSUME k < n PROVE FALSE
    BY <1>1
  <2>2. n \in 1..n /\ ~(n <= k)
    BY <1>1, <2>1
  <2>3. w = N + 1 /\ s = 0
    BY <1>8, <1>9
  <2>4. ~(c.contents[n] < N * b)
    <3>1. ~(c.contents[n] < (w - 1) * b + s)
      BY <1>8, <1>9, <2>2
    <3>2. (w - 1) * b + s = N * b
      BY <2>3
    <3>3. QED
      BY <3>1, <3>2
  <2>5. PICK u \in 1..N, j \in 0..(b - 1) : c.contents[n] = (u - 1) * b + j
    BY <1>4, <2>2
  <2>6. (u - 1) * b + j < N * b
    BY <2>5, BelowNextWord
  <2>7. QED
    BY <2>4, <2>5, <2>6
<1>10. CASE BitsetChildren
  <2>1. it' = Position(0, 0, c.words[1], 1) /\ out' = out /\ val' = val /\ k = 0
    BY <1>1, <1>10 DEF BitsetChildren, Begin, Progress
  <2>2. 1 \in 1..(N + 1) /\ 1 \in 1..N /\ 0 \in 0..b /\ c.words[1] = c.shift[1][0]
    BY <1>3
  <2>3. ASSUME NEW i \in 1..n
        PROVE  i <= 0 <=> c.contents[i] < (1 - 1) * b + 0
    <3>1. PICK u \in 1..N, j \in 0..(b - 1) : c.contents[i] = (u - 1) * b + j
      BY <1>4
    <3>2. (u - 1) * b >= 0
      <4>1. PICK d \in Nat : d = u - 1
        OBVIOUS
      <4>2. d * b >= 0
        OBVIOUS
      <4>3. QED
        BY <4>1, <4>2
    <3>3. PICK p \in Int : p = (u - 1) * b
      OBVIOUS
    <3>4. c.contents[i] >= 0
      BY <3>1, <3>2, <3>3
    <3>5. (1 - 1) * b + 0 = 0
      OBVIOUS
    <3>6. QED
      BY <1>1, <3>4, <3>5
  <2>4. BitsetHere(c, k)'
    BY <1>2, <2>1, <2>2, <2>3 DEF BitsetHere, Position
  <2>5. Here(c)'
    BY <1>0, <2>1, <2>4 DEF Here
  <2>6. QED
    BY <1>10, <2>5, WalkBegins DEF BitsetChildren
<1>11. ASSUME BitsetNext, l # 0, l % 2 = 1
       PROVE  Progress(c)'
  <2>0. pc = "next" /\ pc' = pc /\ val' = val
    BY <1>11 DEF BitsetNext, Going
  <2>1. pc = "next" /\ pc' = pc /\ val' = val /\ w \in 1..N /\ s \in 0..(b - 1)
    <3>1. /\ w \in 1..(N + 1)
          /\ w <= N => s \in 0..b /\ l = c.shift[w][s]
          /\ w > N => l = 0
      BY <1>8, <2>0
    <3>2. w \in 1..N /\ s \in 0..b /\ l = c.shift[w][s]
      BY <1>11, <3>1
    <3>3. s # b
      BY <1>3, <1>11, <3>2
    <3> QED
      BY <2>0, <3>2, <3>3
  <2>2. Yield((w - 1) * b + s) /\ it' = Position(0, s + 1, l \div 2, w)
    BY <1>2, <1>7, <1>11 DEF BitsetNext, BitNumber
  <2>3. \A i \in 1..n : i <= k <=> c.contents[i] < (w - 1) * b + s
    BY <1>8, <2>1
  <2>4. PICK i \in 1..n : c.contents[i] = (w - 1) * b + s
    BY <1>5, <1>8, <1>11, <2>1
  <2>5. PICK p \in Int : p = (w - 1) * b + s
    OBVIOUS
  <2>6. i = k + 1
    <3>1. i > k
      BY <1>1, <2>3, <2>4, <2>5
    <3>2. SUFFICES ASSUME i # k + 1 PROVE FALSE
      OBVIOUS
    <3>3. k + 1 \in 1..n /\ k + 1 \in 1..(i - 1) /\ ~(k + 1 <= k)
      BY <1>1, <3>1, <3>2
    <3>4. c.contents[k + 1] < p /\ ~(c.contents[k + 1] < p)
      BY <1>4, <2>3, <2>4, <2>5, <3>3
    <3>5. QED
      BY <3>4
  <2>7. k < n /\ Yield(c.contents[k + 1])
    BY <1>1, <2>2, <2>4, <2>6
  <2>8. k' = k + 1
    BY <2>7, YieldNext
  <2>9. ASSUME NEW h \in 1..n
        PROVE  h <= k + 1 <=> c.contents[h] < (w - 1) * b + (s + 1)
    <3>1. (w - 1) * b + (s + 1) = p + 1
      BY <2>5
    <3>2. c.contents[h] \in Int /\ (h <= k <=> c.contents[h] < p)
      BY <1>1, <2>3, <2>5
    <3>3. h = k + 1 => c.contents[h] = p
      BY <2>4, <2>5, <2>6
    <3>4. h > k + 1 => p < c.contents[h]
      <4>1. SUFFICES ASSUME h > k + 1 PROVE p < c.contents[h]
        OBVIOUS
      <4>2. k + 1 \in 1..(h - 1)
        BY <1>1, <4>1
      <4>3. QED
        BY <1>4, <2>4, <2>5, <2>6, <4>2
    <3>5. QED
      BY <1>1, <3>1, <3>2, <3>3, <3>4
  <2>10. l \div 2 = c.shift[w][s + 1] /\ s + 1 \in 0..b
    BY <1>3, <1>8, <2>1
  <2>11. BitsetHere(c, k)'
    <3>1. /\ it'.n = w /\ it'.sub = s + 1 /\ it'.lim = l \div 2
          /\ w <= N /\ w \in 1..(N + 1)
      BY <2>1, <2>2 DEF Position
    <3>2. \A h \in 1..n : h <= k' <=> c.contents[h] < (w - 1) * b + (s + 1)
      BY <2>8, <2>9
    <3> QED
      BY <1>2, <2>1, <2>10, <3>1, <3>2 DEF BitsetHere
  <2>12. Here(c)'
    BY <1>0, <2>1, <2>11 DEF Here
  <2>13. QED
    BY <2>1, <2>7, <2>12, WalkSteps
<1>12. ASSUME BitsetNext, l # 0, l % 2 # 1
       PROVE  Progress(c)'
  <2>1. pc = "next" /\ pc' = pc /\ val' = val /\ w \in 1..N /\ s \in 0..b
    BY <1>6, <1>7, <1>8, <1>12 DEF BitsetNext, Going
  <2>2. out' = out
    BY <1>7, <1>12 DEF BitsetNext
  <2>3. it' = Position(0, s + 1, l \div 2, w)
    BY <1>7, <1>12 DEF BitsetNext
  <2>4. s \in 0..(b - 1) /\ l = c.shift[w][s]
    BY <1>3, <1>8, <1>12, <2>1
  <2>5. ASSUME NEW i \in 1..n
        PROVE  i <= k <=> c.contents[i] < (w - 1) * b + (s + 1)
    <3>1. c.contents[i] # (w - 1) * b + s
      <4>1. SUFFICES ASSUME c.contents[i] = (w - 1) * b + s PROVE FALSE
        OBVIOUS
      <4>2. PICK u \in 1..N, j \in 0..(b - 1) :
              c.contents[i] = (u - 1) * b + j /\ c.shift[u][j] % 2 = 1
        BY <1>4
      <4>3. PICK x \in Int, y \in Int : x = u - 1 /\ y = w - 1
        OBVIOUS
      <4>4. x * b + j = y * b + s
        BY <4>1, <4>2, <4>3
      <4>5. x = y /\ j = s
        BY <2>4, <4>4, DivisionUnique
      <4>6. u = w /\ j = s
        BY <4>3, <4>5
      <4>7. QED
        BY <1>12, <2>4, <4>2, <4>6
    <3>2. PICK p \in Int : p = (w - 1) * b + s
      OBVIOUS
    <3>3. (w - 1) * b + (s + 1) = p + 1
      BY <3>2
    <3>4. c.contents[i] \in Int /\ c.contents[i] # p /\ (i <= k <=> c.contents[i] < p)
      BY <1>1, <1>8, <2>1, <3>1, <3>2
    <3>5. QED
      BY <3>3, <3>4
  <2>6. l \div 2 = c.shift[w][s + 1] /\ s + 1 \in 0..b
    BY <1>3, <2>1, <2>4
  <2>7. BitsetHere(c, k)'
    BY <1>2, <2>1, <2>2, <2>3, <2>5, <2>6 DEF BitsetHere, Position
  <2>8. Here(c)'
    BY <1>0, <2>1, <2>2, <2>7 DEF Here
  <2>9. QED
    BY <2>1, <2>2, <2>8 DEF Progress
<1>13. ASSUME BitsetNext, l = 0
       PROVE  Progress(c)'
  <2>1. pc = "next" /\ pc' = pc /\ val' = val /\ w \in 1..N /\ s \in 0..b
    BY <1>6, <1>7, <1>8, <1>13 DEF BitsetNext, Going
  <2>2. out' = out
    BY <1>7, <1>13 DEF BitsetNext
  <2>3. it' = Position(0, 0, IF w < N THEN c.words[w + 1] ELSE 0, w + 1)
    BY <1>2, <1>7, <1>13 DEF BitsetNext
  <2>4. \A j \in s..b : c.shift[w][j] = 0
    <3>1. c.shift[w][s] = 0
      BY <1>8, <1>13, <2>1
    <3>2. \A j \in 0..(b - 1) : c.shift[w][j + 1] = c.shift[w][j] \div 2
      BY <1>3, <2>1
    <3>3. QED
      BY <2>1, <3>1, <3>2, NothingLeftOfWord
  <2>5. ASSUME NEW i \in 1..n
        PROVE  i <= k <=> c.contents[i] < w * b + 0
    <3>1. PICK u \in 1..N, j \in 0..(b - 1) :
            c.contents[i] = (u - 1) * b + j /\ c.shift[u][j] % 2 = 1
      BY <1>4
    <3>2. PICK p \in Int : p = (w - 1) * b
      OBVIOUS
    <3>3. c.contents[i] \in Int /\ (i <= k <=> c.contents[i] < p + s)
      BY <1>1, <1>8, <2>1, <3>2
    <3>4. w * b + 0 = p + b
      BY <3>2
    <3>5. CASE u = w
      <4>1. j < s
        BY <2>1, <2>4, <3>1, <3>5
      <4>2. c.contents[i] = p + j
        BY <3>1, <3>2, <3>5
      <4>3. QED
        BY <2>1, <3>3, <3>4, <4>1, <4>2
    <3>6. CASE u < w
      <4>1. (u - 1) * b + j < (w - 1) * b
        <5>1. PICK x \in Nat : x = w - 1
          BY <2>1
        <5>2. u \in 1..x
          BY <3>6, <5>1
        <5>3. (u - 1) * b + j < x * b
          BY <5>2, BelowNextWord
        <5>4. QED
          BY <5>1, <5>3
      <4>2. c.contents[i] < p
        BY <3>1, <3>2, <4>1
      <4>3. QED
        BY <2>1, <3>3, <3>4, <4>2
    <3>7. CASE u > w
      <4>1. PICK q \in Int : q = (u - 1) * b
        OBVIOUS
      <4>2. q >= p + b
        <5>1. PICK d \in Nat : d = u - 1 - w
          BY <2>1, <3>7
        <5>2. d * b >= 0
          OBVIOUS
        <5>3. q = p + b + d * b
          BY <3>2, <4>1, <5>1
        <5>4. QED
          BY <5>2, <5>3
      <4>3. c.contents[i] >= p + b
        BY <3>1, <4>1, <4>2
      <4>4. QED
        BY <2>1, <3>3, <3>4, <4>3
    <3>8. QED
      BY <2>1, <3>5, <3>6, <3>7
  <2>6. /\ w + 1 \in 1..(N + 1) /\ 0 \in 0..b /\ (w + 1) - 1 = w
        /\ w + 1 <= N <=> w < N
        /\ w < N => c.words[w + 1] = c.shift[w + 1][0]
    BY <1>3, <2>1
  <2>7. BitsetHere(c, k)'
    BY <1>2, <2>1, <2>2, <2>3, <2>5, <2>6 DEF BitsetHere, Position
  <2>8. Here(c)'
    BY <1>0, <2>1, <2>2, <2>7 DEF Here
  <2>9. QED
    BY <2>1, <2>2, <2>8 DEF Progress
<1>14. CASE Stop
  <2>1. pc = "next" /\ w > N
    BY <1>6, <1>7, <1>14 DEF Stop
  <2>2. QED
    BY <1>9, <1>14, <2>1, WalkStops
<1>15. ~Unreadable
  BY <1>0 DEF Unreadable, Going
<1>16. CASE Follow
  BY <1>16, WalkCommon
<1>17. CASE BitsetNext
  BY <1>11, <1>12, <1>13, <1>17
<1>18. QED
  BY <1>0, <1>10, <1>14, <1>15, <1>16, <1>17 DEF Children, Listing,
     LinkedChildren, VectorChildren, DequeChildren, TreeChildren, HashChildren,
     BitVectorChildren, NoOperator, TupleChildren, LinkedNext, VectorNext,
     DequeNextInBuffer, DequeNextBuffer, DequeMapUnreadable, HashNextLink,
     HashNextBucket, BitVectorNext, TupleNext, TreeNext, TreeDown, TreeUp,
     TreeUnreadable, Begin, Step, Reading, Going, TypeInv, PlaceInv

LEMMA WalkInit == Init => WalkInv
<1> SUFFICES ASSUME Init, Shown(Walked) PROVE Progress(Core(val))
  BY DEF WalkInv
<1>1. TypeInv
  BY TypeInit
<1>2. PICK s \in Seq(Int) : s = Core(val).contents
  BY <1>1, LiveCore
<1>3. IsPrefixOf(out, Core(val).contents)
  BY <1>2, EmptyIsPrefix DEF Init
<1>4. pc \in {"member", "print"} /\ out = <<>>
  BY DEF Init
<1>5. QED
  BY <1>3, <1>4 DEF Progress

LEMMA WalkNext == TypeInv /\ WalkInv /\ [Next]_vars => WalkInv'
<1> SUFFICES ASSUME TypeInv, WalkInv, [Next]_vars, Shown(Walked)'
             PROVE  Progress(Core(val))'
  BY DEF WalkInv
<1>1. val' = val
  BY ValueKept
<1>2. Shown(Walked)
  BY <1>1 DEF Shown
<1>3. Progress(Core(val))
  BY <1>2 DEF WalkInv
<1>4. CASE Children \/ Listing
  <2>1. \/ Core(val).template \in Linked
        \/ Core(val).template \in Trees
        \/ Core(val).template = "tr1::unordered_set"
        \/ Core(val).template = "vector"
        \/ Core(val).template = "deque"
        \/ Core(val).template = "vector<bool>"
        \/ Core(val).template = "tuple"
        \/ Core(val).template = "bitset"
    BY <1>2 DEF Shown, Walked
  <2>2. QED
    BY <1>2, <1>3, <1>4, <2>1, WalkLinked, WalkTree, WalkHash, WalkVector, WalkDeque,
       WalkBits, WalkTuple, WalkBitset
<1>5. CASE Dispatch \/ UNCHANGED vars
  BY <1>2, <1>3, <1>5, WalkCommon
<1>6. QED
  BY <1>4, <1>5 DEF Next, Ended

LEMMA WalkAlways == Spec => [](TypeInv /\ WalkInv)
BY TypeInit, TypeNext, WalkInit, WalkNext, PTL DEF Spec

\* The progress of a listing is what ListsAll states.
LEMMA ProgressLists ==
  ASSUME WalkInv, NEW T \in SUBSET Walked
  PROVE  ListsAll(T)
BY DEF WalkInv, Shown, Progress, ListsAll

\* The iterators that go by links list every element of every live list or hash
\* table once and in order, over any number of empty buckets, and stop there.
THEOREM LinkedAreListed == Spec => []LinkedListed
<1>1. WalkInv => LinkedListed
  BY ProgressLists DEF LinkedListed, Walked
<1>2. QED
  BY <1>1, WalkAlways, PTL

\* The iterators that compute addresses list every live vector and every live
\* deque, whatever the sizes of elements and buffers and wherever the buffers are.
THEOREM ArraysAreListed == Spec => []ArraysListed
<1>1. WalkInv => ArraysListed
  BY ProgressLists DEF ArraysListed, Walked
<1>2. QED
  BY <1>1, WalkAlways, PTL

\* RbtreeIterator lists the nodes of every live search tree in order, balanced or
\* not, and its search for the next node never leaves the tree.
THEOREM TreesAreListed == Spec => []TreesListed
<1>1. WalkInv => TreesListed
  BY ProgressLists DEF TreesListed, Walked
<1>2. QED
  BY <1>1, WalkAlways, PTL

\* The iterator of a live vector<bool> visits every bit once, over any number of
\* words of any width, and that of a tuple every element, whether the last class
\* is empty or not.  StdBitsetPrinter lists the number of every bit that is set in
\* a live bitset, in order, and no other number, for every width of a word, every
\* number of words and every value of them.
THEOREM BitsAreListed == Spec => []BitsListed
<1>1. WalkInv => BitsListed
  BY ProgressLists DEF BitsListed, Walked, Others
<1>2. QED
  BY <1>1, WalkAlways, PTL

----------------------------------------------------------------------------
(* What is announced.                                                      *)

\* The places of a live deque, in elements from the first node of its map on.
LEMMA DequeSizeLive ==
  ASSUME NEW c, IsContainer(c), c.template = "deque", Represents(c),
         Len(c.contents) \in Nat
  PROVE  DequeSize(c) = Len(c.contents)
<1> DEFINE n == Len(c.contents)
           node(i) == c.place[i][1]
           off(i) == c.place[i][2]
           line(i) == node(i) * c.buffer + off(i)
<1>1. DequeRepresents(c)
  BY DEF Represents
<1>2. /\ c.startNode \in Int /\ c.finishNode \in Int /\ c.buffer \in Nat \ {0}
      /\ \A d \in DOMAIN c.map : c.map[d] \in Int
  BY DequeShape
<1>3. \A i \in 1..(n + 1) : /\ node(i) \in c.startNode..c.finishNode
                            /\ off(i) \in 0..(c.buffer - 1)
  BY <1>1 DEF DequeRepresents
<1>4. \A i \in 1..(n + 1) : node(i) \in Int /\ off(i) \in Int /\ node(i) \in DOMAIN c.map
  BY <1>1, <1>2, <1>3 DEF DequeRepresents
<1>5. \A i \in 1..n : c.place[i + 1] = IF off(i) + 1 = c.buffer
                                         THEN <<node(i) + 1, 0>>
                                         ELSE <<node(i), off(i) + 1>>
  BY <1>1 DEF DequeRepresents
<1>6. \A i \in 1..n : line(i + 1) = line(i) + 1
  <2>1. SUFFICES ASSUME NEW i \in 1..n PROVE line(i + 1) = line(i) + 1
    OBVIOUS
  <2>2. PICK d, o, w \in Int : d = node(i) /\ o = off(i) /\ w = c.buffer
    <3>1. n \in Nat /\ i \in 1..(n + 1)
      BY LenProperties, <2>1
    <3>2. node(i) \in Int /\ off(i) \in Int /\ c.buffer \in Int
      BY <1>2, <1>4, <3>1
    <3> QED
      BY <3>2, Zenon
  <2>3. CASE o + 1 = w
    <3>1. node(i + 1) = d + 1 /\ off(i + 1) = 0
      <4>1. c.place[i + 1] = <<d + 1, 0>>
        BY <1>5, <2>2, <2>3
      <4>2. QED
        BY <4>1
    <3>2. (d + 1) * w = d * w + w
      OBVIOUS
    <3>3. line(i + 1) = (d + 1) * w + 0 /\ line(i) = d * w + o
      BY <2>2, <3>1
    <3>4. PICK p \in Int : p = d * w
      OBVIOUS
    <3>5. QED
      BY <2>3, <3>2, <3>3, <3>4
  <2>4. CASE o + 1 # w
    <3>1. node(i + 1) = d /\ off(i + 1) = o + 1
      <4>1. c.place[i + 1] = <<d, o + 1>>
        BY <1>5, <2>2, <2>4
      <4>2. QED
        BY <4>1
    <3>2. line(i + 1) = d * w + (o + 1) /\ line(i) = d * w + o
      BY <2>2, <3>1
    <3>3. QED
      BY <3>2
  <2>5. QED
    BY <2>3, <2>4
<1>7. \A i \in 1..(n + 1) : line(i) \in Int
  BY <1>2, <1>4
<1> DEFINE Off == {i \in 1..(n + 1) : line(i) # line(1) + i - 1}
<1>8. Off = {}
  <2> HIDE DEF line
  <2>1. SUFFICES ASSUME Off # {} PROVE FALSE
    OBVIOUS
  <2>2. PICK m \in Off : \A x \in Off : m <= x
    <3>1. Off \in SUBSET Nat
      OBVIOUS
    <3>2. QED
      BY <2>1, <3>1, LeastNat
  <2>3. 1 \in 1..(n + 1) /\ line(1) \in Int
    BY <1>7
  <2>4. m # 1 /\ m \in 1..(n + 1)
    BY <2>2, <2>3
  <2>5. m - 1 \in 1..n /\ (m - 1) + 1 = m
    BY <2>4
  <2>6. m - 1 \notin Off /\ m - 1 \in 1..(n + 1)
    BY <2>2, <2>5
  <2>7. line(m - 1) = line(1) + (m - 1) - 1
    BY <2>6
  <2>8. line(m) = line(m - 1) + 1
    BY <1>6, <2>5
  <2>9. line(m) = line(1) + m - 1
    BY <2>3, <2>4, <2>7, <2>8
  <2>10. QED
    BY <2>2, <2>9
<1>9. line(n + 1) = line(1) + n
  <2> HIDE DEF line
  <2>1. n + 1 \in 1..(n + 1) /\ 1 \in 1..(n + 1)
    OBVIOUS
  <2>2. line(n + 1) = line(1) + (n + 1) - 1
    BY <1>8, <2>1
  <2>3. QED
    BY <1>7, <2>1, <2>2
<1>10. /\ c.start = c.map[c.startNode] + off(1) /\ node(1) = c.startNode
       /\ c.last = c.map[c.startNode] + c.buffer
       /\ c.finish = c.map[c.finishNode] + off(n + 1) /\ node(n + 1) = c.finishNode
       /\ c.finishFirst = c.map[c.finishNode]
  BY <1>1 DEF DequeRepresents
<1>11. 1 \in 1..(n + 1) /\ n + 1 \in 1..(n + 1)
  OBVIOUS
<1>12. /\ off(1) \in Int /\ off(n + 1) \in Int
       /\ c.map[c.startNode] \in Int /\ c.map[c.finishNode] \in Int
  <2>1. c.startNode \in DOMAIN c.map /\ c.finishNode \in DOMAIN c.map
    BY <1>4, <1>10, <1>11
  <2>2. QED
    BY <1>2, <1>4, <1>11, <2>1
<1>13. PICK a, b, x, y \in Int : /\ a = off(1) /\ b = off(n + 1)
                                 /\ x = c.map[c.startNode] /\ y = c.map[c.finishNode]
  BY <1>12
<1>14. PICK s, f, w \in Int : s = c.startNode /\ f = c.finishNode /\ w = c.buffer
  BY <1>2
<1>15. f * w + b = (s * w + a) + n
  BY <1>9, <1>10, <1>13, <1>14
<1>16. c.start = x + a /\ c.last = x + w /\ c.finish = y + b /\ c.finishFirst = y
  BY <1>10, <1>13, <1>14
<1>17. c.last - c.start = w - a /\ c.finish - c.finishFirst = b
  <2>1. (x + w) - (x + a) = w - a /\ (y + b) - y = b
    OBVIOUS
  <2>2. QED
    BY <1>16, <2>1
<1>18. DequeSize(c) = w * (f - s - 1) + (w - a) + b
  BY <1>14, <1>17 DEF DequeSize
<1>19. w * (f - s - 1) = f * w - s * w - w
  OBVIOUS
<1>20. PICK p, q, k \in Int : p = f * w /\ q = s * w /\ k = n
  OBVIOUS
<1>21. DequeSize(c) = (p - q - w) + (w - a) + b /\ p + b = (q + a) + k
  BY <1>15, <1>18, <1>19, <1>20
<1>22. DequeSize(c) = k
  BY <1>21
<1>23. QED
  BY <1>20, <1>22

\* What to_string computes from the fields of a live container is its size.
LEMMA SizeLive ==
  ASSUME NEW c, IsContainer(c), c.template \in Counted, Represents(c),
         c.contents \in Seq(Int)
  PROVE  Size(c) = Len(c.contents)
<1>1. Len(c.contents) \in Nat
  BY LenProperties
<1>2. CASE c.template = "vector"
  BY <1>1, <1>2, VectorLengthLive DEF Size
<1>3. CASE c.template = "vector<bool>"
  <2>1. PICK n, w, d, r \in Int :
          /\ n = Len(c.contents) /\ w = c.bits /\ d = c.finish - c.start
          /\ r = c.to /\ n = d * w + r /\ c.from = 0
    BY <1>3, BitsLive
  <2>2. w * (d - 1) = d * w - w
    OBVIOUS
  <2>3. PICK p \in Int : p = d * w
    OBVIOUS
  <2>4. BitVectorLength(c) = (w - 0) + (p - w) + r
    BY <2>1, <2>2, <2>3 DEF BitVectorLength
  <2>5. QED
    BY <1>3, <2>1, <2>3, <2>4 DEF Size
<1>4. CASE c.template = "deque"
  BY <1>1, <1>4, DequeSizeLive DEF Size
<1>5. CASE c.template \in Trees
  BY <1>5 DEF Size, Represents, TreeRepresents, Trees
<1>6. CASE c.template \in {"unordered_set", "unordered_map"}
  BY <1>6 DEF Size, Represents, LinkedRepresents, Linked, NullEnded
<1>7. CASE c.template = "tr1::unordered_set"
  BY <1>7 DEF Size, Represents, HashRepresents
<1>8. QED
  BY <1>2, <1>3, <1>4, <1>5, <1>6, <1>7 DEF Counted

\* A live container that is left out is given up before its elements are listed.
LeftInv ==
  val.live /\ Core(val).template \in Container /\ LeftOut(val) =>
    \/ pc \in {"member", "hidden"}
    \/ /\ pc \in {"print", "children", "failed"}
       /\ Core(val).template = "vector<bool>" /\ ~Core(val).minus

\* What has been announced of another one is its size.
SaidInv ==
  val.live /\ Core(val).template \in Counted /\ ~LeftOut(val) =>
    \/ pc \in {"member", "print"}
    \/ said = Len(Core(val).contents)

LEMMA LeftInit == Init => LeftInv
<1> SUFFICES ASSUME Init, val.live, Core(val).template \in Container, LeftOut(val),
                    pc # "member"
             PROVE  /\ pc = "print"
                    /\ Core(val).template = "vector<bool>" /\ ~Core(val).minus
  BY DEF LeftInv
<1>1. ~val.member /\ pc = "print"
  BY DEF Init
<1>2. QED
  BY <1>1 DEF LeftOut

LEMMA LeftNext == TypeInv /\ LeftInv /\ [Next]_vars => LeftInv'
<1> SUFFICES ASSUME TypeInv, LeftInv, [Next]_vars,
                    val.live, Core(val).template \in Container, LeftOut(val)
             PROVE  \/ pc' \in {"member", "hidden"}
                    \/ /\ pc' \in {"print", "children", "failed"}
                       /\ Core(val).template = "vector<bool>" /\ ~Core(val).minus
  BY ValueKept DEF LeftInv
<1>1. \/ pc \in {"member", "hidden"}
      \/ /\ pc \in {"print", "children", "failed"}
         /\ Core(val).template = "vector<bool>" /\ ~Core(val).minus
  BY DEF LeftInv
<1>2. val \in Value
  BY DEF TypeInv, PlaceInv
<1>3. CASE Member
  <2>1. pc' = IF Passes(val) THEN "print" ELSE "hidden"
    BY <1>3 DEF Member
  <2>2. SUFFICES ASSUME Passes(val)
                 PROVE  Core(val).template = "vector<bool>" /\ ~Core(val).minus
    BY <2>1
  <2>3. CASE val.mentionsVector
    <3>1. /\ val.template \in {"vector", "vector<bool>"}
          /\ Len(val.contents) \in 1..(VectorLimit - 1)
      BY <1>2, <2>2, <2>3, PassesLive
    <3>2. QED
      BY <3>1 DEF LeftOut
  <2>4. CASE ~val.mentionsVector
    BY <2>4 DEF LeftOut
  <2>5. QED
    BY <2>3, <2>4
<1>4. ~ (PointerMember \/ PrintPointer \/ PrintStruct)
  BY DEF PointerMember, PrintPointer, PrintStruct, PrinterFor, Core, Container,
     Adaptor, Linked, NullEnded, Trees, Others
<1>5. CASE Announce
  BY <1>1, <1>5 DEF Announce
<1>6. CASE Children
  <2>1. pc = "children"
    BY <1>6 DEF Children, LinkedChildren, VectorChildren, DequeChildren, TreeChildren,
       HashChildren, BitVectorChildren, NoOperator, BitsetChildren, TupleChildren, Begin
  <2>2. Core(val).template = "vector<bool>" /\ ~Core(val).minus
    BY <1>1, <2>1
  <2>3. NoOperator
    BY <1>6, <2>2 DEF Children, LinkedChildren, VectorChildren, DequeChildren,
       TreeChildren, HashChildren, BitVectorChildren, BitsetChildren, TupleChildren,
       Begin, Linked, NullEnded, Trees
  <2>4. QED
    BY <2>2, <2>3 DEF NoOperator
<1>7. ~Listing
  BY <1>1 DEF Listing, Stop, Follow, FollowElement, FollowFails, FollowEnds,
     Unreadable, LinkedNext, VectorNext,
     DequeNextInBuffer, DequeNextBuffer, DequeMapUnreadable, HashNextLink,
     HashNextBucket, BitVectorNext, TupleNext, BitsetNext, TreeNext, TreeDown, TreeUp,
     TreeUnreadable, Step, Going, Reading
<1>8. CASE UNCHANGED vars
  BY <1>1, <1>8 DEF vars
<1>9. QED
  BY <1>3, <1>4, <1>5, <1>6, <1>7, <1>8 DEF Next, Dispatch, Ended

LEMMA SaidInit == Init => SaidInv
BY DEF Init, SaidInv

LEMMA SaidNext == TypeInv /\ WalkInv /\ SaidInv /\ [Next]_vars => SaidInv'
<1> SUFFICES ASSUME TypeInv, WalkInv, SaidInv, [Next]_vars,
                    val.live, Core(val).template \in Counted, ~LeftOut(val)
             PROVE  pc' \in {"member", "print"} \/ said' = Len(Core(val).contents)
  BY ValueKept DEF SaidInv
<1>1. pc \in {"member", "print"} \/ said = Len(Core(val).contents)
  BY DEF SaidInv
<1>2. Shown(Walked)
  BY DEF Shown, Walked, Counted, Linked, NullEnded
<1>3. pc \notin {"failed", "hidden"} /\ pc' \notin {"failed", "hidden"}
  BY <1>2, WalkNext, ValueKept DEF WalkInv, Progress, Shown
<1>4. CASE Member
  BY <1>3, <1>4 DEF Member
<1>5. ~ (PointerMember \/ PrintPointer \/ PrintStruct)
  BY DEF PointerMember, PrintPointer, PrintStruct, PrinterFor, Core, Container,
     Counted, Adaptor, Linked, NullEnded, Trees, Others
<1>6. CASE Announce
  <2>1. Size(Core(val)) = Len(Core(val).contents)
    BY <1>2, LiveCore, SizeLive
  <2>2. QED
    BY <1>6, <2>1 DEF Announce
<1>7. CASE Children
  <2>1. pc = "children" /\ said' = said
    BY <1>7 DEF Children, LinkedChildren, VectorChildren, DequeChildren, TreeChildren,
       HashChildren, BitVectorChildren, NoOperator, BitsetChildren, TupleChildren, Begin
  <2>2. QED
    BY <1>1, <2>1
<1>8. CASE Listing
  <2>1. pc \notin {"member", "print"} /\ said' = said
    BY <1>8 DEF Listing, Stop, Follow, FollowElement, FollowFails, FollowEnds,
       Unreadable, LinkedNext, VectorNext,
       DequeNextInBuffer, DequeNextBuffer, DequeMapUnreadable, HashNextLink,
       HashNextBucket, BitVectorNext, TupleNext, BitsetNext, TreeNext, TreeDown,
       TreeUp, TreeUnreadable, Step, Going, Reading
  <2>2. QED
    BY <1>1, <2>1
<1>9. CASE UNCHANGED vars
  BY <1>1, <1>9 DEF vars
<1>10. QED
  BY <1>4, <1>5, <1>6, <1>7, <1>8, <1>9 DEF Next, Dispatch, Ended

\* The size that to_string announces of a live container, computed from pointers,
\* nodes and words or read from a counter, is the number of elements that children
\* lists, whatever the sizes of buffers, words and elements.
THEOREM AnnouncementIsListed == Spec => []AnnouncedIsListed
<1>1. TypeInv /\ WalkInv /\ LeftInv /\ SaidInv => AnnouncedIsListed
  <2>1. SUFFICES ASSUME TypeInv, WalkInv, LeftInv, SaidInv,
                        val.live, Core(val).template \in Counted, pc = "done"
                 PROVE  said = Len(out)
    BY DEF AnnouncedIsListed
  <2>2. Core(val).template \in Container /\ Core(val).template \in Walked
    BY <2>1 DEF Counted, Container, Walked, Linked, NullEnded, Trees, Others
  <2>3. ~LeftOut(val)
    BY <2>1, <2>2 DEF LeftInv
  <2>4. out = Core(val).contents
    BY <2>1, <2>2, <2>3 DEF WalkInv, Shown, Progress
  <2>5. said = Len(Core(val).contents)
    BY <2>1, <2>3 DEF SaidInv
  <2>6. QED
    BY <2>4, <2>5
<1>2. QED
  BY <1>1, WalkAlways, WalkNext, TypeInit, TypeNext, WalkInit, LeftInit, LeftNext,
     SaidInit, SaidNext, PTL DEF Spec

----------------------------------------------------------------------------
(* Members that are vectors of pointers.                                   *)

Followed == val.live /\ val.member /\ val.mentionsVector /\ val.pointers

\* Why printer() is not called for more elements of the sequence c than f.
StoppedAt(f, c) == Len(f) < Len(c) => c[Len(f) + 1] \in val.raises

NoneRaises(f) == \A i \in 1..Len(f) : f[i] \notin val.raises

\* The elements are followed in order, once all of them have been listed, up to the
\* first one that raises an error.
FollowInv ==
  Followed =>
    /\ LeftOut(val) => pc \in {"member", "hidden"}
    /\ pc \in {"member", "print", "children", "next"} => followed = <<>>
    /\ pc \in {"follow", "done"} =>
         IsPrefixOf(followed, val.contents) /\ NoneRaises(followed)
    /\ pc = "done" => StoppedAt(followed, val.contents)

LEMMA FollowedIsVector ==
  ASSUME TypeInv, Followed
  PROVE  /\ val.template = "vector" /\ Core(val) = val
         /\ VectorLength(val) = Len(val.contents)
         /\ val.contents \in Seq(Int) /\ Len(val.contents) \in Nat
         /\ val.start \in Int /\ val.width \in Nat \ {0}
         /\ \A i \in 1..Len(val.contents) :
              val.contents[i] = val.start + (i - 1) * val.width
<1>1. val \in Value /\ val.live
  BY DEF TypeInv, PlaceInv, Followed
<1>2. val.template = "vector"
  BY <1>1, ValueAssumption DEF IsValue, Followed
<1>3. Core(val) = val
  BY <1>2 DEF Core, Adaptor
<1>4. IsContainer(val)
  BY <1>1, <1>2, ValueAssumption DEF IsValue, Container
<1>5. val.contents \in Seq(Int) /\ Represents(val)
  BY <1>1, <1>4 DEF IsContainer
<1>6. Len(val.contents) \in Nat /\ DOMAIN val.contents = 1..Len(val.contents)
  BY <1>5, LenProperties
<1>7. VectorRepresents(val)
  BY <1>2, <1>5 DEF Represents
<1>8. QED
  BY <1>2, <1>3, <1>4, <1>5, <1>6, <1>7, VectorLengthLive, VectorShape
  DEF VectorRepresents

LEMMA FollowInit == Init => FollowInv
BY DEF Init, FollowInv, Followed

LEMMA FollowNext == TypeInv /\ FollowInv /\ [Next]_vars => FollowInv'
<1> SUFFICES ASSUME TypeInv, FollowInv, [Next]_vars, Followed'
             PROVE  /\ (LeftOut(val) => pc \in {"member", "hidden"})'
                    /\ (pc \in {"member", "print", "children", "next"}
                          => followed = <<>>)'
                    /\ (pc \in {"follow", "done"} =>
                          IsPrefixOf(followed, val.contents) /\ NoneRaises(followed))'
                    /\ (pc = "done" => StoppedAt(followed, val.contents))'
  BY DEF FollowInv
<1>1. val' = val
  BY ValueKept
<1>2. Followed
  BY <1>1 DEF Followed
<1>3. /\ LeftOut(val) => pc \in {"member", "hidden"}
      /\ pc \in {"member", "print", "children", "next"} => followed = <<>>
      /\ pc \in {"follow", "done"} =>
           IsPrefixOf(followed, val.contents) /\ NoneRaises(followed)
      /\ pc = "done" => StoppedAt(followed, val.contents)
  BY <1>2 DEF FollowInv
<1>4. /\ val.template = "vector" /\ Core(val) = val
      /\ VectorLength(val) = Len(val.contents)
      /\ val.contents \in Seq(Int) /\ Len(val.contents) \in Nat
      /\ val.start \in Int /\ val.width \in Nat \ {0}
      /\ \A i \in 1..Len(val.contents) :
           val.contents[i] = val.start + (i - 1) * val.width
  BY <1>2, FollowedIsVector
<1>5. CASE Member
  <2>1. /\ pc = "member" /\ UNCHANGED followed /\ followed = <<>>
        /\ pc' = IF Passes(val) THEN "print" ELSE "hidden"
    BY <1>3, <1>5 DEF Member
  <2>2. LeftOut(val) => ~Passes(val)
    <3>1. LeftOut(val) => Len(val.contents) \notin 1..(VectorLimit - 1)
      BY <1>4 DEF LeftOut
    <3>2. Passes(val) => Len(val.contents) > 0 /\ Len(val.contents) < VectorLimit
      BY <1>2, <1>4 DEF Passes, Difference, Followed
    <3>3. VectorLimit \in Nat
      BY LimitAssumption
    <3>4. QED
      BY <1>4, <3>1, <3>2, <3>3
  <2>3. QED
    BY <1>1, <2>1, <2>2
<1>6. CASE PointerMember \/ PrintPointer \/ PrintStruct
  BY <1>4, <1>6 DEF PointerMember, PrintPointer, PrintStruct, PrinterFor, Container
<1>7. CASE Announce \/ Children
  <2>1. /\ pc \in {"print", "children"} /\ UNCHANGED followed
        /\ pc' \in {"children", "next", "failed"}
    BY <1>7 DEF Announce, Children, LinkedChildren, VectorChildren, DequeChildren,
       TreeChildren, HashChildren, BitVectorChildren, NoOperator, BitsetChildren,
       TupleChildren, Begin
  <2>2. QED
    BY <1>1, <1>3, <2>1
<1>8. CASE Stop
  <2>1. pc = "next" /\ UNCHANGED followed /\ followed = <<>> /\ pc' = "follow"
    BY <1>2, <1>3, <1>8 DEF Stop, Followed
  <2>2. PICK s \in Seq(Int) : s = val.contents
    BY <1>4
  <2>3. IsPrefixOf(<<>>, s)
    BY EmptyIsPrefix
  <2>4. NoneRaises(<<>>)
    BY DEF NoneRaises
  <2>5. QED
    BY <1>1, <1>3, <2>1, <2>2, <2>3, <2>4 DEF NoneRaises
<1>9. CASE Follow
  <2>1. /\ pc = "follow" /\ IsPrefixOf(followed, val.contents) /\ ~LeftOut(val)
        /\ NoneRaises(followed)
    BY <1>3, <1>9 DEF Follow, FollowElement, FollowFails, FollowEnds
  <2>2. PICK s \in Seq(Int) : s = val.contents
    BY <1>4
  <2>3. PICK f \in Seq(Int) : f = followed
    BY DEF TypeInv, DataInv
  <2>4. Len(f) \in Nat /\ Len(s) \in Nat /\ IsPrefixOf(f, s) /\ NoneRaises(f)
    BY <2>1, <2>2, <2>3, LenProperties
  <2>5. LeftToFollow <=> Len(f) < Len(s)
    BY <1>4, <2>2, <2>3 DEF LeftToFollow
  <2>6. Len(f) < Len(s) => s[Len(f) + 1] = Element
    <3>1. SUFFICES ASSUME Len(f) < Len(s) PROVE s[Len(f) + 1] = Element
      OBVIOUS
    <3>2. Len(f) + 1 \in 1..Len(s) /\ (Len(f) + 1) - 1 = Len(f)
      BY <2>4, <3>1
    <3>3. s[Len(f) + 1] = val.start + Len(f) * val.width
      BY <1>4, <2>2, <3>2
    <3>4. QED
      BY <2>3, <3>3 DEF Element
  <2>7. CASE FollowElement
    <3>1. /\ Len(f) < Len(s) /\ s[Len(f) + 1] \notin val.raises /\ pc' = pc
          /\ followed' = Append(f, s[Len(f) + 1])
      BY <2>3, <2>5, <2>6, <2>7 DEF FollowElement
    <3>2. Len(f) + 1 \in 1..Len(s)
      BY <2>4, <3>1
    <3>3. PICK e \in Int : e = s[Len(f) + 1]
      BY <3>2, ElementOfSeq
    <3>4. PICK g \in Seq(Int) : g = Append(f, e)
      BY AppendProperties
    <3>5. IsPrefixOf(g, s)
      BY <2>4, <3>1, <3>3, <3>4, PrefixGrows
    <3>6. NoneRaises(g)
      <4>1. /\ Len(g) = Len(f) + 1 /\ g[Len(f) + 1] = e
            /\ \A i \in 1..Len(f) : g[i] = f[i]
        BY <3>4, AppendProperties
      <4>2. SUFFICES ASSUME NEW i \in 1..Len(g) PROVE g[i] \notin val.raises
        BY DEF NoneRaises
      <4>3. i \in 1..Len(f) \/ i = Len(f) + 1
        BY <2>4, <4>1, <4>2
      <4>4. CASE i = Len(f) + 1
        BY <3>1, <3>3, <4>1, <4>4
      <4>5. CASE i \in 1..Len(f)
        BY <2>4, <4>1, <4>5 DEF NoneRaises
      <4>6. QED
        BY <4>3, <4>4, <4>5
    <3>7. /\ followed' = g /\ IsPrefixOf(g, val.contents) /\ NoneRaises(g)
          /\ pc' = "follow"
      BY <2>1, <2>2, <3>1, <3>3, <3>4, <3>5, <3>6
    <3>8. NoneRaises(followed)'
      BY <1>1, <3>7 DEF NoneRaises
    <3>9. QED
      BY <1>1, <2>1, <3>7, <3>8
  <2>8. CASE FollowFails \/ FollowEnds
    <3>1. followed' = followed /\ pc' = "done"
      BY <2>8 DEF FollowFails, FollowEnds
    <3>2. Len(f) < Len(s) => s[Len(f) + 1] \in val.raises
      BY <2>5, <2>6, <2>8 DEF FollowFails, FollowEnds
    <3>3. StoppedAt(followed, val.contents)
      BY <2>2, <2>3, <3>2 DEF StoppedAt
    <3>4. NoneRaises(followed)' /\ StoppedAt(followed, val.contents)'
      BY <1>1, <2>1, <3>1, <3>3 DEF NoneRaises, StoppedAt
    <3>5. QED
      BY <1>1, <2>1, <3>1, <3>4
  <2>9. QED
    BY <1>9, <2>7, <2>8 DEF Follow
<1>10. CASE Listing /\ ~Stop /\ ~Follow
  <2>1. /\ UNCHANGED followed /\ pc \in {"next", "down", "up"}
        /\ pc' \in {"next", "down", "up", "failed"}
    BY <1>10 DEF Listing, Unreadable, LinkedNext, VectorNext, DequeNextInBuffer,
       DequeNextBuffer, DequeMapUnreadable, HashNextLink, HashNextBucket,
       BitVectorNext, TupleNext, BitsetNext, TreeNext, TreeDown, TreeUp,
       TreeUnreadable, Step, Reading, Going, Return
  <2>2. pc = "next"
    BY <1>4, <2>1 DEF TypeInv, PlaceInv, Trees
  <2>3. QED
    BY <1>1, <1>3, <2>1, <2>2
<1>11. CASE UNCHANGED vars
  <2>1. followed' = followed /\ pc' = pc
    BY <1>11 DEF vars
  <2>2. /\ (LeftOut(val) => pc \in {"member", "hidden"})'
        /\ (pc \in {"member", "print", "children", "next"} => followed = <<>>)'
    BY <1>1, <1>3, <2>1
  <2>3. (pc \in {"follow", "done"} =>
           IsPrefixOf(followed, val.contents) /\ NoneRaises(followed))'
    BY <1>1, <1>3, <2>1 DEF NoneRaises
  <2>4. (pc = "done" => StoppedAt(followed, val.contents))'
    BY <1>1, <1>3, <2>1 DEF StoppedAt
  <2>5. QED
    BY <2>2, <2>3, <2>4
<1>12. QED
  BY <1>5, <1>6, <1>7, <1>8, <1>9, <1>10, <1>11 DEF Next, Dispatch, Ended

\* printer() is called for the elements of a live vector of pointers that is a member,
\* once each and in order, up to the first one for which it raises an error; if it does
\* so for none of them, for all that have been listed, whatever the size of the vector.
THEOREM ElementsAreFollowed == Spec => []ElementsFollowed
<1>1. TypeInv /\ WalkInv /\ FollowInv => ElementsFollowed
  <2>1. SUFFICES ASSUME TypeInv, WalkInv, FollowInv, Followed, pc = "done"
                 PROVE  /\ IsPrefixOf(followed, out)
                        /\ NoneRaises(followed)
                        /\ StoppedAt(followed, out)
    BY DEF ElementsFollowed, Followed, NoneRaises, StoppedAt
  <2>2. /\ ~LeftOut(val) /\ IsPrefixOf(followed, val.contents) /\ NoneRaises(followed)
        /\ StoppedAt(followed, val.contents)
    BY <2>1 DEF FollowInv
  <2>3. Core(val) = val /\ val.template = "vector"
    BY <2>1, FollowedIsVector
  <2>4. Shown(Walked)
    BY <2>1, <2>2, <2>3 DEF Shown, Walked, Followed
  <2>5. out = val.contents
    BY <2>1, <2>3, <2>4 DEF WalkInv, Progress
  <2>6. QED
    BY <2>2, <2>5
<1>2. QED
  BY <1>1, WalkAlways, FollowInit, FollowNext, PTL DEF Spec
============================================================================
