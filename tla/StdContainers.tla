--------------------------- MODULE StdContainers ---------------------------
(***************************************************************************)
(* How libstdc++ keeps its containers in memory.                           *)
(*                                                                         *)
(* This is not code of ErrorDumper: it is what its printers take for       *)
(* granted of the program they look at.  A container is a record with the  *)
(* fields that the printers read.  An element is named by its address.     *)
(* For a container that is live, "contents" are its elements in order, and *)
(* Represents says how the memory of the program holds them.  Of one whose *)
(* constructor has not run yet, or whose life has ended, only Shape is     *)
(* known.                                                                  *)
(***************************************************************************)
EXTENDS Integers, Sequences, FiniteSets

Null == 0

NullEnded == {"slist", "forward_list", "unordered_set", "unordered_map"}
Linked == {"list"} \cup NullEnded
Trees == {"set", "map"}
Others == {"vector<bool>", "bitset", "tuple"}
Container ==
  Linked \cup Trees \cup Others \cup {"vector", "deque", "tr1::unordered_set"}

\* Those that an iterator reads from memory while it runs.
HasMemory == Container \ {"bitset", "tuple"}

Addresses(v) == {v.contents[i] : i \in DOMAIN v.contents}

\* A list is a ring through its head, or ends with a null pointer.
LinkedRepresents(v) ==
  LET n == Len(v.contents)
      end == IF v.template = "list" THEN v.head ELSE Null
  IN  /\ v.template \in {"unordered_set", "unordered_map"} => v.count = n
      /\ end \notin Addresses(v)
      /\ v.next[v.head] = IF n = 0 THEN end ELSE v.contents[1]
      /\ \A i \in 1..n :
           v.next[v.contents[i]] = IF i = n THEN end ELSE v.contents[i + 1]

VectorRepresents(v) ==
  /\ v.finish = v.start + Len(v.contents) * v.width
  /\ \A i \in DOMAIN v.contents : v.contents[i] = v.start + (i - 1) * v.width

\* A deque has buffers in a row of nodes; finish is in the buffer that the next
\* element at the end would go to.  The element i is in v.place[i], a node and
\* an offset.
DequeRepresents(v) ==
  LET n == Len(v.contents)
      first(d) == v.map[d]
  IN  /\ v.startNode..v.finishNode \subseteq DOMAIN v.map
      /\ v.place \in [1..(n + 1) -> (v.startNode..v.finishNode)
                                      \X (0..(v.buffer - 1))]
      /\ v.start = first(v.startNode) + v.place[1][2]
      /\ v.place[1][1] = v.startNode
      /\ v.last = first(v.startNode) + v.buffer
      /\ v.finish = first(v.finishNode) + v.place[n + 1][2]
      /\ v.place[n + 1][1] = v.finishNode
      /\ v.finishFirst = first(v.finishNode)
      /\ v.finish \notin Addresses(v)
      /\ \A i \in 1..n :
           /\ v.contents[i] = first(v.place[i][1]) + v.place[i][2]
           /\ v.place[i + 1] = IF v.place[i][2] + 1 = v.buffer
                                 THEN <<v.place[i][1] + 1, 0>>
                                 ELSE <<v.place[i][1], v.place[i][2] + 1>>

\* The nodes of a tree are named by the order of their elements; the subtree of
\* the node i holds v.lo[i]..v.hi[i].
TreeRepresents(v) ==
  LET n == Len(v.contents)
  IN  /\ v.count = n
      /\ v.head \notin 0..n
      /\ \A i \in 1..n : v.contents[i] = i
      /\ v.left[v.head] = IF n = 0 THEN v.head ELSE 1
      /\ v.lo \in [1..n -> 1..n] /\ v.hi \in [1..n -> 1..n]
      /\ \A i \in 1..n :
           /\ v.lo[i] <= i /\ i <= v.hi[i]
           /\ IF v.lo[i] = i THEN v.left[i] = Null
              ELSE /\ v.left[i] \in v.lo[i]..(i - 1)
                   /\ v.lo[v.left[i]] = v.lo[i] /\ v.hi[v.left[i]] = i - 1
                   /\ v.parent[v.left[i]] = i
           /\ IF v.hi[i] = i THEN v.right[i] = Null
              ELSE /\ v.right[i] \in (i + 1)..v.hi[i]
                   /\ v.lo[v.right[i]] = i + 1 /\ v.hi[v.right[i]] = v.hi[i]
                   /\ v.parent[v.right[i]] = i
           /\ \/ v.lo[i] = 1 /\ v.hi[i] = n
              \/ /\ v.parent[i] \in 1..n
                 /\ i \in {v.left[v.parent[i]], v.right[v.parent[i]]}

\* The elements of a bucket are linked; v.home[i] is the bucket of element i.
HashRepresents(v) ==
  LET n == Len(v.contents)
  IN  /\ v.count = n
      /\ Null \notin Addresses(v)
      /\ v.home \in [1..n -> 1..Len(v.buckets)]
      /\ \A i, j \in 1..n : i <= j => v.home[i] <= v.home[j]
      /\ \A b \in 1..Len(v.buckets) :
           \/ v.buckets[b] = Null /\ \A i \in 1..n : v.home[i] # b
           \/ \E i \in 1..n : /\ v.home[i] = b
                              /\ v.buckets[b] = v.contents[i]
                              /\ i > 1 => v.home[i - 1] # b
      /\ \A i \in 1..n :
           v.next[v.contents[i]] =
             IF i < n /\ v.home[i + 1] = v.home[i] THEN v.contents[i + 1] ELSE Null

\* A word of a bitset shifted to the right: v.shift[w][j] is the word w without
\* its j lowest bits, and nothing is left when all of them are gone.
Shifts(v) ==
  /\ v.shift \in [DOMAIN v.words -> [0..v.bits -> Nat]]
  /\ \A w \in DOMAIN v.words :
       /\ v.shift[w][0] = v.words[w]
       /\ \A j \in 0..(v.bits - 1) : v.shift[w][j + 1] = v.shift[w][j] \div 2
       /\ v.shift[w][v.bits] = 0

\* The numbers of the bits that are set in the word w.
BitsOf(v, w) ==
  {(w - 1) * v.bits + j : j \in {b \in 0..(v.bits - 1) : v.shift[w][b] % 2 = 1}}

\* The other ones, by their contents: n bits, the bits that are set, the classes.
OtherRepresents(v) ==
  /\ v.template = "vector<bool>" =>
       /\ v.from = 0
       /\ v.finish = v.start + Len(v.contents) \div v.bits
       /\ v.to = Len(v.contents) % v.bits
       /\ \A i \in DOMAIN v.contents :
            /\ v.contents[i] = v.start * v.bits + i - 1
            /\ v.start + ((i - 1) \div v.bits) \in v.memory
  /\ v.template = "bitset" =>
       /\ \A i \in DOMAIN v.contents :
            \A j \in 1..(i - 1) : v.contents[j] < v.contents[i]
       /\ Shifts(v)
       /\ Addresses(v) = UNION {BitsOf(v, w) : w \in DOMAIN v.words}
  /\ v.template = "tuple" =>
       /\ v.contents = [i \in 1..Cardinality({j \in DOMAIN v.fields :
                                              v.fields[j] # 0}) |-> i]
       /\ \A i \in 1..(Len(v.fields) - 1) : v.fields[i] # 0

Represents(v) ==
  /\ v.template \in Linked => LinkedRepresents(v)
  /\ v.template = "vector" => VectorRepresents(v)
  /\ v.template = "deque" => DequeRepresents(v)
  /\ v.template \in Trees => TreeRepresents(v)
  /\ v.template = "tr1::unordered_set" => HashRepresents(v)
  /\ v.template \in Others => OtherRepresents(v)

\* The fields of a value, live or not.
Shape(v) ==
  LET pointer == v.memory \subseteq Int /\ v.head \in v.memory
      links == [v.memory -> Int]
  IN  /\ v.template \in Linked => pointer /\ v.next \in links /\ v.count \in Int
      /\ v.template = "vector" =>
           /\ v.memory \subseteq Int
           /\ {v.start, v.finish} \subseteq Int /\ v.width \in Nat \ {0}
      /\ v.template = "deque" =>
           /\ v.memory \subseteq Int
           /\ {v.start, v.last, v.finish, v.finishFirst, v.startNode, v.finishNode}
                 \subseteq Int
           /\ v.buffer \in Nat \ {0}
           /\ DOMAIN v.map \subseteq Int /\ v.map \in [DOMAIN v.map -> Int]
      /\ v.template \in Trees =>
           /\ pointer /\ v.count \in Nat
           /\ v.left \in links /\ v.right \in links /\ v.parent \in links
      /\ v.template = "tr1::unordered_set" =>
           pointer /\ v.next \in links /\ v.count \in Int /\ v.buckets \in Seq(Int)
      /\ v.template = "vector<bool>" =>
           /\ v.memory \subseteq Int /\ v.minus \in BOOLEAN
           /\ {v.start, v.finish, v.from, v.to} \subseteq Int /\ v.bits \in Nat \ {0}
      /\ v.template = "bitset" =>
           v.words \in Seq(Nat) /\ v.words # <<>> /\ v.bits \in Nat \ {0}
      /\ v.template = "tuple" => v.fields \in Seq(Nat)

IsContainer(v) ==
  /\ v.template \in Container
  /\ Shape(v)
  /\ v.live => /\ v.contents \in Seq(Int)
               /\ v.template \notin Others => Addresses(v) \subseteq v.memory
               /\ Represents(v)
============================================================================
