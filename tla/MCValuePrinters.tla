-------------------------- MODULE MCValuePrinters --------------------------
(* Small containers of every kind, live and dead, and pointers.  The head   *)
(* of a container is at 10, nothing can be read at 9.                       *)
EXTENDS ValuePrinters, TLC

Head1 == 10

\* Sequences of at most n different elements of S.
Arrangements(S, n) ==
  UNION {{f \in [1..k -> S] : \A i, j \in 1..k : i # j => f[i] # f[j]} : k \in 0..n}

Place(c, i, end) == IF i \in DOMAIN c THEN c[i] ELSE end

LiveLinked ==
  {[template |-> t, live |-> TRUE, head |-> Head1, memory |-> 1..3 \cup {Head1},
    contents |-> c, count |-> Len(c),
    next |-> LET end == IF t = "list" THEN Head1 ELSE Null
             IN  [a \in 1..3 \cup {Head1} |->
                    IF a = Head1 THEN Place(c, 1, end)
                    ELSE IF \E i \in DOMAIN c : c[i] = a
                      THEN Place(c, 1 + CHOOSE i \in DOMAIN c : c[i] = a, end)
                      ELSE 9]] :
     t \in Linked, c \in Arrangements(1..3, 3)}

DeadLinked ==
  {[template |-> t, live |-> FALSE, head |-> Head1, memory |-> {1, 2, Head1},
    count |-> 1, next |-> f] :
     t \in Linked, f \in [{1, 2, Head1} -> {Null, 1, 2, 9, Head1}]}

LiveVectors ==
  {[template |-> "vector", live |-> TRUE, memory |-> 2..9, start |-> 2,
    finish |-> 2 + 2 * n, width |-> 2, contents |-> [i \in 1..n |-> 2 * i]] :
     n \in 0..4}

DeadVectors ==
  {[template |-> "vector", live |-> FALSE, memory |-> 2..9, start |-> s,
    finish |-> f, width |-> w] : s \in 1..4, f \in 0..12, w \in {1, 2, 3}}

\* Buffers of two elements in no particular order.
Buffers == <<20, 14, 30, 12>>

LiveDeques ==
  {[template |-> "deque", live |-> TRUE, memory |-> 12..31, buffer |-> 2,
    map |-> Buffers, startNode |-> 1, finishNode |-> 1 + (o + n) \div 2,
    start |-> 20 + o, last |-> 22, finishFirst |-> Buffers[1 + (o + n) \div 2],
    finish |-> Buffers[1 + (o + n) \div 2] + ((o + n) % 2),
    place |-> [i \in 1..(n + 1) |-> <<1 + (o + i - 1) \div 2, (o + i - 1) % 2>>],
    contents |-> [i \in 1..n |-> Buffers[1 + (o + i - 1) \div 2] + ((o + i - 1) % 2)]] :
     o \in 0..1, n \in 0..6}

DeadDeques ==
  {[template |-> "deque", live |-> FALSE, memory |-> {14, 15, 20, 21}, buffer |-> 2,
    map |-> Buffers, startNode |-> d, finishNode |-> 2, start |-> s, last |-> l,
    finishFirst |-> 14, finish |-> f] :
     d \in 1..4, s \in {9, 14, 20}, l \in {15, 22}, f \in {9, 15, 21}}

\* The tree in which the node i is above the node j if p[i] < p[j].
Tree(p) ==
  LET n == Len(p)
      below(i, j) == \A k \in 1..n : (i <= k /\ k <= j) \/ (j <= k /\ k <= i)
                                       => p[i] <= p[k]
      under(i) == {j \in 1..n : below(i, j)}
      top(S) == CHOOSE j \in S : \A k \in S : p[j] <= p[k]
      first(S) == CHOOSE j \in S : \A k \in S : j <= k
      final(S) == CHOOSE j \in S : \A k \in S : k <= j
      child(S) == IF S = {} THEN Null ELSE top(S)
      up(i) == {j \in 1..n : j # i /\ below(j, i)}
  IN  [template |-> "set", live |-> TRUE, head |-> Head1,
       memory |-> 1..n \cup {Head1}, count |-> n,
       contents |-> [i \in 1..n |-> i],
       lo |-> [i \in 1..n |-> first(under(i))],
       hi |-> [i \in 1..n |-> final(under(i))],
       left |-> [i \in 1..n \cup {Head1} |->
         IF i = Head1 THEN IF n = 0 THEN Head1 ELSE 1
         ELSE child({j \in under(i) : j < i})],
       right |-> [i \in 1..n \cup {Head1} |->
         IF i = Head1 THEN IF n = 0 THEN Head1 ELSE n
         ELSE child({j \in under(i) : j > i})],
       parent |-> [i \in 1..n \cup {Head1} |->
         IF i = Head1 THEN child(1..n)
         ELSE IF up(i) = {} THEN Head1
         ELSE CHOOSE j \in up(i) : \A k \in up(i) : p[k] <= p[j]]]

\* Red-black trees: no way down is more than twice as long as another.
Balanced(t) ==
  LET n == Len(t.contents)
      above(i) == {j \in 1..n : t.lo[j] <= i /\ i <= t.hi[j]}
      ends(i) == {j \in t.lo[i]..t.hi[i] : t.left[j] = Null \/ t.right[j] = Null}
      depth(i, j) == Cardinality(above(j)) - Cardinality(above(i)) + 1
  IN  \A i \in 1..n : \A j, k \in ends(i) : depth(i, j) <= 2 * depth(i, k)

LiveTrees ==
  LET trees == {t \in {Tree(p) : p \in UNION {Permutations(1..n) : n \in 0..6}} :
                  Balanced(t)}
  IN  trees \cup {[t EXCEPT !.template = "map"] : t \in trees}

DeadTrees ==
  {[template |-> "set", live |-> FALSE, head |-> Head1, memory |-> {1, Head1},
    count |-> 3, left |-> l, right |-> r, parent |-> p] :
     l, r \in [{1, Head1} -> {Null, 1, 9, Head1}],
     p \in [{1, Head1} -> {1, 9, Head1}]}

\* Three buckets; the elements are in the buckets h[1], h[2], h[3].
LiveHashes ==
  {[template |-> "tr1::unordered_set", live |-> TRUE, head |-> Head1,
    memory |-> 1..3 \cup {Head1}, contents |-> c, count |-> Len(c),
    home |-> [i \in DOMAIN c |-> h[i]],
    buckets |-> [b \in 1..3 |->
      IF \E i \in DOMAIN c : h[i] = b
        THEN c[CHOOSE i \in DOMAIN c : h[i] = b /\ \A j \in 1..(i - 1) : h[j] # b]
        ELSE Null],
    next |-> [a \in 1..3 \cup {Head1} |->
      IF \E i \in 1..(Len(c) - 1) : c[i] = a /\ h[i + 1] = h[i]
        THEN c[1 + CHOOSE i \in DOMAIN c : c[i] = a] ELSE Null]] :
     c \in Arrangements(1..3, 3),
     h \in {<<1, 1, 1>>, <<1, 3, 3>>, <<2, 2, 3>>, <<3, 3, 3>>, <<1, 2, 3>>}}

DeadHashes ==
  {[template |-> "tr1::unordered_set", live |-> FALSE, head |-> Head1,
    memory |-> {1, 2, Head1}, count |-> 1, buckets |-> b, next |-> f] :
     b \in {<<>>, <<0, 1>>, <<9, 1>>, <<2, 2>>},
     f \in [{1, 2, Head1} -> {Null, 1, 2, 9}]}

\* Words of three bits.
LiveBits ==
  {[template |-> "vector<bool>", live |-> TRUE, memory |-> 2..5, minus |-> m,
    start |-> 2, from |-> 0, finish |-> 2 + n \div 3, to |-> n % 3, bits |-> 3,
    contents |-> [i \in 1..n |-> 5 + i]] : n \in 0..8, m \in BOOLEAN}

DeadBits ==
  {[template |-> "vector<bool>", live |-> FALSE, memory |-> 2..4, minus |-> m,
    start |-> s, from |-> o, finish |-> f, to |-> t, bits |-> 3] :
     s, f \in {0, 2, 4}, o, t \in {0, 2, 4}, m \in BOOLEAN}

\* One or two words of two bits: the bits that are set, in order.
Bitsets ==
  {[template |-> "bitset", live |-> TRUE, bits |-> 2, words |-> w,
    shift |-> [i \in DOMAIN w |-> [j \in 0..2 |-> w[i] \div (2 ^ j)]],
    contents |->
      LET set(k) == (w[k \div 2 + 1] \div (2 ^ (k % 2))) % 2 = 1
      IN  SelectSeq([i \in 1..(2 * Len(w)) |-> i - 1], set)] :
     w \in [1..1 -> 0..3] \cup [1..2 -> 0..3]}

\* Of GCC 5 and of GCC 4, empty ones too.
Tuples ==
  {[template |-> "tuple", live |-> TRUE, fields |-> f[1],
    contents |-> [i \in 1..f[2] |-> i]] :
     f \in {<<<<>>, 0>>, <<<<0>>, 0>>, <<<<1>>, 1>>, <<<<2, 2, 1>>, 3>>,
            <<<<2, 2, 0>>, 2>>}}

Adaptors ==
  {[template |-> t, live |-> c.live, c |-> c] :
     t \in Adaptor, c \in LiveDeques \cup LiveVectors \cup LiveBits \cup DeadVectors
                          \cup {v \in LiveLinked : v.template = "list"}}

\* The image of the program: .text, .rodata, .data and .bss, the last two of
\* them adjacent; two blocks in the heap with one byte in between.  They are
\* allocated by the program, the second of them through a library.
Seg(b, e) == [begin |-> b, end |-> e]

Running ==
  [heap |-> {[begin |-> 100, size |-> 3, call1 |-> 2, call2 |-> 3, count |-> 0],
             [begin |-> 104, size |-> 2, call1 |-> 81, call2 |-> 2, count |-> 1]},
   stack |-> Seg(50, 40),
   section |-> [s \in Section |->
     CASE s = "TEXT" -> Seg(1, 4) [] s = "RODATA" -> Seg(6, 9)
       [] s = "DATA" -> Seg(11, 14) [] s = "BSS" -> Seg(14, 18)]]

BeforeMain ==
  [heap |-> {}, stack |-> Seg(0, 0), section |-> [s \in Section |-> Seg(0, 0)]]

\* The same program, loaded further on and with a deeper stack.
Loaded(l, by, deeper) ==
  [heap |-> {BlockMoved(l, by, b) : b \in l.heap},
   stack |-> Seg(l.stack.begin + by.stack, l.stack.end + by.stack - deeper),
   section |-> [s \in Section |-> Seg(l.section[s].begin + by.image,
                                      l.section[s].end + by.image)]]

Pointers ==
  {p \in
    {[template |-> "pointer", live |-> TRUE, member |-> m, mentionsVector |-> FALSE,
      pointers |-> FALSE, readable |-> r, layout |-> l, by |-> by,
      layout2 |-> Loaded(l, by, 3), addr |-> a, addr2 |-> a + d] :
       m, r \in BOOLEAN, l \in {Running, BeforeMain},
       a \in {0, 1, 4, 5, 6, 10, 14, 15, 19, 39, 40, 50, 51, 99, 100, 103, 104, 106, 107},
       by \in {[image |-> 0, library |-> 0, stack |-> 20, heap |-> 50],
               [image |-> 15, library |-> 6, stack |-> 20, heap |-> 50]},
       d \in {0, 15, 20, 50}} :
     Moved(p) /\ (p.member => BlocksAt(p.layout, p.addr) = {})}

\* A variable, or a member of a struct.
AsVariable(v) == v @@ [member |-> FALSE, mentionsVector |-> FALSE, pointers |-> FALSE]
AsMember(v, b, p) == v @@ [member |-> TRUE, mentionsVector |-> b, pointers |-> p]

Vectors == LiveVectors \cup DeadVectors
Bits == LiveBits \cup DeadBits

Containers ==
  UNION {LiveLinked, DeadLinked, LiveDeques, DeadDeques, LiveTrees, DeadTrees,
         LiveHashes, DeadHashes, Bitsets, Tuples, Adaptors}

MCValue ==
  UNION {{AsVariable(v) : v \in UNION {Containers, Vectors, Bits}},
         {AsMember(v, TRUE, FALSE) : v \in Vectors},
         {AsMember(v, TRUE, TRUE) @@ [raises |-> r] :
            v \in Vectors, r \in {{}, {2}, {4}, {6}, {2, 6}}},
         {AsMember(v, TRUE, FALSE) : v \in Bits},
         {AsMember(v, b, FALSE) : v \in LiveDeques \cup Tuples \cup Adaptors,
                                  b \in BOOLEAN},
         {AsMember([template |-> "struct", live |-> TRUE], b, FALSE) : b \in BOOLEAN},
         {AsVariable([template |-> "struct", live |-> TRUE])},
         Pointers}
============================================================================
