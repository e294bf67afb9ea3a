------------------------- MODULE PrettyPrintProofs -------------------------
(***************************************************************************)
(* Theorems about the dump of the data in scope, for every graph of areas. *)
(*                                                                         *)
(* The recursion is in the state, so no theorem needs an induction over    *)
(* the data: what is promised about a printed object is either done, or a  *)
(* task in one of the generators.                                          *)
(***************************************************************************)
EXTENDS PrettyPrint, FiniteSetTheorems, SequenceTheorems, TLAPS

----------------------------------------------------------------------------
(* Sequences of tasks.                                                     *)

\* What the generators of fs have still to do.
Holds(fs, t) == \E i \in DOMAIN fs : \E j \in DOMAIN fs[i] : fs[i][j] = t

\* The first task of the first generator is replaced by others.
Replaced(fs, ts) == <<ts \o Tail(Head(fs))>> \o Tail(fs)

\* The first task becomes a generator of its own.
Pushed(fs, ts) == <<ts, Tail(Head(fs))>> \o Tail(fs)

IsGenerators(T, fs) == fs \in Seq(Seq(T)) /\ fs # <<>> /\ Head(fs) # <<>>

LEMMA ReplacedFrames ==
  ASSUME NEW T, NEW fs \in Seq(Seq(T)), fs # <<>>, Head(fs) # <<>>,
         NEW ts \in Seq(T)
  PROVE  /\ Replaced(fs, ts) \in Seq(Seq(T))
         /\ Len(Replaced(fs, ts)) = Len(fs)
         /\ Replaced(fs, ts)[1] = ts \o Tail(fs[1])
         /\ \A i \in 2..Len(fs) : Replaced(fs, ts)[i] = fs[i]
<1> DEFINE f1 == ts \o Tail(Head(fs))
<1>1. Head(fs) \in Seq(T) /\ Head(fs) = fs[1] /\ Len(fs) \in Nat /\ Len(fs) >= 1
  OBVIOUS
<1>2. f1 \in Seq(T)
  BY <1>1
<1>3. Tail(fs) \in Seq(Seq(T)) /\ Len(Tail(fs)) = Len(fs) - 1
      /\ \A i \in 1..(Len(fs) - 1) : Tail(fs)[i] = fs[i + 1]
  BY <1>1
<1> HIDE DEF f1
<1>4. <<f1>> \in Seq(Seq(T)) /\ Len(<<f1>>) = 1 /\ <<f1>>[1] = f1
  BY <1>2
<1>5. /\ <<f1>> \o Tail(fs) \in Seq(Seq(T))
      /\ Len(<<f1>> \o Tail(fs)) = Len(fs)
      /\ (<<f1>> \o Tail(fs))[1] = f1
      /\ \A i \in 2..Len(fs) : (<<f1>> \o Tail(fs))[i] = fs[i]
  BY <1>1, <1>3, <1>4
<1> QED BY <1>1, <1>5 DEF Replaced, f1

LEMMA PushedFrames ==
  ASSUME NEW T, NEW fs \in Seq(Seq(T)), fs # <<>>, Head(fs) # <<>>,
         NEW ts \in Seq(T)
  PROVE  /\ Pushed(fs, ts) \in Seq(Seq(T))
         /\ Len(Pushed(fs, ts)) = Len(fs) + 1
         /\ Pushed(fs, ts)[1] = ts
         /\ Pushed(fs, ts)[2] = Tail(fs[1])
         /\ \A i \in 2..Len(fs) : Pushed(fs, ts)[i + 1] = fs[i]
<1> DEFINE f1 == Tail(Head(fs))
           ff == <<ts, f1>>
<1>1. Head(fs) \in Seq(T) /\ Head(fs) = fs[1] /\ Len(fs) \in Nat /\ Len(fs) >= 1
  OBVIOUS
<1>2. f1 \in Seq(T)
  BY <1>1
<1>3. Tail(fs) \in Seq(Seq(T)) /\ Len(Tail(fs)) = Len(fs) - 1
      /\ \A i \in 1..(Len(fs) - 1) : Tail(fs)[i] = fs[i + 1]
  BY <1>1
<1> HIDE DEF f1
<1>4. ff \in Seq(Seq(T)) /\ Len(ff) = 2 /\ ff[1] = ts /\ ff[2] = f1
  BY <1>2
<1> HIDE DEF ff
<1>5. /\ ff \o Tail(fs) \in Seq(Seq(T))
      /\ Len(ff \o Tail(fs)) = Len(fs) + 1
      /\ (ff \o Tail(fs))[1] = ts
      /\ (ff \o Tail(fs))[2] = f1
      /\ \A i \in 2..Len(fs) : (ff \o Tail(fs))[i + 1] = fs[i]
  <2> DEFINE tl == Tail(fs)
  <2>1. tl \in Seq(Seq(T)) /\ Len(tl) = Len(fs) - 1
        /\ \A i \in 1..(Len(fs) - 1) : tl[i] = fs[i + 1]
    BY <1>3
  <2> HIDE DEF tl
  <2>2. /\ ff \o tl \in Seq(Seq(T))
        /\ Len(ff \o tl) = 2 + Len(tl)
        /\ \A i \in 1..(2 + Len(tl)) :
             (ff \o tl)[i] = IF i <= 2 THEN ff[i] ELSE tl[i - 2]
    <3>1. /\ ff \o tl \in Seq(Seq(T))
          /\ Len(ff \o tl) = Len(ff) + Len(tl)
          /\ \A i \in 1..Len(ff) + Len(tl) :
               (ff \o tl)[i] = IF i <= Len(ff) THEN ff[i] ELSE tl[i - Len(ff)]
      BY <1>4, <2>1, ConcatProperties, Zenon
    <3> QED BY <1>4, <3>1, Zenon
  <2>3. \A i \in 2..Len(fs) : (ff \o tl)[i + 1] = fs[i]
    <3> TAKE i \in 2..Len(fs)
    <3>1. i + 1 \in 1..(2 + Len(tl)) /\ ~(i + 1 <= 2) /\ (i + 1) - 2 = i - 1
          /\ i - 1 \in 1..(Len(fs) - 1) /\ (i - 1) + 1 = i
      BY <1>1, <2>1
    <3>2. (ff \o tl)[i + 1] = tl[i - 1]
      BY <2>2, <3>1
    <3> QED BY <2>1, <3>1, <3>2
  <2>4. (ff \o tl)[1] = ts /\ (ff \o tl)[2] = f1
    BY <1>1, <1>4, <2>1, <2>2
  <2> QED BY <1>1, <2>1, <2>2, <2>3, <2>4 DEF tl
<1> QED BY <1>1, <1>5 DEF Pushed, f1, ff

\* The first generator drops tasks up to the n-th.
Dropped(fs, n) == <<SubSeq(Head(fs), n + 1, Len(Head(fs)))>> \o Tail(fs)

LEMMA DroppedFrames ==
  ASSUME NEW T, NEW fs \in Seq(Seq(T)), fs # <<>>, Head(fs) # <<>>,
         NEW n \in DOMAIN Head(fs)
  PROVE  /\ Dropped(fs, n) \in Seq(Seq(T))
         /\ Len(Dropped(fs, n)) = Len(fs)
         /\ Len(Dropped(fs, n)[1]) = Len(fs[1]) - n
         /\ \A j \in 1..(Len(fs[1]) - n) : Dropped(fs, n)[1][j] = fs[1][j + n]
         /\ \A i \in 2..Len(fs) : Dropped(fs, n)[i] = fs[i]
<1> DEFINE top == Head(fs)
           f1 == SubSeq(top, n + 1, Len(top))
<1>1. top \in Seq(T) /\ top = fs[1] /\ Len(fs) \in Nat /\ Len(fs) >= 1
      /\ n \in DOMAIN top
  OBVIOUS
<1> HIDE DEF top
<1>2. Len(top) \in Nat /\ n \in 1..Len(top) /\ DOMAIN top = 1..Len(top)
  BY <1>1
<1>3. /\ f1 \in Seq(T) /\ Len(f1) = Len(top) - n
      /\ \A j \in 1..(Len(top) - n) : f1[j] = top[j + n]
  <2>1. \A i \in (n + 1)..Len(top) : top[i] \in T
    BY <1>1, <1>2
  <2>2. n + 1 \in Int /\ Len(top) \in Int /\ n + 1 <= Len(top) + 1
    BY <1>2
  <2>3. f1 = [j \in 1..(Len(top) - n) |-> top[j + n]]
    BY <1>1, <1>2
  <2> DEFINE m == Len(top) - n
  <2>4. m \in Nat /\ \A j \in 1..m : top[j + n] \in T
    BY <1>2, <2>1
  <2> HIDE DEF f1, m
  <2>5. f1 \in [1..m -> T] /\ \A j \in 1..m : f1[j] = top[j + n]
    BY <2>3, <2>4 DEF m
  <2>6. f1 \in Seq(T) /\ Len(f1) = m
    BY <2>4, <2>5
  <2> QED BY <2>5, <2>6 DEF m
<1>4. Tail(fs) \in Seq(Seq(T)) /\ Len(Tail(fs)) = Len(fs) - 1
      /\ \A i \in 1..(Len(fs) - 1) : Tail(fs)[i] = fs[i + 1]
  BY <1>1
<1> HIDE DEF f1
<1>5. <<f1>> \in Seq(Seq(T)) /\ Len(<<f1>>) = 1 /\ <<f1>>[1] = f1
  BY <1>3
<1>6. /\ <<f1>> \o Tail(fs) \in Seq(Seq(T))
      /\ Len(<<f1>> \o Tail(fs)) = Len(fs)
      /\ (<<f1>> \o Tail(fs))[1] = f1
      /\ \A i \in 2..Len(fs) : (<<f1>> \o Tail(fs))[i] = fs[i]
  BY <1>1, <1>4, <1>5
<1>7. Dropped(fs, n) = <<f1>> \o Tail(fs)
  BY Zenon DEF Dropped, f1, top
<1> QED BY <1>1, <1>3, <1>6, <1>7

LEMMA PoppedFrames ==
  ASSUME NEW T, NEW fs \in Seq(Seq(T)), fs # <<>>
  PROVE  /\ Tail(fs) \in Seq(Seq(T))
         /\ Len(Tail(fs)) = Len(fs) - 1
         /\ Len(fs) \in Nat \ {0}
         /\ \A i \in 1..(Len(fs) - 1) : Tail(fs)[i] = fs[i + 1]
  OBVIOUS

\* What a list of tasks and the tail of another hold together.
LEMMA JoinedTasks ==
  ASSUME NEW T, NEW ts \in Seq(T), NEW top \in Seq(T), top # <<>>
  PROVE  /\ \A j \in DOMAIN ts :
              j \in DOMAIN (ts \o Tail(top)) /\ (ts \o Tail(top))[j] = ts[j]
         /\ \A j \in DOMAIN top : top[j] # Head(top) =>
              /\ Len(ts) + j - 1 \in DOMAIN (ts \o Tail(top))
              /\ (ts \o Tail(top))[Len(ts) + j - 1] = top[j]
         /\ \A j \in DOMAIN (ts \o Tail(top)) :
              \/ j \in DOMAIN ts /\ (ts \o Tail(top))[j] = ts[j]
              \/ /\ j - Len(ts) + 1 \in DOMAIN top
                 /\ (ts \o Tail(top))[j] = top[j - Len(ts) + 1]
<1> DEFINE tl == Tail(top)
<1>1. tl \in Seq(T) /\ Len(tl) = Len(top) - 1 /\ Len(top) \in Nat /\ Len(top) >= 1
      /\ \A i \in 1..(Len(top) - 1) : tl[i] = top[i + 1]
  OBVIOUS
<1>2. Head(top) = top[1] /\ DOMAIN top = 1..Len(top) /\ DOMAIN ts = 1..Len(ts)
      /\ Len(ts) \in Nat
  OBVIOUS
<1> HIDE DEF tl
<1>3. /\ Len(ts \o tl) = Len(ts) + Len(tl)
      /\ DOMAIN (ts \o tl) = 1..(Len(ts) + Len(tl))
      /\ \A i \in 1..(Len(ts) + Len(tl)) :
           (ts \o tl)[i] = IF i <= Len(ts) THEN ts[i] ELSE tl[i - Len(ts)]
  <2>1. /\ ts \o tl \in Seq(T)
        /\ Len(ts \o tl) = Len(ts) + Len(tl)
        /\ \A i \in 1..Len(ts) + Len(tl) :
             (ts \o tl)[i] = IF i <= Len(ts) THEN ts[i] ELSE tl[i - Len(ts)]
    BY <1>1, ConcatProperties, Zenon
  <2>2. DOMAIN (ts \o tl) = 1..Len(ts \o tl)
    BY <2>1, LenProperties, Zenon
  <2> QED BY <2>1, <2>2, Zenon
<1>4. \A j \in DOMAIN ts : j \in DOMAIN (ts \o tl) /\ (ts \o tl)[j] = ts[j]
  BY <1>1, <1>2, <1>3
<1>5. \A j \in DOMAIN top : top[j] # Head(top) =>
              /\ Len(ts) + j - 1 \in DOMAIN (ts \o tl)
              /\ (ts \o tl)[Len(ts) + j - 1] = top[j]
  <2> SUFFICES ASSUME NEW j \in DOMAIN top, top[j] # Head(top)
               PROVE  /\ Len(ts) + j - 1 \in DOMAIN (ts \o tl)
                      /\ (ts \o tl)[Len(ts) + j - 1] = top[j]
    OBVIOUS
  <2>1. j \in 2..Len(top)
    BY <1>1, <1>2
  <2>2. Len(ts) + j - 1 \in 1..(Len(ts) + Len(tl)) /\ ~(Len(ts) + j - 1 <= Len(ts))
        /\ Len(ts) + j - 1 - Len(ts) = j - 1 /\ j - 1 \in 1..(Len(top) - 1)
    BY <1>1, <1>2, <2>1
  <2>3. (ts \o tl)[Len(ts) + j - 1] = tl[j - 1]
    BY <1>3, <2>2
  <2>4. (j - 1) + 1 = j
    BY <2>1
  <2> QED BY <1>1, <1>3, <2>2, <2>3, <2>4
<1>6. \A j \in DOMAIN (ts \o tl) :
              \/ j \in DOMAIN ts /\ (ts \o tl)[j] = ts[j]
              \/ /\ j - Len(ts) + 1 \in DOMAIN top
                 /\ (ts \o tl)[j] = top[j - Len(ts) + 1]
  <2> SUFFICES ASSUME NEW j \in 1..(Len(ts) + Len(tl)), ~(j <= Len(ts))
               PROVE  /\ j - Len(ts) + 1 \in DOMAIN top
                      /\ (ts \o tl)[j] = top[j - Len(ts) + 1]
    BY <1>1, <1>2, <1>3
  <2>1. j - Len(ts) \in 1..(Len(top) - 1) /\ j - Len(ts) + 1 \in 1..Len(top)
    BY <1>1, <1>2
  <2>2. (ts \o tl)[j] = tl[j - Len(ts)]
    BY <1>3
  <2> QED BY <1>1, <1>2, <2>1, <2>2
<1> QED BY <1>4, <1>5, <1>6 DEF tl

LEMMA JoinedPlace ==
  ASSUME NEW T, NEW ts \in Seq(T), NEW top \in Seq(T), top # <<>>
  PROVE  \A j \in DOMAIN (ts \o Tail(top)) :
           /\ j \in DOMAIN ts => (ts \o Tail(top))[j] = ts[j]
           /\ j \notin DOMAIN ts =>
                /\ j - Len(ts) + 1 \in DOMAIN top
                /\ (ts \o Tail(top))[j] = top[j - Len(ts) + 1]
BY JoinedTasks

LEMMA JoinedRest ==
  ASSUME NEW T, NEW ts \in Seq(T), NEW top \in Seq(T), top # <<>>,
         NEW j \in DOMAIN top, top[j] # Head(top)
  PROVE  \E k \in DOMAIN (ts \o Tail(top)) : (ts \o Tail(top))[k] = top[j]
<1>1. /\ Len(ts) + j - 1 \in DOMAIN (ts \o Tail(top))
      /\ (ts \o Tail(top))[Len(ts) + j - 1] = top[j]
  BY JoinedTasks
<1> QED BY <1>1, Zenon

\* The same for the generators.
LEMMA HoldsReplaced ==
  ASSUME NEW T, NEW fs, IsGenerators(T, fs),
         NEW ts \in Seq(T), NEW t
  PROVE  /\ Holds(fs, t) /\ t # Head(Head(fs)) => Holds(Replaced(fs, ts), t)
         /\ (\E j \in DOMAIN ts : ts[j] = t) => Holds(Replaced(fs, ts), t)
<1> DEFINE r == Replaced(fs, ts)
<1>1. /\ Len(r) = Len(fs) /\ DOMAIN r = 1..Len(fs) /\ DOMAIN fs = 1..Len(fs)
      /\ r[1] = ts \o Tail(fs[1])
      /\ \A i \in 2..Len(fs) : r[i] = fs[i]
      /\ Len(fs) \in Nat /\ Len(fs) >= 1
  <2>1. /\ r \in Seq(Seq(T)) /\ Len(r) = Len(fs)
        /\ r[1] = ts \o Tail(fs[1])
        /\ \A i \in 2..Len(fs) : r[i] = fs[i]
    <3> HIDE DEF r
    <3>1. r = Replaced(fs, ts)
      BY DEF r
    <3> QED BY <3>1, ReplacedFrames DEF IsGenerators
  <2> HIDE DEF r
  <2>2. DOMAIN r = 1..Len(r)
    BY <2>1, LenProperties, Zenon
  <2>3. DOMAIN fs = 1..Len(fs) /\ Len(fs) \in Nat /\ Len(fs) >= 1
    BY DEF IsGenerators
  <2> QED BY <2>1, <2>2, <2>3, Zenon
<1>2. fs[1] \in Seq(T) /\ fs[1] = Head(fs) /\ fs[1] # <<>>
  BY DEF IsGenerators
<1> HIDE DEF r
<1>3. ASSUME NEW i \in DOMAIN fs, NEW j \in DOMAIN fs[i], fs[i][j] = t,
             t # Head(Head(fs))
      PROVE  Holds(r, t)
  <2>1. CASE i = 1
    <3>1. \E top \in Seq(T) : /\ top # <<>> /\ r[1] = ts \o Tail(top)
                              /\ t # Head(top)
                              /\ \E k \in DOMAIN top : top[k] = t
      <4>1. j \in DOMAIN fs[1] /\ fs[1][j] = t /\ t # Head(fs[1])
        BY <1>2, <1>3, <2>1, Zenon
      <4> QED BY <1>1, <1>2, <4>1, Zenon
    <3>2. PICK top \in Seq(T) : /\ top # <<>> /\ r[1] = ts \o Tail(top)
                                /\ t # Head(top)
                                /\ \E k \in DOMAIN top : top[k] = t
      BY <3>1
    <3>3. PICK k \in DOMAIN top : top[k] = t
      BY <3>2
    <3>4. \E m \in DOMAIN (ts \o Tail(top)) : (ts \o Tail(top))[m] = top[k]
      <4>1. top # <<>> /\ top[k] # Head(top)
        BY <3>2, <3>3
      <4> QED BY <4>1, JoinedRest
    <3>5. \E m \in DOMAIN r[1] : r[1][m] = t
      BY <3>2, <3>3, <3>4, Zenon
    <3>6. 1 \in DOMAIN r
      BY <1>1
    <3> QED BY <3>6, <3>5, Zenon DEF Holds
  <2>2. CASE i # 1
    <3>1. i \in DOMAIN r /\ r[i] = fs[i]
      BY <1>1, <2>2
    <3> QED BY <1>3, <3>1, Zenon DEF Holds
  <2> QED BY <2>1, <2>2
<1>4. ASSUME NEW j \in DOMAIN ts, ts[j] = t
      PROVE  Holds(r, t)
  <2>1. j \in DOMAIN r[1] /\ r[1][j] = t
    BY <1>1, <1>2, <1>4, JoinedTasks
  <2>2. 1 \in DOMAIN r
    BY <1>1
  <2> QED BY <2>1, <2>2, Zenon DEF Holds
<1> QED BY <1>3, <1>4 DEF Holds, r

LEMMA HoldsPushed ==
  ASSUME NEW T, NEW fs, IsGenerators(T, fs),
         NEW ts \in Seq(T), NEW t
  PROVE  /\ Holds(fs, t) /\ t # Head(Head(fs)) => Holds(Pushed(fs, ts), t)
         /\ (\E j \in DOMAIN ts : ts[j] = t) => Holds(Pushed(fs, ts), t)
<1> DEFINE r == Pushed(fs, ts)
<1>1. /\ DOMAIN r = 1..(Len(fs) + 1) /\ DOMAIN fs = 1..Len(fs)
      /\ r[1] = ts
      /\ r[2] = Tail(fs[1])
      /\ \A i \in 2..Len(fs) : r[i + 1] = fs[i]
      /\ Len(fs) \in Nat /\ Len(fs) >= 1
  <2>1. /\ r \in Seq(Seq(T)) /\ Len(r) = Len(fs) + 1
        /\ r[1] = ts
        /\ r[2] = Tail(fs[1])
        /\ \A i \in 2..Len(fs) : r[i + 1] = fs[i]
    <3> HIDE DEF r
    <3>1. r = Pushed(fs, ts)
      BY DEF r
    <3>2. /\ Pushed(fs, ts) \in Seq(Seq(T))
          /\ Len(Pushed(fs, ts)) = Len(fs) + 1
          /\ Pushed(fs, ts)[1] = ts
          /\ Pushed(fs, ts)[2] = Tail(fs[1])
          /\ \A i \in 2..Len(fs) : Pushed(fs, ts)[i + 1] = fs[i]
      BY PushedFrames DEF IsGenerators
    <3> QED BY <3>1, <3>2, Zenon
  <2> HIDE DEF r
  <2>2. DOMAIN r = 1..Len(r)
    BY <2>1, LenProperties, Zenon
  <2>3. DOMAIN fs = 1..Len(fs) /\ Len(fs) \in Nat /\ Len(fs) >= 1
    BY DEF IsGenerators
  <2> QED BY <2>1, <2>2, <2>3, Zenon
<1>2. fs[1] \in Seq(T) /\ fs[1] = Head(fs) /\ fs[1] # <<>>
  BY DEF IsGenerators
<1> HIDE DEF r
<1>3. ASSUME NEW i \in DOMAIN fs, NEW j \in DOMAIN fs[i], fs[i][j] = t,
             t # Head(Head(fs))
      PROVE  Holds(r, t)
  <2>1. CASE i = 1
    <3>0. j # 1 /\ fs[1][j] = t /\ j \in DOMAIN fs[1]
      BY <1>2, <1>3, <2>1
    <3>1. j - 1 \in DOMAIN r[2] /\ r[2][j - 1] = t
      <4>1. DOMAIN fs[1] = 1..Len(fs[1]) /\ fs[1] # <<>>
        BY <1>2
      <4>2. /\ Len(Tail(fs[1])) = Len(fs[1]) - 1
            /\ \A k \in 1..(Len(fs[1]) - 1) : Tail(fs[1])[k] = fs[1][k + 1]
            /\ DOMAIN Tail(fs[1]) = 1..(Len(fs[1]) - 1)
        BY <1>2, <4>1
      <4> QED BY <1>1, <1>2, <3>0, <4>1, <4>2
    <3>2. 2 \in DOMAIN r
      BY <1>1
    <3> QED BY <3>1, <3>2, Zenon DEF Holds
  <2>2. CASE i # 1
    <3>1. i + 1 \in DOMAIN r /\ r[i + 1] = fs[i]
      BY <1>1, <2>2
    <3> QED BY <1>3, <3>1, Zenon DEF Holds
  <2> QED BY <2>1, <2>2
<1>4. ASSUME NEW j \in DOMAIN ts, ts[j] = t
      PROVE  Holds(r, t)
  <2>1. 1 \in DOMAIN r
    BY <1>1
  <2> QED BY <1>1, <1>4, <2>1, Zenon DEF Holds
<1> QED BY <1>3, <1>4 DEF Holds, r

LEMMA HoldsPopped ==
  ASSUME NEW T, NEW fs \in Seq(Seq(T)), fs # <<>>, Head(fs) = <<>>, NEW t,
         Holds(fs, t)
  PROVE  Holds(Tail(fs), t)
<1>1. PICK i \in DOMAIN fs : \E j \in DOMAIN fs[i] : fs[i][j] = t
  BY DEF Holds
<1>2. i # 1
  BY <1>1
<1>3. i - 1 \in DOMAIN Tail(fs) /\ Tail(fs)[i - 1] = fs[i]
  BY <1>2
<1> QED BY <1>1, <1>3, Zenon DEF Holds

----------------------------------------------------------------------------
(* Types.                                                                  *)

\* Values and tasks that lead to elements of S only.
ValuesTo(S) == {Plain} \cup [by : Ways, to : S \cap HeapLoc]

TasksOn(S) ==
  [do : {"printer"}, val : ValuesTo(S)] \cup [do : {"format", "leave"}, at : S]

LinksTo(S) ==
  \A l \in Elem : link[l] \in [Field -> ValuesTo(S)] \cup [{1} -> ValuesTo(S)]

FramesOn(S) == frames \in Seq(Seq(TasksOn(S)))

LEMMA ValueTypes ==
  /\ Value = ValuesTo(Loc)
  /\ Task = TasksOn(Loc)
<1>1. Loc \cap HeapLoc = HeapLoc
  BY DEF Loc
<1> QED BY <1>1 DEF Value, Task, ValuesTo, TasksOn

LEMMA TaskCases ==
  ASSUME NEW S, NEW t \in TasksOn(S)
  PROVE  /\ t.do = "format" => t.at \in S
         /\ t.do = "printer" => t.val \in ValuesTo(S)
         /\ t.do = "printer" /\ t.val.by # "plain" =>
              t.val.to \in S /\ t.val.to \in HeapLoc
BY DEF TasksOn, ValuesTo, Plain

LEMMA TasksForValues ==
  ASSUME NEW S, NEW n \in Nat, NEW vs \in [1..n -> ValuesTo(S)]
  PROVE  /\ TasksFor(vs) \in Seq(TasksOn(S))
         /\ DOMAIN TasksFor(vs) = 1..n
         /\ \A i \in 1..n : vs[i].by # "ref" => TasksFor(vs)[i] = Visit(vs[i])
         /\ \A i \in 1..n : vs[i].by = "ref" =>
              "ref" \in Ways /\ TasksFor(vs)[i] = Format(vs[i].to)
<1>1. \A v \in ValuesTo(S) : Visit(v) \in TasksOn(S)
  BY DEF TasksOn, Visit
<1>2. \A v \in ValuesTo(S) : v.by = "ref" =>
        "ref" \in Ways /\ Format(v.to) \in TasksOn(S)
  BY DEF TasksOn, Format, ValuesTo, Plain
<1>3. DOMAIN vs = 1..n /\ \A i \in 1..n : vs[i] \in ValuesTo(S)
  OBVIOUS
<1>4. TasksFor(vs) \in [1..n -> TasksOn(S)]
  BY <1>1, <1>2, <1>3 DEF TasksFor
<1>5. [1..n -> TasksOn(S)] \subseteq Seq(TasksOn(S))
  OBVIOUS
<1> QED BY <1>2, <1>3, <1>4, <1>5 DEF TasksFor

\* What Init says of the links.
LEMMA InitLinks ==
  ASSUME Init
  PROVE  /\ LinksTo(Loc)
         /\ ~Behind => LinksTo(Elem)
         /\ Elem \subseteq Loc
         /\ \A l \in Elem : DOMAIN link[l] = IF kind[l[1]] = "struct" THEN Field ELSE {1}
<1> DEFINE To == {l \in HeapLoc : Exists(l) \/ (Behind /\ l[2] = len[l[1]] + 1)}
           Goal == {Plain} \cup [by : Ways, to : To]
<1>1. link \in [Elem -> [Field -> Goal] \cup [{1} -> Goal]]
  BY DEF Init
<1>2. Goal \subseteq ValuesTo(Loc)
  BY DEF ValuesTo, Loc
<1>3. ~Behind => Goal \subseteq ValuesTo(Elem)
  BY DEF ValuesTo, Elem, Loc
<1>4. ASSUME NEW S, Goal \subseteq ValuesTo(S)
      PROVE  LinksTo(S)
  <2> HIDE DEF Goal
  <2>1. /\ [Field -> Goal] \subseteq [Field -> ValuesTo(S)]
        /\ [{1} -> Goal] \subseteq [{1} -> ValuesTo(S)]
    BY <1>4
  <2> QED BY <1>1, <2>1 DEF LinksTo
<1>5. \A l \in Elem : DOMAIN link[l] = IF kind[l[1]] = "struct" THEN Field ELSE {1}
  BY DEF Init
<1>6. Elem \subseteq Loc
  BY DEF Elem
<1> QED BY <1>2, <1>3, <1>4, <1>5, <1>6

\* The members of an element are a list of values.
LEMMA MembersList ==
  ASSUME NEW S, LinksTo(S), NEW l \in Loc
  PROVE  \E n \in Nat : /\ Members(l) \in [1..n -> ValuesTo(S)]
                        /\ l \in Elem => n >= 1
<1>1. CASE l \in Elem
  <2>1. /\ Members(l) = link[l] /\ Field = 1..NumFields /\ {1} = 1..1
        /\ NumFields \in Nat /\ NumFields >= 1
    BY <1>1, SizeAssumption DEF Members, Elem, Field
  <2>2. CASE link[l] \in [Field -> ValuesTo(S)]
    <3>1. Members(l) \in [1..NumFields -> ValuesTo(S)]
      BY <2>1, <2>2 DEF Field
    <3> QED BY <2>1, <3>1
  <2>3. CASE link[l] \in [{1} -> ValuesTo(S)]
    <3>1. 1..1 = {1}
      OBVIOUS
    <3>2. Members(l) \in [1..1 -> ValuesTo(S)]
      BY <2>1, <2>3, <3>1, Zenon
    <3> QED BY <3>2
  <2> QED BY <1>1, <2>2, <2>3 DEF LinksTo
<1>2. CASE l \notin Elem
  <2>1. Members(l) = <<>>
    BY <1>2 DEF Members, Elem
  <2>2. Members(l) \in [1..0 -> ValuesTo(S)]
    BY <2>1
  <2> QED BY <1>2, <2>2
<1> QED BY <1>1, <1>2

\* Areas hold elements.
LEMMA ElementsOfArea ==
  ASSUME TypeOK, NEW a \in Area, NEW i \in 1..len[a]
  PROVE  /\ <<a, i>> \in Elem /\ <<a, i>> \in HeapLoc
         /\ len[a] \in Nat /\ len[a] >= 1
<1>1. len[a] \in 1..MaxElems /\ MaxElems \in Nat
  BY SizeAssumption DEF TypeOK
<1>2. i \in 1..(MaxElems + 1) /\ i <= len[a]
  BY <1>1
<1> QED BY <1>1, <1>2 DEF Elem, Exists, Loc, HeapLoc

\* The loop over the pointers in an area, and its end.
LEMMA LoopTasks ==
  ASSUME NEW S, NEW l \in S, NEW ts \in Seq(TasksOn(S)),
         NEW loop, loop = ts \o <<Leave(l)>>
  PROVE  /\ loop \in Seq(TasksOn(S))
         /\ Len(loop) = Len(ts) + 1
         /\ \A i \in DOMAIN ts : i \in DOMAIN loop /\ loop[i] = ts[i]
         /\ \A i \in DOMAIN loop :
              (i \in DOMAIN ts /\ loop[i] = ts[i]) \/ loop[i] = Leave(l)
         /\ Leave(l).do = "leave"
<1> DEFINE T == TasksOn(S)
           x == Leave(l)
<1>1. x \in T /\ x.do = "leave"
  BY DEF TasksOn, Leave
<1>2. ts \in Seq(T) /\ loop = ts \o <<x>>
  OBVIOUS
<1> HIDE DEF T, x
<1>3. /\ loop \in Seq(T)
      /\ Len(loop) = Len(ts) + 1
      /\ \A i \in DOMAIN ts : i \in DOMAIN loop /\ loop[i] = ts[i]
      /\ \A i \in DOMAIN loop : (i \in DOMAIN ts /\ loop[i] = ts[i]) \/ loop[i] = x
  <2> DEFINE xs == <<x>>
             m == Len(ts)
  <2>1. xs \in Seq(T) /\ Len(xs) = 1 /\ xs[1] = x /\ loop = ts \o xs
    BY <1>1, <1>2
  <2>2. m \in Nat /\ DOMAIN ts = 1..m
    BY <1>2
  <2> HIDE DEF xs, m
  <2>3. /\ loop \in Seq(T)
        /\ Len(loop) = Len(ts) + Len(xs)
        /\ \A i \in 1..Len(ts) + Len(xs) :
             loop[i] = IF i <= Len(ts) THEN ts[i] ELSE xs[i - Len(ts)]
    <3>1. /\ ts \o xs \in Seq(T)
          /\ Len(ts \o xs) = Len(ts) + Len(xs)
          /\ \A i \in 1..Len(ts) + Len(xs) :
               (ts \o xs)[i] = IF i <= Len(ts) THEN ts[i] ELSE xs[i - Len(ts)]
      BY <1>2, <2>1, ConcatProperties, Zenon
    <3> QED BY <2>1, <3>1, Zenon
  <2>4. DOMAIN loop = 1..Len(loop)
    BY <2>3
  <2>5. \A i \in 1..(m + 1) : i \in 1..m \/ (~(i <= m) /\ i - m = 1)
    BY <2>2
  <2>6. \A i \in 1..m : i \in 1..(m + 1) /\ i <= m
    BY <2>2
  <2>7. /\ Len(loop) = m + 1 /\ DOMAIN loop = 1..(m + 1)
        /\ \A i \in 1..(m + 1) : loop[i] = IF i <= m THEN ts[i] ELSE xs[i - m]
    BY <2>1, <2>3, <2>4 DEF m
  <2>8. \A i \in 1..m : loop[i] = ts[i]
    BY <2>6, <2>7
  <2>9. \A i \in 1..(m + 1) : i \in 1..m \/ loop[i] = x
    BY <2>1, <2>5, <2>7
  <2> QED BY <2>2, <2>3, <2>6, <2>7, <2>8, <2>9, Zenon DEF m
<1> QED BY <1>1, <1>3 DEF T, x

\* printer() is called for the pointers in an area.
PointerTasks(a) == TasksFor([i \in 1..len[a] |-> link[<<a, i>>][1]])

LEMMA PointerTasksFacts ==
  ASSUME TypeOK, NEW S, Elem \subseteq S, LinksTo(S), NEW a \in Area
  PROVE  /\ PointerTasks(a) \in Seq(TasksOn(S))
         /\ DOMAIN PointerTasks(a) = 1..len[a]
         /\ \A i \in 1..len[a] : link[<<a, i>>][1].by = "ptr" =>
              PointerTasks(a)[i] = Visit(link[<<a, i>>][1])
         /\ ~Refs => \A i \in 1..len[a] : PointerTasks(a)[i].do # "format"
<1> DEFINE vs == [i \in 1..len[a] |-> link[<<a, i>>][1]]
           n == len[a]
<1>1. len[a] \in Nat /\ \A i \in 1..len[a] : <<a, i>> \in Elem
  <2>1. len[a] \in 1..MaxElems /\ MaxElems \in Nat
    BY SizeAssumption DEF TypeOK
  <2> QED BY <2>1, ElementsOfArea
<1>2. \A l \in Elem : link[l][1] \in ValuesTo(S)
  <2>1. 1 \in Field
    BY SizeAssumption DEF Field
  <2> QED BY <2>1 DEF LinksTo
<1>3. vs \in [1..n -> ValuesTo(S)] /\ \A i \in 1..n : vs[i] = link[<<a, i>>][1]
  BY <1>1, <1>2
<1>4. n \in Nat /\ PointerTasks(a) = TasksFor(vs)
  BY <1>1 DEF PointerTasks
<1> HIDE DEF vs, n
<1>5. /\ TasksFor(vs) \in Seq(TasksOn(S))
      /\ DOMAIN TasksFor(vs) = 1..n
      /\ \A i \in 1..n : vs[i].by # "ref" => TasksFor(vs)[i] = Visit(vs[i])
      /\ \A i \in 1..n : vs[i].by = "ref" =>
            "ref" \in Ways /\ TasksFor(vs)[i] = Format(vs[i].to)
  BY <1>3, <1>4, TasksForValues
<1>6. ~Refs => \A i \in 1..n : TasksFor(vs)[i].do # "format"
  BY <1>5 DEF Ways, Visit
<1>7. \A i \in 1..n : link[<<a, i>>][1].by = "ptr" =>
           TasksFor(vs)[i] = Visit(link[<<a, i>>][1])
  BY <1>3, <1>5
<1> QED BY <1>4, <1>5, <1>6, <1>7 DEF n

LEMMA ArrayTasksFacts ==
  ASSUME TypeOK, NEW S, Elem \subseteq S, LinksTo(S), NEW a \in Area,
         NEW at \in S, at[1] = a
  PROVE  /\ ArrayTasks(at) \in Seq(TasksOn(S))
         /\ \A i \in 1..len[a] :
              /\ i \in DOMAIN ArrayTasks(at)
              /\ kind[a] = "struct" => ArrayTasks(at)[i] = Format(<<a, i>>)
              /\ kind[a] = "pointer" /\ link[<<a, i>>][1].by = "ptr" =>
                   ArrayTasks(at)[i] = Visit(link[<<a, i>>][1])
         /\ ~Refs => \A j \in DOMAIN ArrayTasks(at) :
              ArrayTasks(at)[j].do = "format" => ArrayTasks(at)[j].at[1] = a
<1>1. len[a] \in Nat /\ \A i \in 1..len[a] : <<a, i>> \in Elem
  <2>1. len[a] \in 1..MaxElems /\ MaxElems \in Nat
    BY SizeAssumption DEF TypeOK
  <2> QED BY <2>1, ElementsOfArea
<1>2. kind[a] \in {"struct", "pointer"}
  BY DEF TypeOK
<1>3. CASE kind[a] = "struct"
  <2> DEFINE ts == [i \in 1..len[a] |-> Format(<<a, i>>)]
  <2>1. ArrayTasks(at) = ts
    BY <1>3 DEF ArrayTasks
  <2>2. \A i \in 1..len[a] : Format(<<a, i>>) \in TasksOn(S)
    BY <1>1 DEF TasksOn, Format
  <2>3. ts \in [1..len[a] -> TasksOn(S)]
    BY <2>2
  <2>4. ts \in Seq(TasksOn(S))
    <3>1. \A n \in Nat : \A T : [1..n -> T] \subseteq Seq(T)
      OBVIOUS
    <3> QED BY <1>1, <2>3, <3>1, Zenon
  <2>5. DOMAIN ts = 1..len[a] /\ \A i \in 1..len[a] : ts[i] = Format(<<a, i>>)
    OBVIOUS
  <2>6. \A i \in 1..len[a] : Format(<<a, i>>).at[1] = a
    BY DEF Format
  <2> HIDE DEF ts
  <2> QED BY <1>3, <2>1, <2>4, <2>5, <2>6
<1>4. CASE kind[a] = "pointer"
  <2> DEFINE ts == PointerTasks(a)
             loop == ArrayTasks(at)
  <2>1. loop = ts \o <<Leave(at)>>
    BY <1>4 DEF ArrayTasks, PointerTasks
  <2>2. ts \in Seq(TasksOn(S))
    BY PointerTasksFacts
  <2>3. /\ DOMAIN ts = 1..len[a]
        /\ \A i \in 1..len[a] : link[<<a, i>>][1].by = "ptr" =>
             ts[i] = Visit(link[<<a, i>>][1])
        /\ ~Refs => \A i \in 1..len[a] : ts[i].do # "format"
    BY PointerTasksFacts
  <2> HIDE DEF ts, loop
  <2>4. /\ loop \in Seq(TasksOn(S))
        /\ \A i \in DOMAIN ts : i \in DOMAIN loop /\ loop[i] = ts[i]
        /\ \A i \in DOMAIN loop : (i \in DOMAIN ts /\ loop[i] = ts[i]) \/ loop[i].do = "leave"
    <3>1. /\ loop \in Seq(TasksOn(S))
          /\ \A i \in DOMAIN ts : i \in DOMAIN loop /\ loop[i] = ts[i]
          /\ \A i \in DOMAIN loop :
               (i \in DOMAIN ts /\ loop[i] = ts[i]) \/ loop[i] = Leave(at)
          /\ Leave(at).do = "leave"
      BY <2>1, <2>2, LoopTasks
    <3> QED BY <3>1, Zenon
  <2>5. /\ loop \in Seq(TasksOn(S))
        /\ \A i \in 1..len[a] :
             /\ i \in DOMAIN loop
             /\ link[<<a, i>>][1].by = "ptr" => loop[i] = Visit(link[<<a, i>>][1])
        /\ ~Refs => \A i \in DOMAIN loop : loop[i].do # "format"
    BY <2>3, <2>4
  <2> QED BY <1>4, <2>5 DEF loop
<1> QED BY <1>2, <1>3, <1>4

LEMMA MembersTasks ==
  ASSUME NEW S, LinksTo(S), NEW l \in Loc
  PROVE  /\ TasksFor(Members(l)) \in Seq(TasksOn(S))
         /\ \A f \in DOMAIN Members(l) : Members(l)[f].by = "ptr" =>
              /\ f \in DOMAIN TasksFor(Members(l))
              /\ TasksFor(Members(l))[f] = Visit(Members(l)[f])
         /\ ~Refs => \A j \in DOMAIN TasksFor(Members(l)) :
              TasksFor(Members(l))[j].do # "format"
<1> DEFINE vs == Members(l)
<1>1. PICK n \in Nat : vs \in [1..n -> ValuesTo(S)]
  BY MembersList
<1> HIDE DEF vs
<1>2. /\ TasksFor(vs) \in Seq(TasksOn(S))
      /\ DOMAIN TasksFor(vs) = 1..n
      /\ \A i \in 1..n : vs[i].by # "ref" => TasksFor(vs)[i] = Visit(vs[i])
      /\ \A i \in 1..n : vs[i].by = "ref" =>
           "ref" \in Ways /\ TasksFor(vs)[i] = Format(vs[i].to)
  BY <1>1, TasksForValues
<1>3. DOMAIN vs = 1..n
  BY <1>1
<1>4. ~Refs => \A i \in 1..n : TasksFor(vs)[i].do # "format"
  BY <1>2 DEF Ways, Visit
<1> QED BY <1>2, <1>3, <1>4 DEF vs

LEMMA SingleTasksFacts ==
  ASSUME NEW S, LinksTo(S), S \subseteq Loc, NEW l \in S
  PROVE  /\ SingleTasks(l) \in Seq(TasksOn(S))
         /\ kind[l[1]] = "struct" =>
              1 \in DOMAIN SingleTasks(l) /\ SingleTasks(l)[1] = Format(l)
         /\ kind[l[1]] # "struct" =>
              \A f \in DOMAIN Members(l) : Members(l)[f].by = "ptr" =>
                /\ f \in DOMAIN SingleTasks(l)
                /\ SingleTasks(l)[f] = Visit(Members(l)[f])
         /\ ~Refs => \A j \in DOMAIN SingleTasks(l) :
              SingleTasks(l)[j].do = "format" => SingleTasks(l)[j].at = l
<1>1. CASE kind[l[1]] = "struct"
  <2>1. SingleTasks(l) = <<Format(l)>> /\ Format(l) \in TasksOn(S)
        /\ Format(l).at = l
    BY <1>1 DEF SingleTasks, Format, TasksOn
  <2> QED BY <1>1, <2>1
<1>2. CASE kind[l[1]] # "struct"
  <2> DEFINE ts == TasksFor(Members(l))
             loop == SingleTasks(l)
  <2>1. loop = ts \o <<Leave(l)>>
    BY <1>2 DEF SingleTasks
  <2>2. /\ ts \in Seq(TasksOn(S))
        /\ \A f \in DOMAIN Members(l) : Members(l)[f].by = "ptr" =>
              f \in DOMAIN ts /\ ts[f] = Visit(Members(l)[f])
        /\ ~Refs => \A j \in DOMAIN ts : ts[j].do # "format"
    BY MembersTasks
  <2> HIDE DEF ts, loop
  <2>3. /\ loop \in Seq(TasksOn(S))
        /\ \A i \in DOMAIN ts : i \in DOMAIN loop /\ loop[i] = ts[i]
        /\ \A i \in DOMAIN loop : (i \in DOMAIN ts /\ loop[i] = ts[i]) \/ loop[i].do = "leave"
    <3>1. /\ loop \in Seq(TasksOn(S))
          /\ \A i \in DOMAIN ts : i \in DOMAIN loop /\ loop[i] = ts[i]
          /\ \A i \in DOMAIN loop :
               (i \in DOMAIN ts /\ loop[i] = ts[i]) \/ loop[i] = Leave(l)
          /\ Leave(l).do = "leave"
      BY <2>1, <2>2, LoopTasks
    <3> QED BY <3>1, Zenon
  <2>4. /\ \A f \in DOMAIN Members(l) : Members(l)[f].by = "ptr" =>
              f \in DOMAIN loop /\ loop[f] = Visit(Members(l)[f])
        /\ ~Refs => \A j \in DOMAIN loop : loop[j].do # "format"
    BY <2>2, <2>3
  <2> QED BY <1>2, <2>3, <2>4 DEF loop
<1> QED BY <1>1, <1>2

LEMMA TopFacts ==
  ASSUME NEW S, FramesOn(S), HasTask
  PROVE  /\ IsGenerators(TasksOn(S), frames)
         /\ Task1 \in TasksOn(S)
         /\ \A ts : ReplaceBy(ts) <=> frames' = Replaced(frames, ts)
         /\ \A ts : frames' = <<ts, Tail(Top)>> \o Tail(frames)
                      <=> frames' = Pushed(frames, ts)
         /\ Holds(frames, Task1)
<1>1. frames \in Seq(Seq(TasksOn(S))) /\ frames # <<>> /\ Head(frames) # <<>>
  BY DEF FramesOn, HasTask, Top
<1>2. Head(frames) \in Seq(TasksOn(S)) /\ Head(frames) = frames[1]
      /\ 1 \in DOMAIN frames
  BY <1>1
<1>3. Head(Head(frames)) \in TasksOn(S) /\ Head(Head(frames)) = frames[1][1]
      /\ 1 \in DOMAIN frames[1]
  <2> DEFINE top == Head(frames)
  <2>1. top \in Seq(TasksOn(S)) /\ top # <<>>
    BY <1>1, <1>2
  <2> HIDE DEF top
  <2>2. Head(top) \in TasksOn(S) /\ Head(top) = top[1] /\ 1 \in DOMAIN top
    BY <2>1
  <2> QED BY <1>2, <2>2 DEF top
<1> QED BY <1>1, <1>2, <1>3 DEF IsGenerators, Task1, Top, ReplaceBy, Replaced, Pushed, Holds

\* print v, and print *v: the struct that gdb formats is the variable itself or
\* what it points to.
PrintVariable == PrintStruct \/ PrintPointer

Leading(v, l) ==
  \/ kind[v] = "struct" /\ l = <<v, 1>>
  \/ /\ kind[v] = "pointer"
     /\ link[<<v, 1>>][1].by \in {"ptr", "ref"}
     /\ l = link[<<v, 1>>][1].to

LEMMA PrintFacts ==
  ASSUME TypeOK, PrintVariable
  PROVE  /\ dumps > 0 /\ frames = <<>> /\ var \in Var /\ var' = var + 1
         /\ <<var, 1>> \in Elem
         /\ UNCHANGED <<program, dict, files, dumps>>
         /\ \/ frames' = <<>>
            \/ \E l : Leading(var, l) /\ frames' = << <<Format(l)>> >>
         /\ \/ out' = out
            \/ out' = Append(out, Line("variable", <<var, 1>>))
<1>1. var \in Var => <<var, 1>> \in Elem
  BY DEF Elem, Exists, Loc
<1>2. CASE PrintStruct
  BY <1>1, <1>2, Zenon DEF PrintStruct, Leading
<1>3. CASE PrintPointer
  <2> DEFINE v == link[<<var, 1>>][1]
             fs == << <<Format(v.to)>> >>
  <2>1. frames' = IF v.by \in {"ptr", "ref"} THEN fs ELSE <<>>
    BY <1>3, Zenon DEF PrintPointer
  <2>2. kind[var] = "pointer"
    BY <1>3 DEF PrintPointer
  <2>3. v.by \in {"ptr", "ref"} => Leading(var, v.to)
    BY <2>2 DEF Leading
  <2>4. frames' = <<>> \/ \E l : Leading(var, l) /\ frames' = << <<Format(l)>> >>
    <3> HIDE DEF v
    <3> QED BY <2>1, <2>3, Zenon
  <2>5. /\ dumps > 0 /\ frames = <<>> /\ var \in Var /\ var' = var + 1
        /\ UNCHANGED <<program, dict, files, dumps>>
        /\ out' = Append(out, Line("variable", <<var, 1>>))
    BY <1>3, Zenon DEF PrintPointer
  <2> HIDE DEF v
  <2> QED BY <1>1, <2>4, <2>5, Zenon
<1> QED BY <1>2, <1>3 DEF PrintVariable

LEMMA LeadingType ==
  ASSUME NEW S, Elem \subseteq S, LinksTo(S), <<var, 1>> \in Elem,
         NEW l, Leading(var, l)
  PROVE  l \in S
<1> DEFINE v == link[<<var, 1>>][1]
<1>1. v \in ValuesTo(S)
  <2>1. 1 \in Field
    BY SizeAssumption DEF Field
  <2> QED BY <2>1 DEF LinksTo
<1>2. v.by \in {"ptr", "ref"} => v.to \in S
  <2> HIDE DEF v
  <2> QED BY <1>1 DEF ValuesTo, Plain
<1> QED BY <1>2 DEF Leading

\* The generators stay lists of tasks on S.
LEMMA FramesNext ==
  ASSUME TypeOK, NEW S, Elem \subseteq S, S \subseteq Loc, LinksTo(S), FramesOn(S),
         [Next]_vars
  PROVE  FramesOn(S)' /\ Len(frames') <= MaxDepth
<1> DEFINE T == TasksOn(S)
<1>1. Len(frames) \in Nat /\ Len(frames) <= MaxDepth /\ MaxDepth \in Nat /\ MaxDepth >= 1
  BY DepthAssumption DEF TypeOK, FramesOn
<1>2. frames \in Seq(Seq(T))
  BY DEF FramesOn
<1>3. <<>> \in Seq(T) /\ <<>> \in Seq(Seq(T)) /\ Len(<<>>) = 0
  OBVIOUS
<1> HIDE DEF T
<1>4. ASSUME frames' = frames \/ frames' = <<>>
      PROVE  FramesOn(S)' /\ Len(frames') <= MaxDepth
  <2>1. frames' \in Seq(Seq(T))
    BY <1>2, <1>3, <1>4
  <2>2. Len(frames') <= MaxDepth
    BY <1>1, <1>3, <1>4
  <2> QED BY <2>1, <2>2 DEF FramesOn, T
<1>5. ASSUME HasTask, NEW ts \in Seq(T), ReplaceBy(ts)
      PROVE  FramesOn(S)' /\ Len(frames') <= MaxDepth
  <2>1. IsGenerators(T, frames) /\ frames' = Replaced(frames, ts)
    BY <1>5, TopFacts DEF T
  <2>2. Replaced(frames, ts) \in Seq(Seq(T)) /\ Len(Replaced(frames, ts)) = Len(frames)
    BY <2>1, ReplacedFrames DEF IsGenerators
  <2> QED BY <1>1, <2>1, <2>2 DEF FramesOn, T
<1>6. ASSUME frames # <<>>, frames' = Tail(frames)
      PROVE  FramesOn(S)' /\ Len(frames') <= MaxDepth
  <2>1. Tail(frames) \in Seq(Seq(T)) /\ Len(Tail(frames)) = Len(frames) - 1
    BY <1>2, <1>6, PoppedFrames
  <2> QED BY <1>1, <1>6, <2>1 DEF FramesOn, T
<1>7. CASE PrintVariable
  <2>1. frames' = <<>> \/ \E l \in S : frames' = << <<Format(l)>> >>
    <3>1. frames' = <<>> \/ \E l : Leading(var, l) /\ frames' = << <<Format(l)>> >>
      BY <1>7, PrintFacts
    <3>2. <<var, 1>> \in Elem
      BY <1>7, PrintFacts
    <3> QED BY <3>1, <3>2, LeadingType
  <2>2. \A l \in S : Format(l) \in T
    BY DEF T, TasksOn, Format
  <2>3. \A t \in T : << <<t>> >> \in Seq(Seq(T)) /\ Len(<< <<t>> >>) = 1
    OBVIOUS
  <2>4. frames' = <<>> \/ (frames' \in Seq(Seq(T)) /\ Len(frames') = 1)
    BY <2>1, <2>2, <2>3
  <2> QED BY <1>1, <1>4, <2>4 DEF FramesOn, T
<1>8. CASE FormatStruct
  <2>1. IsGenerators(T, frames) /\ Task1.at \in S
        /\ frames' = Pushed(frames, TasksFor(Members(Task1.at)))
    BY <1>8, TopFacts, TaskCases DEF FormatStruct, T
  <2>2. TasksFor(Members(Task1.at)) \in Seq(T)
    BY <2>1, MembersTasks DEF T
  <2>3. frames' \in Seq(Seq(T)) /\ Len(frames') = Len(frames) + 1
    BY <2>1, <2>2, PushedFrames DEF IsGenerators
  <2> QED BY <1>1, <1>8, <2>3 DEF FormatStruct, FramesOn, T
<1>9. ASSUME NEW a \in Area, FollowArray(a)
      PROVE  FramesOn(S)' /\ Len(frames') <= MaxDepth
  <2> DEFINE at == Task1.val.to
  <2>1. HasTask /\ ReplaceBy(ArrayTasks(at)) /\ at[1] = a
    BY <1>9 DEF FollowArray, Follows
  <2>2. at \in S
    BY <1>9, <2>1, TopFacts, TaskCases DEF FollowArray, Follows
  <2> HIDE DEF at
  <2>3. ArrayTasks(at) \in Seq(T)
    BY <2>1, <2>2, ArrayTasksFacts DEF T
  <2> QED BY <1>5, <2>1, <2>3
<1>10. ASSUME NEW a \in Area, FollowSingle(a)
       PROVE  FramesOn(S)' /\ Len(frames') <= MaxDepth
  <2>1. HasTask /\ ReplaceBy(SingleTasks(Task1.val.to))
    BY <1>10 DEF FollowSingle, Follows, SingleTasks
  <2>2. Task1.val.to \in S
    BY <1>10, <2>1, TopFacts, TaskCases DEF FollowSingle, Follows
  <2> QED BY <1>5, <2>1, <2>2, SingleTasksFacts DEF T
<1>11. CASE \/ NewDump \/ VariableInvalid \/ TargetInvalid \/ GdbDies \/ Ended
            \/ UNCHANGED vars
  BY <1>4, <1>11 DEF NewDump, VariableInvalid, TargetInvalid, GdbDies, Ended, vars
<1>12. CASE EndOfGenerator \/ FollowOpaque \/ MemberInvalid
  BY <1>6, <1>12 DEF EndOfGenerator, FollowOpaque, MemberInvalid, HasTask
<1>13. CASE FormatPointer \/ ShowPlain \/ EndOfLoop
  BY <1>3, <1>5, <1>13 DEF FormatPointer, ShowPlain, EndOfLoop
<1>15. CASE ElementInvalid
  <2>1. HasTask /\ \E n \in DOMAIN Head(frames) : frames' = Dropped(frames, n)
    BY <1>15 DEF ElementInvalid, Dropped, Top
  <2>2. PICK n \in DOMAIN Head(frames) : frames' = Dropped(frames, n)
    BY <2>1
  <2>3. frames' \in Seq(Seq(T)) /\ Len(frames') = Len(frames)
    BY <1>2, <2>1, <2>2, DroppedFrames DEF HasTask, Top
  <2> QED BY <1>1, <2>3 DEF FramesOn, T
<1>14. ASSUME NEW a \in Area, FollowSeen(a) \/ FollowBinary(a) \/ FollowInvalid(a)
       PROVE  FramesOn(S)' /\ Len(frames') <= MaxDepth
  BY <1>3, <1>5, <1>14 DEF FollowSeen, FollowBinary, FollowInvalid, Follows
<1> QED BY <1>7, <1>8, <1>9, <1>10, <1>11, <1>12, <1>13, <1>14, <1>15
        DEF Next, PrintVariable

\* A remark or a line about an element.
LEMMA EmitType ==
  ASSUME out \in Seq(Item), NEW l \in Loc,
         NEW tag \in {"struct", "variable", "pointer"} \cup Remark
  PROVE  /\ Line(tag, l) \in Item
         /\ Append(out, Line(tag, l)) \in Seq(Item)
<1>1. Line(tag, l) \in Item
  BY DEF Item, Line
<1> QED BY <1>1

LEMMA TypeNext ==
  ASSUME TypeOK, [Next]_vars
  PROVE  TypeOK'
<1> USE DEF TypeOK
<1>1. LinksTo(Loc) /\ FramesOn(Loc) /\ Elem \subseteq Loc /\ HeapLoc \subseteq Loc
  BY ValueTypes, Zenon DEF LinksTo, FramesOn, Elem, Loc
<1>2. frames' \in Seq(Seq(Task)) /\ Len(frames') <= MaxDepth
  <2>1. FramesOn(Loc)' /\ Len(frames') <= MaxDepth
    BY <1>1, FramesNext
  <2> QED BY <2>1, ValueTypes DEF FramesOn
<1>3. HasTask => /\ Task1.do = "format" => Task1.at \in Loc
                 /\ Task1.do = "printer" /\ Task1.val.by # "plain" => Task1.val.to \in Loc
  BY <1>1, TopFacts, TaskCases
<1>4. var \in Nat /\ NumVars \in Nat /\ MaxDumps \in Nat /\ dumps \in Nat
  BY SizeAssumption, LimitAssumption
<1>5. ASSUME UNCHANGED program, dict' \subseteq Loc, out' \in Seq(Item),
             var' \in 1..(NumVars + 1), files' \subseteq Area, dumps' \in 0..MaxDumps
      PROVE  TypeOK'
  <2>1. Elem' = Elem
    BY <1>5 DEF Elem, Exists, program
  <2> QED BY <1>2, <1>5, <2>1 DEF program
<1>6. CASE NewDump
  <2>1. FilesOf(Area) \subseteq Area /\ <<>> \in Seq(Item) /\ 1 \in 1..(NumVars + 1)
    BY <1>4, SizeAssumption DEF FilesOf
  <2>2. dumps + 1 \in 0..MaxDumps
    BY <1>4, <1>6 DEF NewDump
  <2> QED BY <1>5, <1>6, <2>1, <2>2 DEF NewDump
<1>7. CASE PrintVariable \/ VariableInvalid \/ TargetInvalid
  <2>1. /\ var \in Var /\ var' = var + 1
        /\ UNCHANGED <<program, dict, files, dumps>>
        /\ \/ out' = out
           \/ out' = Append(out, Line("variable", <<var, 1>>))
           \/ out' = Append(out, Line("<INVALID>", <<var, 1>>))
           \/ out' = Append(Append(out, Line("variable", <<var, 1>>)),
                            Line("<INVALID>", <<var, 1>>))
    BY <1>7, PrintFacts DEF VariableInvalid, TargetInvalid
  <2>2. var + 1 \in 1..(NumVars + 1) /\ <<var, 1>> \in Loc
    BY <1>4, <2>1 DEF Var, Loc
  <2>3. \A tag \in {"variable", "<INVALID>"} : Line(tag, <<var, 1>>) \in Item
    BY <2>2, EmitType DEF Remark
  <2>4. out' \in Seq(Item)
    <3>1. \A o \in Seq(Item) : \A x \in Item : Append(o, x) \in Seq(Item)
      OBVIOUS
    <3> DEFINE x == Line("variable", <<var, 1>>)
               y == Line("<INVALID>", <<var, 1>>)
    <3>2. x \in Item /\ y \in Item /\ out \in Seq(Item)
      BY <2>3
    <3>3. \/ out' = out \/ out' = Append(out, x) \/ out' = Append(out, y)
          \/ out' = Append(Append(out, x), y)
      BY <2>1
    <3> HIDE DEF x, y
    <3>4. Append(out, x) \in Seq(Item)
      BY <3>1, <3>2
    <3>5. Append(out, y) \in Seq(Item) /\ Append(Append(out, x), y) \in Seq(Item)
      BY <3>1, <3>2, <3>4
    <3> QED BY <3>2, <3>3, <3>4, <3>5
  <2> QED BY <1>5, <2>1, <2>2, <2>4
<1>8. CASE ElementInvalid
  <2>1. /\ HasTask /\ UNCHANGED <<program, dict, var, files, dumps>>
        /\ \E n \in DOMAIN Top : /\ Top[n].do = "leave"
                                 /\ out' = Append(out, Line("<INVALID>", Top[n].at))
    BY <1>8 DEF ElementInvalid, Emit
  <2>2. PICK n \in DOMAIN Top : /\ Top[n].do = "leave"
                                /\ out' = Append(out, Line("<INVALID>", Top[n].at))
    BY <2>1
  <2>3. Top[n].at \in Loc
    <3>1. Top \in Seq(TasksOn(Loc))
      BY <1>1, <2>1 DEF FramesOn, HasTask, Top
    <3>2. Top[n] \in TasksOn(Loc)
      BY <3>1
    <3> QED BY <2>2, <3>2 DEF TasksOn
  <2>4. out' \in Seq(Item)
    BY <2>2, <2>3, EmitType DEF Remark
  <2> QED BY <1>5, <2>1, <2>4
<1>9. CASE EndOfGenerator \/ FormatPointer \/ ShowPlain \/ EndOfLoop
  BY <1>5, <1>9 DEF EndOfGenerator, FormatPointer, ShowPlain, EndOfLoop
<1>10. CASE FormatStruct
  <2>1. Task1.at \in Loc
    BY <1>3, <1>10 DEF FormatStruct
  <2>2. Append(out, Line("struct", Task1.at)) \in Seq(Item)
    BY <2>1, EmitType
  <2> QED BY <1>5, <1>10, <2>1, <2>2 DEF FormatStruct, Emit
<1>11. CASE GdbDies \/ FollowOpaque \/ MemberInvalid
  <2>1. \A tag \in {"crash", "error"} : Append(out, [tag |-> tag]) \in Seq(Item)
    <3>1. \A tag \in {"crash", "error"} : [tag |-> tag] \in Item
      BY DEF Item
    <3> QED BY <3>1
  <2>2. NumVars + 1 \in 1..(NumVars + 1) /\ MaxDumps \in 0..MaxDumps
    BY <1>4
  <2> QED BY <1>5, <1>11, <2>1, <2>2 DEF GdbDies, FollowOpaque, MemberInvalid
<1>12. ASSUME NEW a \in Area,
              \/ FollowSeen(a)
              \/ FollowArray(a)
              \/ FollowBinary(a)
              \/ FollowSingle(a)
              \/ FollowInvalid(a)
       PROVE  TypeOK'
  <2>1. Task1.val.to \in Loc
    BY <1>3, <1>12 DEF FollowSeen, FollowArray, FollowBinary, FollowSingle,
                       FollowInvalid, Follows
  <2>2. \A tag \in {"<PRINTED>", "pointer", "<BINARYDUMP>", "<INVALID>"} :
          Append(out, Line(tag, Task1.val.to)) \in Seq(Item)
    BY <2>1, EmitType DEF Remark
  <2>3. <<a, 1>> \in Loc
    BY SizeAssumption DEF Loc, HeapLoc
  <2>4. UNCHANGED <<program, var, files, dumps>>
        /\ (dict' = dict \/ dict' = dict \cup {<<a, 1>>})
        /\ \E tag \in {"<PRINTED>", "pointer", "<BINARYDUMP>", "<INVALID>"} :
             out' = Append(out, Line(tag, Task1.val.to))
    BY <1>12 DEF FollowSeen, FollowArray, FollowBinary, FollowSingle,
                 FollowInvalid, Mark, Emit
  <2> QED BY <1>5, <2>2, <2>3, <2>4
<1>13. CASE Ended \/ UNCHANGED vars
  BY <1>5, <1>13 DEF Ended, vars, program
<1> QED BY <1>6, <1>7, <1>8, <1>9, <1>10, <1>11, <1>12, <1>13 DEF Next, PrintVariable

LEMMA TypeInit == Init => TypeOK
<1> SUFFICES ASSUME Init PROVE TypeOK
  OBVIOUS
<1>1. LinksTo(Loc) /\ DOMAIN link = Elem
  BY InitLinks DEF Init
<1>2. link \in [Elem -> [Field -> Value] \cup [{1} -> Value]]
  <2>1. \A l \in Elem : link[l] \in [Field -> Value] \cup [{1} -> Value]
    BY <1>1, ValueTypes, Zenon DEF LinksTo
  <2> QED BY <2>1 DEF Init
<1>3. <<>> \in Seq(Seq(Task)) /\ Len(<<>>) = 0 /\ <<>> \in Seq(Item)
      /\ 1 \in 1..(NumVars + 1) /\ 0 \in 0..MaxDumps /\ 0 <= MaxDepth
  BY SizeAssumption, LimitAssumption, DepthAssumption
<1>4. MAX_SIZE_PP \in Limits /\ kind \in [Area \cup Var -> {"struct", "pointer"}]
      /\ len \in [Area -> 1..MaxElems] /\ dict = {} /\ files = {}
      /\ frames = <<>> /\ out = <<>> /\ var = 1 /\ dumps = 0
  BY DEF Init
<1> QED BY <1>2, <1>3, <1>4 DEF TypeOK

\* The state is well formed throughout every dump.
THEOREM TypeCorrect == Spec => []TypeOK
<1> QED BY TypeInit, TypeNext, PTL DEF Spec

----------------------------------------------------------------------------
(* Every variable.                                                         *)

VariableDone(v) == VariableShown(v) \/ Shows("<INVALID>", <<v, 1>>)

\* What the variable leads to is still the only task.
Pending(v) ==
  /\ v = var - 1
  /\ \E l : Leading(v, l) /\ frames = << <<Format(l)>> >>
  /\ kind[v] = "pointer" => Shows("variable", <<v, 1>>)

\* The variables before var are in the dump, but perhaps the last of them.
VarsInv ==
  \/ "crash" \in Tags
  \/ \A v \in Var : v < var => VariableDone(v) \/ Pending(v)

LEMMA AppendItem ==
  ASSUME out \in Seq(Item), NEW x, out' = Append(out, x)
  PROVE  Items' = Items \cup {x}
<1>1. /\ DOMAIN out = 1..Len(out) /\ Len(out) \in Nat
      /\ DOMAIN out' = 1..(Len(out) + 1)
      /\ \A i \in 1..Len(out) : out'[i] = out[i]
      /\ out'[Len(out) + 1] = x
  OBVIOUS
<1>2. \A y \in Items : y \in Items'
  BY <1>1 DEF Items
<1>3. x \in Items'
  BY <1>1 DEF Items
<1>4. \A y \in Items' : y \in Items \/ y = x
  BY <1>1 DEF Items
<1> QED BY <1>2, <1>3, <1>4

LEMMA AppendTwo ==
  ASSUME out \in Seq(Item), NEW x \in Item, NEW y \in Item,
         out' = Append(Append(out, x), y)
  PROVE  Items' = Items \cup {x, y}
<1> DEFINE o == Append(out, x)
<1>1. /\ o \in Seq(Item) /\ out' = Append(o, y)
      /\ DOMAIN out = 1..Len(out) /\ Len(out) \in Nat
      /\ DOMAIN o = 1..(Len(out) + 1) /\ Len(o) = Len(out) + 1
      /\ \A i \in 1..Len(out) : o[i] = out[i]
      /\ o[Len(out) + 1] = x
  OBVIOUS
<1> HIDE DEF o
<1>2. /\ DOMAIN out' = 1..(Len(out) + 2)
      /\ \A i \in 1..(Len(out) + 1) : out'[i] = o[i]
      /\ out'[Len(out) + 2] = y
  BY <1>1
<1>3. \A z \in Items : z \in Items'
  BY <1>1, <1>2 DEF Items
<1>4. x \in Items' /\ y \in Items'
  BY <1>1, <1>2 DEF Items
<1>5. \A z \in Items' : z \in Items \/ z = x \/ z = y
  BY <1>1, <1>2 DEF Items
<1> QED BY <1>3, <1>4, <1>5

\* What is added to the dump.
LEMMA OutputGrows ==
  ASSUME TypeOK, [Next]_vars, ~NewDump
  PROVE  \/ out' = out
         \/ \E x : out' = Append(out, x)
         \/ TargetInvalid
<1>1. out' = out \/ (\E x : out' = Append(out, x)) \/ TargetInvalid
  BY DEF Next, PrintStruct, PrintPointer, VariableInvalid, EndOfGenerator, FormatPointer,
         FormatStruct, GdbDies, ShowPlain, EndOfLoop, FollowSeen, FollowArray, FollowBinary,
         FollowSingle, FollowInvalid, ElementInvalid, MemberInvalid, FollowOpaque, Ended,
         Emit, vars
<1> QED BY <1>1

LEMMA TargetInvalidItems ==
  ASSUME TypeOK, TargetInvalid
  PROVE  Items' = Items \cup {Line("variable", <<var, 1>>), Line("<INVALID>", <<var, 1>>)}
<1>1. <<var, 1>> \in Loc /\ out \in Seq(Item)
  BY DEF TargetInvalid, TypeOK, Loc
<1>2. Line("variable", <<var, 1>>) \in Item /\ Line("<INVALID>", <<var, 1>>) \in Item
  BY <1>1, EmitType DEF Remark
<1>3. out' = Append(Append(out, Line("variable", <<var, 1>>)), Line("<INVALID>", <<var, 1>>))
  BY DEF TargetInvalid
<1> QED BY <1>1, <1>2, <1>3, AppendTwo

\* The dump only grows, but for NewDump.
LEMMA ItemsGrow ==
  ASSUME TypeOK, [Next]_vars, ~NewDump
  PROVE  Items \subseteq Items'
<1>1. CASE out' = out
  BY <1>1 DEF Items
<1>2. ASSUME NEW x, out' = Append(out, x)
      PROVE  Items \subseteq Items'
  BY <1>2, AppendItem DEF TypeOK
<1>3. CASE TargetInvalid
  BY <1>3, TargetInvalidItems
<1> QED BY <1>1, <1>2, <1>3, OutputGrows

LEMMA ProgramUnchanged ==
  ASSUME [Next]_vars
  PROVE  UNCHANGED program
BY DEF Next, NewDump, PrintStruct, PrintPointer, VariableInvalid, TargetInvalid,
       EndOfGenerator, FormatPointer, FormatStruct, GdbDies, ShowPlain, EndOfLoop,
       FollowSeen, FollowArray, FollowBinary, FollowSingle, FollowInvalid,
       ElementInvalid, MemberInvalid, FollowOpaque, Ended, program, vars

LEMMA OneTask ==
  ASSUME NEW t, frames = << <<t>> >>
  PROVE  HasTask /\ Task1 = t /\ frames # <<>> /\ Top # <<>>
<1>1. << <<t>> >> # <<>> /\ <<t>> # <<>>
  OBVIOUS
<1>2. Head(<< <<t>> >>) = <<t>> /\ Head(<<t>>) = t
  OBVIOUS
<1> QED BY <1>1, <1>2 DEF HasTask, Task1, Top

\* A variable stays in the dump.
LEMMA DoneStays ==
  ASSUME UNCHANGED program, Items \subseteq Items', NEW v \in Var, VariableDone(v)
  PROVE  VariableDone(v)'
<1>1. \A tag, l : Shows(tag, l) => Shows(tag, l)'
  BY DEF Shows
<1>2. kind' = kind /\ Target(v)' = Target(v)
  BY DEF program, Target
<1> QED BY <1>1, <1>2 DEF VariableDone, VariableShown, StructShown

\* The struct that the variable leads to has been formatted.
LEMMA PendingDone ==
  ASSUME UNCHANGED program, NEW v \in Var, kind[v] \in {"struct", "pointer"},
         NEW l, Leading(v, l),
         kind[v] = "pointer" => Shows("variable", <<v, 1>>)',
         StructShown(l)' \/ kind[l[1]] = "pointer"
  PROVE  VariableDone(v)'
<1>1. kind' = kind /\ Target(v)' = Target(v)
  BY DEF program, Target
<1>2. CASE kind[v] = "struct"
  <2>1. l = <<v, 1>> /\ l[1] = v
    BY <1>2 DEF Leading
  <2>2. StructShown(<<v, 1>>)'
    BY <1>2, <2>1
  <2> QED BY <1>1, <1>2, <2>2 DEF VariableDone, VariableShown
<1>3. CASE kind[v] = "pointer"
  <2>1. l = link[<<v, 1>>][1].to
    BY <1>3 DEF Leading
  <2>2. \A k \in Target(v) : k = l
    BY <2>1 DEF Target
  <2>3. \A k \in Target(v) : kind[k[1]] = "struct" => StructShown(k)'
    BY <2>2
  <2> QED BY <1>1, <1>3, <2>3 DEF VariableDone, VariableShown
<1> QED BY <1>2, <1>3

LEMMA VarsNext ==
  ASSUME TypeOK, VarsInv, [Next]_vars
  PROVE  VarsInv'
<1>1. CASE NewDump
  <2>1. var' = 1
    BY <1>1 DEF NewDump
  <2> QED BY <2>1, SizeAssumption DEF VarsInv, Var
<1>2. CASE "crash" \in Tags /\ ~NewDump
  BY <1>2, ItemsGrow DEF VarsInv, Tags
<1> SUFFICES ASSUME "crash" \notin Tags, ~NewDump
             PROVE  VarsInv'
  BY <1>1, <1>2
<1>3. Items \subseteq Items' /\ UNCHANGED program /\ kind' = kind
  BY ItemsGrow, ProgramUnchanged DEF program
<1>4. \A x : out' = Append(out, x) => x \in Items'
  BY AppendItem DEF TypeOK
<1>5. \A v \in Var : VariableDone(v) => VariableDone(v)'
  BY <1>3, DoneStays
<1>6. var \in Nat /\ \A v \in Var : v \in Nat /\ kind[v] \in {"struct", "pointer"}
  BY DEF TypeOK, Var
<1>7. ASSUME var' = var,
             \A v \in Var : Pending(v) => VariableDone(v)' \/ frames' = frames
      PROVE  VarsInv'
  <2>1. \A v \in Var : Pending(v) /\ frames' = frames => Pending(v)'
    <3>1. \A v : Shows("variable", <<v, 1>>) => Shows("variable", <<v, 1>>)'
      BY <1>3 DEF Shows
    <3>2. \A v, l : Leading(v, l) => Leading(v, l)'
      BY <1>3 DEF Leading, program
    <3> QED BY <1>3, <1>7, <3>1, <3>2 DEF Pending
  <2>2. \A v \in Var : v < var => VariableDone(v)' \/ Pending(v)'
    BY <1>5, <1>7, <2>1 DEF VarsInv
  <2> QED BY <1>7, <2>2 DEF VarsInv
<1>8. ASSUME NEW v \in Var, Pending(v)
      PROVE  \E l : /\ Leading(v, l) /\ HasTask /\ frames # <<>> /\ Top # <<>>
                    /\ Task1.do = "format" /\ Task1.at = l
                    /\ kind[v] = "pointer" => Shows("variable", <<v, 1>>)'
  <2>1. PICK l : Leading(v, l) /\ frames = << <<Format(l)>> >>
    BY <1>8 DEF Pending
  <2>2. HasTask /\ Task1 = Format(l) /\ frames # <<>> /\ Top # <<>>
    BY <2>1, OneTask
  <2>3. Format(l).do = "format" /\ Format(l).at = l
    BY DEF Format
  <2>4. kind[v] = "pointer" => Shows("variable", <<v, 1>>)'
    BY <1>3, <1>8 DEF Pending, Shows
  <2> QED BY <2>1, <2>2, <2>3, <2>4
\* A variable is begun: the others are done.
<1>9. ASSUME frames = <<>>, NEW w \in Var, w = var, var' = w + 1,
             VariableDone(w)' \/ Pending(w)'
      PROVE  VarsInv'
  <2>1. \A v \in Var : v < var => VariableDone(v)
    BY <1>8, <1>9 DEF VarsInv
  <2>2. \A v \in Var : v < var' => v < var \/ v = w
    BY <1>6, <1>9
  <2>3. \A v \in Var : v < var' => VariableDone(v)' \/ v = w
    BY <1>5, <2>1, <2>2
  <2>4. \A v \in Var : v < var' => VariableDone(v)' \/ Pending(v)'
    BY <1>9, <2>3
  <2> QED BY <2>4 DEF VarsInv
<1>10. CASE PrintStruct
  <2>1. /\ frames = <<>> /\ var \in Var /\ var' = var + 1 /\ kind[var] = "struct"
        /\ frames' = << <<Format(<<var, 1>>)>> >>
    BY <1>10, Zenon DEF PrintStruct
  <2>2. PICK w \in Var : w = var
    BY <2>1
  <2>3. Leading(w, <<w, 1>>)' /\ w = var' - 1 /\ kind'[w] = "struct"
    BY <1>3, <1>6, <2>1, <2>2 DEF Leading
  <2>4. frames' = << <<Format(<<w, 1>>)>> >>
    BY <2>1, <2>2
  <2>5. Pending(w)'
    BY <2>3, <2>4 DEF Pending
  <2> QED BY <1>9, <2>1, <2>2, <2>5
<1>11. CASE PrintPointer
  <2> DEFINE x == link[<<var, 1>>][1]
  <2>1. /\ frames = <<>> /\ var \in Var /\ var' = var + 1 /\ kind[var] = "pointer"
        /\ out' = Append(out, Line("variable", <<var, 1>>))
        /\ frames' = IF x.by \in {"ptr", "ref"} THEN << <<Format(x.to)>> >> ELSE <<>>
    BY <1>11, Zenon DEF PrintPointer
  <2>2. PICK w \in Var : w = var
    BY <2>1
  <2>3. PICK y : y = x /\ y = link[<<w, 1>>][1] /\ y = link'[<<w, 1>>][1]
    BY <1>3, <2>2 DEF program
  <2>4. Shows("variable", <<w, 1>>)'
    BY <1>4, <2>1, <2>2 DEF Shows
  <2>5. kind'[w] = "pointer" /\ w = var' - 1
    BY <1>3, <1>6, <2>1, <2>2
  <2>6. CASE y.by \in {"ptr", "ref"}
    <3>1. Leading(w, y.to)'
      BY <2>3, <2>5, <2>6 DEF Leading
    <3>2. frames' = << <<Format(y.to)>> >>
      <4> HIDE DEF x
      <4> QED BY <2>1, <2>3, <2>6
    <3>3. Pending(w)'
      BY <2>4, <2>5, <3>1, <3>2 DEF Pending
    <3> QED BY <1>9, <2>1, <2>2, <3>3
  <2>7. CASE y.by \notin {"ptr", "ref"}
    <3>1. Target(w)' = {}
      BY <2>3, <2>7 DEF Target
    <3>2. VariableDone(w)'
      BY <2>4, <2>5, <3>1 DEF VariableDone, VariableShown
    <3> QED BY <1>9, <2>1, <2>2, <3>2
  <2> QED BY <2>6, <2>7
<1>12. CASE VariableInvalid \/ TargetInvalid
  <2>1. frames = <<>> /\ var \in Var /\ var' = var + 1
    BY <1>12 DEF VariableInvalid, TargetInvalid
  <2>2. PICK w \in Var : w = var
    BY <2>1
  <2>3. Line("<INVALID>", <<w, 1>>) \in Items'
    BY <1>4, <1>12, <2>2, TargetInvalidItems DEF VariableInvalid
  <2>4. VariableDone(w)'
    BY <2>3 DEF VariableDone, Shows
  <2> QED BY <1>9, <2>1, <2>2, <2>4
<1>13. CASE FormatStruct
  <2>1. var' = var /\ out' = Append(out, Line("struct", Task1.at))
    BY <1>13 DEF FormatStruct, Emit
  <2>2. ASSUME NEW v \in Var, Pending(v)
        PROVE  VariableDone(v)'
    <3>1. PICK l : /\ Leading(v, l) /\ Task1.at = l
                   /\ kind[v] = "pointer" => Shows("variable", <<v, 1>>)'
      BY <1>8, <2>2
    <3>2. StructShown(l)'
      BY <1>4, <2>1, <3>1 DEF StructShown, Shows
    <3> QED BY <1>3, <1>6, <3>1, <3>2, PendingDone
  <2> QED BY <1>7, <2>1, <2>2
<1>14. CASE FormatPointer
  <2>1. var' = var /\ kind[Task1.at[1]] = "pointer"
    BY <1>14 DEF FormatPointer
  <2>2. \A v \in Var : Pending(v) => VariableDone(v)'
    BY <1>3, <1>6, <1>8, <2>1, PendingDone
  <2> QED BY <1>7, <2>1, <2>2
<1>15. CASE GdbDies
  <2>1. [tag |-> "crash"] \in Items'
    BY <1>15, <1>4 DEF GdbDies
  <2>2. "crash" \in Tags'
    BY <2>1 DEF Tags
  <2> QED BY <2>2 DEF VarsInv
<1>16. CASE EndOfGenerator
  BY <1>7, <1>8, <1>16 DEF EndOfGenerator
<1>17. CASE ShowPlain \/ EndOfLoop \/ FollowOpaque \/ ElementInvalid \/ MemberInvalid
  BY <1>7, <1>8, <1>17 DEF ShowPlain, EndOfLoop, FollowOpaque, ElementInvalid, MemberInvalid
<1>18. ASSUME NEW a \in Area,
              \/ FollowSeen(a)
              \/ FollowArray(a)
              \/ FollowBinary(a)
              \/ FollowSingle(a)
              \/ FollowInvalid(a)
       PROVE  VarsInv'
  <2>1. Task1.do = "printer" /\ var' = var
    BY <1>18 DEF FollowSeen, FollowArray, FollowBinary, FollowSingle, FollowInvalid, Follows
  <2> QED BY <1>7, <1>8, <2>1
<1>19. CASE Ended \/ UNCHANGED vars
  BY <1>7, <1>19 DEF Ended, vars
<1> QED BY <1>10, <1>11, <1>12, <1>13, <1>14, <1>15, <1>16, <1>17, <1>18, <1>19 DEF Next

\* Every variable is in the dump or marked invalid, with what a pointer leads to:
\* an exception costs the rest of one struct or what one pointer leads to, and
\* the prints that follow in printVariables are made.
THEOREM VariablesArePrinted == Spec => []VariablesPrinted
<1>1. Init => VarsInv
  BY DEF Init, VarsInv, Var
<1>2. TypeOK /\ VarsInv => VariablesPrinted
  <2>1. TypeOK /\ Finished => \A v \in Var : v < var /\ \A t : frames # << <<t>> >>
    <3>1. \A t : << <<t>> >> # <<>>
      OBVIOUS
    <3> QED BY <3>1, SizeAssumption DEF TypeOK, Finished, Var
  <2> QED BY <2>1 DEF VarsInv, Pending, VariablesPrinted, VariableDone
<1> QED BY <1>1, <1>2, TypeInit, TypeNext, VarsNext, PTL DEF Spec

----------------------------------------------------------------------------
(* Nothing is dropped.                                                     *)

Disturbed == Tags \cap {"<INVALID>", "error", "crash"} # {}

\* A pointer of a followed element leads to an area that address_dict knows, or
\* printer() has still to be called for it.
Leads ==
  \A l \in Followed : \A f \in DOMAIN Members(l) : Members(l)[f].by = "ptr" =>
    Seen(Members(l)[f].to[1]) \/ Holds(frames, Visit(Members(l)[f]))

\* An area that address_dict knows is shown, or gdb has still to format it.
Marked ==
  \A a \in Area : Seen(a) =>
    Begun(a) \/ (kind[a] = "struct" /\ Holds(frames, Format(<<a, 1>>)))

\* No pointer leads behind an area.
Sound ==
  /\ LinksTo(Elem)
  /\ FramesOn(Elem)
  /\ \A l \in Elem : DOMAIN link[l] = IF kind[l[1]] = "struct" THEN Field ELSE {1}

FilesInv == IF dumps = 0 THEN frames = <<>> ELSE files = FilesOf(Area)

DropInv == Sound /\ FilesInv /\ (Disturbed \/ (Leads /\ Marked))

LEMMA SoundNext ==
  ASSUME TypeOK, Sound, [Next]_vars
  PROVE  Sound'
<1>1. Elem' = Elem /\ link' = link /\ kind' = kind
  BY ProgramUnchanged DEF Elem, Exists, program
<1>2. PICK S : S = Elem
  OBVIOUS
<1>3. LinksTo(S) /\ FramesOn(S) /\ Elem \subseteq S /\ S \subseteq Loc
  BY <1>2, Zenon DEF Sound, Elem
<1>4. FramesOn(S)'
  BY <1>3, FramesNext
<1>5. FramesOn(Elem)'
  BY <1>1, <1>2, <1>4 DEF FramesOn
<1>6. LinksTo(Elem)'
  BY <1>1 DEF Sound, LinksTo
<1> QED BY <1>1, <1>5, <1>6 DEF Sound

LEMMA FilesNext ==
  ASSUME TypeOK, FilesInv, [Next]_vars
  PROVE  FilesInv'
<1>1. UNCHANGED <<MAX_SIZE_PP, len>>
  BY ProgramUnchanged DEF program
<1>2. CASE NewDump
  <2>1. dumps' # 0
    BY <1>2 DEF NewDump, TypeOK
  <2> QED BY <1>1, <1>2, <2>1 DEF NewDump, FilesInv, FilesOf
<1>3. CASE ~NewDump
  <2>1. /\ files' = files
        /\ dumps' = dumps \/ (dumps # 0 /\ dumps' = MaxDumps)
        /\ dumps = 0 => frames' = frames
    <3>1. files' = files /\ (GdbDies \/ dumps' = dumps)
      BY <1>3 DEF Next, PrintStruct, PrintPointer, VariableInvalid, TargetInvalid,
           EndOfGenerator, FormatPointer, FormatStruct, ShowPlain, EndOfLoop, FollowSeen,
           FollowArray, FollowBinary, FollowSingle, FollowInvalid, ElementInvalid,
           MemberInvalid, FollowOpaque, Ended, vars, GdbDies
    <3>2. dumps = 0 => frames = <<>>
      BY DEF FilesInv
    <3>3. GdbDies => dumps # 0 /\ dumps' = MaxDumps
      BY <3>2 DEF GdbDies, HasTask
    <3>4. dumps = 0 => frames' = frames
      <4> SUFFICES ASSUME dumps = 0 PROVE frames' = frames
        OBVIOUS
      <4>1. frames = <<>> /\ ~HasTask /\ ~(dumps > 0)
        BY <3>2 DEF HasTask
      <4> QED BY <1>3, <4>1 DEF Next, PrintStruct, PrintPointer, VariableInvalid,
           TargetInvalid, EndOfGenerator, FormatPointer, FormatStruct, GdbDies, ShowPlain,
           EndOfLoop, FollowSeen, FollowArray, FollowBinary, FollowSingle, FollowInvalid,
           ElementInvalid, MemberInvalid, FollowOpaque, Follows, Ended, vars
    <3> QED BY <3>1, <3>3, <3>4
  <2>2. dumps # 0 => MaxDumps # 0
    BY LimitAssumption DEF TypeOK
  <2> QED BY <1>1, <2>1, <2>2 DEF FilesInv, FilesOf
<1> QED BY <1>2, <1>3

\* What one more line adds to the elements that are followed.
LEMMA FollowedGrows ==
  ASSUME out \in Seq(Item), NEW x, out' = Append(out, x), UNCHANGED program,
         NEW l \in Followed'
  PROVE  \/ l \in Followed
         \/ x.tag = "struct" /\ l = x.at
         \/ /\ x.tag = "pointer" /\ l[1] = x.at[1]
            /\ l \in HeapLoc /\ kind[l[1]] = "pointer" /\ Exists(l)
<1>1. \A y \in Items' : y \in Items \/ y = x
  BY AppendItem
<1>2. Exists(l)' <=> Exists(l)
  BY DEF Exists, program
<1> QED BY <1>1, <1>2 DEF Followed, Mentioned, program

\* One step of the generators: a task is done and nothing else is forgotten.
LEMMA TaskDone ==
  ASSUME Leads, Marked, NEW t, Items \subseteq Items', dict \subseteq dict',
         UNCHANGED <<program, files>>,
         \A u : Holds(frames, u) /\ u # t => Holds(frames', u),
         t.do = "printer" /\ t.val.by = "ptr" => <<t.val.to[1], 1>> \in dict',
         t.do = "format" /\ kind[t.at[1]] = "struct" =>
           Line("struct", t.at) \in Items',
         \A l \in Followed' : l \in Followed \/
           \A f \in DOMAIN Members(l) : Members(l)[f].by = "ptr" =>
             \/ <<Members(l)[f].to[1], 1>> \in dict'
             \/ Holds(frames', Visit(Members(l)[f])),
         \A a \in Area : <<a, 1>> \in dict' =>
           \/ <<a, 1>> \in dict
           \/ Begun(a)'
           \/ kind[a] = "struct" /\ Holds(frames', Format(<<a, 1>>))
  PROVE  Leads' /\ Marked'
<1>1. \A l : Members(l)' = Members(l)
  BY DEF Members, Exists, program
<1>2. \A a : Begun(a) => Begun(a)'
  BY DEF Begun, StructShown, Shows, Mentioned, program
<1>3. ASSUME NEW l \in Followed', NEW f \in DOMAIN Members(l), Members(l)[f].by = "ptr"
      PROVE  <<Members(l)[f].to[1], 1>> \in dict' \/ Holds(frames', Visit(Members(l)[f]))
  <2> DEFINE v == Members(l)[f]
  <2>1. CASE l \in Followed /\ <<v.to[1], 1>> \notin dict
    <3>1. Holds(frames, Visit(v))
      BY <1>3, <2>1 DEF Leads, Seen
    <3>2. CASE Visit(v) = t
      <4>1. t.do = "printer" /\ t.val = v
        BY <3>2 DEF Visit
      <4> QED BY <1>3, <4>1
    <3>3. CASE Visit(v) # t
      BY <3>1, <3>3
    <3> QED BY <3>2, <3>3
  <2>2. CASE l \in Followed /\ <<v.to[1], 1>> \in dict
    BY <2>2
  <2>3. CASE l \notin Followed
    BY <1>3, <2>3
  <2> QED BY <2>1, <2>2, <2>3
<1>4. ASSUME NEW a \in Area, <<a, 1>> \in dict'
      PROVE  Begun(a)' \/ (kind[a] = "struct" /\ Holds(frames', Format(<<a, 1>>)))
  <2>1. CASE <<a, 1>> \in dict /\ ~Begun(a)
    <3>1. kind[a] = "struct" /\ Holds(frames, Format(<<a, 1>>))
      BY <2>1 DEF Marked, Seen
    <3>2. CASE Format(<<a, 1>>) = t
      <4>1. t.do = "format" /\ t.at = <<a, 1>> /\ t.at[1] = a
        BY <3>2 DEF Format
      <4>2. Line("struct", <<a, 1>>) \in Items'
        BY <3>1, <4>1
      <4> QED BY <3>1, <4>2 DEF Begun, StructShown, Shows, program
    <3>3. CASE Format(<<a, 1>>) # t
      BY <3>1, <3>3
    <3> QED BY <3>2, <3>3
  <2>2. CASE Begun(a)
    BY <1>2, <2>2
  <2>3. CASE <<a, 1>> \notin dict
    BY <1>4, <2>3
  <2> QED BY <2>1, <2>2, <2>3
<1>5. Leads'
  BY <1>1, <1>3 DEF Leads, Seen
<1>6. Marked'
  BY <1>4 DEF Marked, Seen, program
<1> QED BY <1>5, <1>6

\* A task that leaves no others behind.
LEMMA NothingLeft ==
  ASSUME NEW S, FramesOn(S), HasTask, ReplaceBy(<<>>)
  PROVE  \A u : Holds(frames, u) /\ u # Task1 => Holds(frames', u)
<1>1. IsGenerators(TasksOn(S), frames) /\ frames' = Replaced(frames, <<>>)
  BY TopFacts
<1>2. <<>> \in Seq(TasksOn(S)) /\ Task1 = Head(Head(frames))
  BY DEF Task1, Top
<1> QED BY <1>1, <1>2, HoldsReplaced

\* A task that leaves others.
LEMMA TasksLeft ==
  ASSUME NEW S, FramesOn(S), HasTask, NEW ts \in Seq(TasksOn(S)), ReplaceBy(ts)
  PROVE  /\ \A u : Holds(frames, u) /\ u # Task1 => Holds(frames', u)
         /\ \A j \in DOMAIN ts : Holds(frames', ts[j])
<1>1. IsGenerators(TasksOn(S), frames) /\ frames' = Replaced(frames, ts)
  BY TopFacts
<1>2. Task1 = Head(Head(frames))
  BY DEF Task1, Top
<1>3. \A u : Holds(frames, u) /\ u # Task1 => Holds(Replaced(frames, ts), u)
  BY <1>1, <1>2, HoldsReplaced
<1>4. \A u : (\E j \in DOMAIN ts : ts[j] = u) => Holds(Replaced(frames, ts), u)
  BY <1>1, HoldsReplaced
<1> QED BY <1>1, <1>3, <1>4

LEMMA DropFormat ==
  ASSUME TypeOK, Sound, Leads, Marked, FormatStruct
  PROVE  Leads' /\ Marked'
<1> DEFINE l == Task1.at
           ts == TasksFor(Members(l))
<1>1. PICK S : S = Elem
  OBVIOUS
<1>2. LinksTo(S) /\ FramesOn(S) /\ S \subseteq Loc
  BY <1>1, Zenon DEF Sound, Elem
<1>3. /\ HasTask /\ Task1.do = "format" /\ kind[l[1]] = "struct"
      /\ dict' = dict \cup {l} /\ out' = Append(out, Line("struct", l))
      /\ frames' = <<ts, Tail(Top)>> \o Tail(frames)
      /\ UNCHANGED <<program, files>>
  BY DEF FormatStruct, Emit
<1>4. l \in S /\ IsGenerators(TasksOn(S), frames) /\ frames' = Pushed(frames, ts)
      /\ Task1 = Head(Head(frames))
  BY <1>2, <1>3, TopFacts, TaskCases DEF Task1, Top
<1>5. /\ ts \in Seq(TasksOn(S))
      /\ \A f \in DOMAIN Members(l) : Members(l)[f].by = "ptr" =>
              f \in DOMAIN ts /\ ts[f] = Visit(Members(l)[f])
  BY <1>2, <1>4, MembersTasks
<1>6. /\ \A u : Holds(frames, u) /\ u # Task1 => Holds(frames', u)
      /\ \A u : (\E j \in DOMAIN ts : ts[j] = u) => Holds(frames', u)
  <2> HIDE DEF ts
  <2> QED BY <1>4, <1>5, HoldsPushed
<1>7. Items' = Items \cup {Line("struct", l)}
  BY <1>3, AppendItem DEF TypeOK
<1>8. ASSUME NEW k \in Followed', k \notin Followed
      PROVE  \A f \in DOMAIN Members(k) : Members(k)[f].by = "ptr" =>
               Holds(frames', Visit(Members(k)[f]))
  <2>1. k = l
    <3> DEFINE x == Line("struct", l)
    <3>1. x.tag = "struct" /\ x.at = l /\ out' = Append(out, x)
      BY <1>3 DEF Line
    <3> HIDE DEF x
    <3> QED BY <1>3, <1>8, <3>1, FollowedGrows DEF TypeOK
  <2> QED BY <1>5, <1>6, <2>1
<1>9. ASSUME NEW a \in Area, <<a, 1>> \in dict', <<a, 1>> \notin dict
      PROVE  Begun(a)'
  <2>1. l = <<a, 1>> /\ l[1] = a
    BY <1>3, <1>9
  <2> QED BY <1>3, <1>7, <2>1 DEF Begun, StructShown, Shows, program
<1>10. Line("struct", l) \in Items' /\ Items \subseteq Items'
       /\ dict \subseteq dict'
  BY <1>3, <1>7
<1> QED BY <1>3, <1>6, <1>8, <1>9, <1>10, TaskDone

\* A line with another tag than "struct" and "pointer" adds nothing to follow.
LEMMA RemarkFollowsNothing ==
  ASSUME out \in Seq(Item), NEW x, out' = Append(out, x), x.tag \notin {"struct", "pointer"},
         UNCHANGED program
  PROVE  Followed' \subseteq Followed
BY FollowedGrows

LEMMA DropArray ==
  ASSUME TypeOK, Sound, Leads, Marked, NEW a \in Area, FollowArray(a)
  PROVE  Leads' /\ Marked'
<1> DEFINE l0 == Task1.val.to
           ts == ArrayTasks(l0)
           x == Line("pointer", Task1.val.to)
<1>1. PICK S : S = Elem
  OBVIOUS
<1>2. LinksTo(S) /\ FramesOn(S) /\ Elem \subseteq S
  BY <1>1, Zenon DEF Sound, Elem
<1>3. /\ HasTask /\ Task1.do = "printer" /\ Task1.val.by = "ptr" /\ l0[1] = a
      /\ dict' = dict \cup {<<a, 1>>} /\ out' = Append(out, x)
      /\ ReplaceBy(ts)
      /\ UNCHANGED <<program, files>>
  BY DEF FollowArray, Follows, Mark, Emit
<1>4. x.tag = "pointer" /\ x.at[1] = a
  BY <1>3 DEF Line
<1>11. l0 \in S
  BY <1>2, <1>3, TopFacts, TaskCases
<1> HIDE DEF x
<1>5. /\ ts \in Seq(TasksOn(S))
      /\ \A i \in 1..len[a] :
              /\ i \in DOMAIN ts
              /\ kind[a] = "struct" => ts[i] = Format(<<a, i>>)
              /\ kind[a] = "pointer" /\ link[<<a, i>>][1].by = "ptr" =>
                   ts[i] = Visit(link[<<a, i>>][1])
  <2> HIDE DEF l0
  <2> QED BY <1>2, <1>3, <1>11, ArrayTasksFacts
<1> HIDE DEF ts
<1>6. /\ \A u : Holds(frames, u) /\ u # Task1 => Holds(frames', u)
      /\ \A j \in DOMAIN ts : Holds(frames', ts[j])
  BY <1>2, <1>3, <1>5, TasksLeft
<1>7. Items' = Items \cup {x}
  BY <1>3, AppendItem DEF TypeOK
<1>8. ASSUME NEW k \in Followed', k \notin Followed,
             NEW f \in DOMAIN Members(k), Members(k)[f].by = "ptr"
      PROVE  Holds(frames', Visit(Members(k)[f]))
  <2>1. k[1] = a /\ k \in HeapLoc /\ kind[a] = "pointer" /\ Exists(k)
    BY <1>3, <1>4, <1>8, FollowedGrows DEF TypeOK
  <2>2. k[2] \in 1..len[a] /\ k = <<a, k[2]>> /\ k \in Elem
    BY <2>1, AreaAssumption DEF HeapLoc, Exists, Elem, Loc, Var, TypeOK
  <2>3. Members(k) = link[k] /\ f = 1
    BY <1>8, <2>1, <2>2 DEF Members, Sound
  <2> QED BY <1>5, <1>6, <1>8, <2>1, <2>2, <2>3
<1>9. Begun(a)' \/ (kind[a] = "struct" /\ Holds(frames', Format(<<a, 1>>)))
  <2>1. CASE kind[a] = "struct"
    <3>1. 1 \in 1..len[a]
      BY DEF TypeOK
    <3> QED BY <1>5, <1>6, <2>1, <3>1
  <2>2. CASE kind[a] = "pointer"
    BY <1>3, <1>4, <1>7, <2>2 DEF Begun, Mentioned, program
  <2> QED BY <2>1, <2>2 DEF TypeOK
<1>10. /\ Items \subseteq Items' /\ dict \subseteq dict' /\ <<a, 1>> \in dict'
       /\ \A b \in Area : <<b, 1>> \in dict' => <<b, 1>> \in dict \/ b = a
  BY <1>3, <1>7
<1> QED BY <1>3, <1>6, <1>8, <1>9, <1>10, TaskDone

LEMMA DropSingle ==
  ASSUME TypeOK, Sound, Leads, Marked, NEW a \in Area, FollowSingle(a)
  PROVE  Leads' /\ Marked'
<1> DEFINE l == Task1.val.to
           ts == SingleTasks(l)
           x == Line("pointer", l)
<1>1. PICK S : S = Elem
  OBVIOUS
<1>2. LinksTo(S) /\ FramesOn(S) /\ S \subseteq Loc
  BY <1>1, Zenon DEF Sound, Elem
<1>3. /\ HasTask /\ Task1.do = "printer" /\ Task1.val.by = "ptr" /\ l[1] = a
      /\ len[a] = 1 /\ dict' = dict \cup {<<a, 1>>} /\ out' = Append(out, x)
      /\ ReplaceBy(ts)
      /\ UNCHANGED <<program, files>>
  BY DEF FollowSingle, Follows, Mark, Emit
<1>4. x.tag = "pointer" /\ x.at[1] = a
  BY <1>3 DEF Line
<1>5. l \in S /\ l \in HeapLoc
  BY <1>2, <1>3, TopFacts, TaskCases
<1>6. l = <<a, 1>>
  BY <1>1, <1>3, <1>5, AreaAssumption DEF HeapLoc, Exists, Elem, Var
<1> HIDE DEF x, l
<1>7. /\ ts \in Seq(TasksOn(S))
      /\ kind[a] = "struct" => 1 \in DOMAIN ts /\ ts[1] = Format(<<a, 1>>)
      /\ kind[a] # "struct" =>
           \A f \in DOMAIN Members(l) : Members(l)[f].by = "ptr" =>
             f \in DOMAIN ts /\ ts[f] = Visit(Members(l)[f])
  BY <1>2, <1>3, <1>5, <1>6, SingleTasksFacts
<1> HIDE DEF ts
<1>8. /\ \A u : Holds(frames, u) /\ u # Task1 => Holds(frames', u)
      /\ \A j \in DOMAIN ts : Holds(frames', ts[j])
  BY <1>2, <1>3, <1>7, TasksLeft
<1>9. Items' = Items \cup {x}
  BY <1>3, AppendItem DEF TypeOK
<1>10. ASSUME NEW k \in Followed', k \notin Followed
       PROVE  kind[a] # "struct" /\ k = l
  <2>1. k[1] = a /\ k \in HeapLoc /\ kind[a] = "pointer" /\ Exists(k)
    BY <1>3, <1>4, <1>10, FollowedGrows DEF TypeOK
  <2> QED BY <1>3, <1>6, <2>1, AreaAssumption DEF HeapLoc, Exists, Var
<1>11. Begun(a)' \/ (kind[a] = "struct" /\ Holds(frames', Format(<<a, 1>>)))
  <2>1. CASE kind[a] = "struct"
    BY <1>7, <1>8, <2>1
  <2>2. CASE kind[a] = "pointer"
    BY <1>3, <1>4, <1>9, <2>2 DEF Begun, Mentioned, program
  <2> QED BY <2>1, <2>2 DEF TypeOK
<1>12. /\ Items \subseteq Items' /\ dict \subseteq dict' /\ <<a, 1>> \in dict'
       /\ \A b \in Area : <<b, 1>> \in dict' => <<b, 1>> \in dict \/ b = a
  BY <1>3, <1>9
<1>13. \A k \in Followed' : k \in Followed \/
         \A f \in DOMAIN Members(k) : Members(k)[f].by = "ptr" =>
           Holds(frames', Visit(Members(k)[f]))
  BY <1>7, <1>8, <1>10
<1>14. Task1.val.to[1] = a
  BY <1>3 DEF l
<1> QED BY <1>3, <1>8, <1>11, <1>12, <1>13, <1>14, TaskDone

LEMMA DropRemark ==
  ASSUME TypeOK, Sound, FilesInv, Leads, Marked, NEW a \in Area,
         FollowSeen(a) \/ FollowBinary(a)
  PROVE  Leads' /\ Marked'
<1>1. PICK tag \in {"<PRINTED>", "<BINARYDUMP>"} :
        /\ tag = "<PRINTED>" => dict' = dict /\ Seen(a)
        /\ tag = "<BINARYDUMP>" => dict' = dict \cup {<<a, 1>>} /\ ~Pretty(a)
        /\ out' = Append(out, Line(tag, Task1.val.to))
  BY DEF FollowSeen, FollowBinary, Mark, Emit
<1>2. /\ HasTask /\ Task1.do = "printer" /\ Task1.val.to[1] = a
      /\ ReplaceBy(<<>>)
      /\ UNCHANGED <<program, files>>
  BY DEF FollowSeen, FollowBinary, Follows
<1> DEFINE x == Line(tag, Task1.val.to)
<1>3. x.tag = tag /\ x.at[1] = a /\ out' = Append(out, x)
  BY <1>1, <1>2 DEF Line
<1> HIDE DEF x
<1>4. Items' = Items \cup {x} /\ Followed' \subseteq Followed
  BY <1>2, <1>3, AppendItem, RemarkFollowsNothing DEF TypeOK
<1>5. \A u : Holds(frames, u) /\ u # Task1 => Holds(frames', u)
  <2>1. PICK S : S = Elem
    OBVIOUS
  <2>2. FramesOn(S)
    BY <2>1, Zenon DEF Sound
  <2> QED BY <1>2, <2>2, NothingLeft
<1>6. tag = "<BINARYDUMP>" => Begun(a)'
  <2> SUFFICES ASSUME tag = "<BINARYDUMP>" PROVE Begun(a)'
    OBVIOUS
  <2>1. a \in FilesOf(Area)
    <3>1. MAX_SIZE_PP # 0 /\ ~(len[a] <= MAX_SIZE_PP) /\ MAX_SIZE_PP \in Nat /\ len[a] \in Nat
      BY <1>1, LimitAssumption, SizeAssumption DEF Pretty, TypeOK
    <3> QED BY <3>1 DEF FilesOf
  <2>2. a \in files
    BY <1>2, <2>1 DEF FilesInv, HasTask
  <2> QED BY <1>2, <1>3, <1>4, <2>2 DEF Begun, Mentioned
<1>7. /\ Items \subseteq Items' /\ dict \subseteq dict' /\ <<a, 1>> \in dict'
      /\ \A b \in Area : <<b, 1>> \in dict' =>
           <<b, 1>> \in dict \/ (b = a /\ tag = "<BINARYDUMP>")
  BY <1>1, <1>4 DEF Seen
<1> QED BY <1>2, <1>4, <1>5, <1>6, <1>7, TaskDone

\* The task at the top is done without adding anything to follow.
LEMMA DropSilent ==
  ASSUME TypeOK, Leads, Marked, NEW t, UNCHANGED <<program, dict, files>>,
         \/ out' = out
         \/ \E x : out' = Append(out, x) /\ x.tag \notin {"struct", "pointer"},
         t.do = "printer" => t.val.by # "ptr",
         t.do = "format" => kind[t.at[1]] # "struct",
         \A u : Holds(frames, u) /\ u # t => Holds(frames', u)
  PROVE  Leads' /\ Marked'
<1>1. Items \subseteq Items' /\ Followed' \subseteq Followed
  <2>1. CASE out' = out
    <3>1. Items' = Items
      BY <2>1 DEF Items
    <3>2. Followed' = Followed
      BY <3>1 DEF Followed, Mentioned, Exists, program
    <3> QED BY <3>1, <3>2
  <2>2. ASSUME NEW x, out' = Append(out, x), x.tag \notin {"struct", "pointer"}
        PROVE  Items \subseteq Items' /\ Followed' \subseteq Followed
    BY <2>2, AppendItem, RemarkFollowsNothing DEF TypeOK
  <2> QED BY <2>1, <2>2
<1> QED BY <1>1, TaskDone

\* gdb begins with a variable, or comes to the end of a generator.
LEMMA KeepsTasks ==
  ASSUME TypeOK, Sound, PrintVariable \/ EndOfGenerator
  PROVE  /\ \A u : Holds(frames, u) => Holds(frames', u)
         /\ UNCHANGED <<program, dict, files>>
         /\ \/ out' = out
            \/ \E x : out' = Append(out, x) /\ x.tag \notin {"struct", "pointer"} \cup Remark
<1>1. \A u : Holds(frames, u) => Holds(frames', u)
  <2>1. PICK T : T = TasksOn(Elem)
    OBVIOUS
  <2>2. frames \in Seq(Seq(T))
    BY <2>1, Zenon DEF Sound, FramesOn
  <2>3. CASE PrintVariable
    BY <2>3, PrintFacts DEF Holds
  <2>4. CASE EndOfGenerator
    BY <2>2, <2>4, HoldsPopped DEF EndOfGenerator, Top
  <2> QED BY <2>3, <2>4
<1>2. CASE PrintVariable
  <2> DEFINE x == Line("variable", <<var, 1>>)
  <2>1. x.tag \notin {"struct", "pointer"} \cup Remark
    BY DEF Line, Remark
  <2>2. UNCHANGED <<program, dict, files>> /\ (out' = out \/ out' = Append(out, x))
    BY <1>2, PrintFacts
  <2> HIDE DEF x
  <2> QED BY <1>1, <2>1, <2>2
<1>3. CASE EndOfGenerator
  BY <1>1, <1>3 DEF EndOfGenerator
<1> QED BY <1>2, <1>3

\* Something goes wrong and the dump says so.
Failing ==
  \/ VariableInvalid
  \/ TargetInvalid
  \/ GdbDies
  \/ \E a \in Area : FollowInvalid(a)
  \/ ElementInvalid
  \/ MemberInvalid
  \/ FollowOpaque

LEMMA FailingDisturbs ==
  ASSUME TypeOK, Failing
  PROVE  Disturbed'
<1>1. ASSUME NEW x, x \in Items', x.tag \in {"<INVALID>", "error", "crash"}
      PROVE  Disturbed'
  BY <1>1 DEF Disturbed, Tags
<1>2. \A x : out' = Append(out, x) => x \in Items'
  BY AppendItem DEF TypeOK
<1>3. \A l : Line("<INVALID>", l).tag = "<INVALID>"
  BY DEF Line
<1>4. CASE TargetInvalid
  BY <1>1, <1>3, <1>4, TargetInvalidItems
<1>5. CASE \/ VariableInvalid
           \/ ElementInvalid
           \/ \E a \in Area : FollowInvalid(a)
  <2>1. PICK l : out' = Append(out, Line("<INVALID>", l))
    BY <1>5 DEF VariableInvalid, ElementInvalid, FollowInvalid, Emit
  <2> QED BY <1>1, <1>2, <1>3, <2>1
<1>6. CASE GdbDies \/ MemberInvalid \/ FollowOpaque
  <2>1. PICK tag \in {"crash", "error"} : out' = Append(out, [tag |-> tag])
    BY <1>6 DEF GdbDies, MemberInvalid, FollowOpaque
  <2>2. [tag |-> tag] \in Items' /\ [tag |-> tag].tag = tag
    BY <1>2, <2>1
  <2> QED BY <1>1, <2>2
<1> QED BY <1>4, <1>5, <1>6 DEF Failing

LEMMA DropNext ==
  ASSUME TypeOK, DropInv, [Next]_vars
  PROVE  DropInv'
<1> USE DEF DropInv
<1>1. Sound' /\ FilesInv'
  BY SoundNext, FilesNext
<1>2. CASE NewDump
  <2>1. Items' = {} /\ dict' = {}
    BY <1>2 DEF NewDump, Items
  <2>2. Followed' = {}
    BY <2>1 DEF Followed, Mentioned
  <2> QED BY <1>1, <2>1, <2>2 DEF Leads, Marked, Seen
<1>3. CASE Disturbed /\ ~NewDump
  BY <1>1, <1>3, ItemsGrow DEF Disturbed, Tags
<1> SUFFICES ASSUME Leads, Marked, ~NewDump
             PROVE  Disturbed' \/ (Leads' /\ Marked')
  BY <1>1, <1>2, <1>3
<1>5. CASE Failing
  BY <1>5, FailingDisturbs
<1>6. CASE PrintVariable \/ EndOfGenerator
  <2> DEFINE t == Visit(Plain)
  <2>1. t.do = "printer" /\ t.val.by # "ptr"
    BY DEF Visit, Plain
  <2> HIDE DEF t
  <2> QED BY <1>6, <2>1, KeepsTasks, DropSilent
<1>7. CASE FormatPointer \/ ShowPlain \/ EndOfLoop
  <2>1. /\ HasTask /\ ReplaceBy(<<>>) /\ UNCHANGED <<program, dict, out, files>>
        /\ Task1.do = "printer" => Task1.val.by # "ptr"
        /\ Task1.do = "format" => kind[Task1.at[1]] # "struct"
    BY <1>7 DEF FormatPointer, ShowPlain, EndOfLoop
  <2>2. PICK S : S = Elem
    OBVIOUS
  <2>3. FramesOn(S)
    BY <2>2, Zenon DEF Sound
  <2> QED BY <2>1, <2>3, NothingLeft, DropSilent
<1>8. CASE FormatStruct
  BY <1>8, DropFormat
<1>9. ASSUME NEW a \in Area,
             FollowSeen(a) \/ FollowArray(a) \/ FollowBinary(a) \/ FollowSingle(a)
      PROVE  Leads' /\ Marked'
  BY <1>9, DropArray, DropSingle, DropRemark
<1>10. CASE Ended \/ UNCHANGED vars
  <2>1. UNCHANGED vars
    BY <1>10 DEF Ended
  <2>2. Items' = Items
    BY <2>1 DEF Items, vars
  <2>3. Followed' = Followed
    BY <2>1, <2>2 DEF Followed, Mentioned, Exists, vars
  <2>4. \A l : Members(l)' = Members(l)
    BY <2>1 DEF Members, Exists, vars
  <2>5. Leads'
    BY <2>1, <2>3, <2>4 DEF Leads, Seen, vars
  <2>6. Marked'
    BY <2>1, <2>2 DEF Marked, Seen, Begun, StructShown, Shows, Mentioned, vars
  <2> QED BY <2>5, <2>6
<1> QED BY <1>5, <1>6, <1>7, <1>8, <1>9, <1>10 DEF Next, Failing, PrintVariable

----------------------------------------------------------------------------
(* <PRINTED> is true.                                                      *)

\* What the generators hold after a step comes from before it or is new.
LEMMA OnlyReplaced ==
  ASSUME NEW T, NEW fs, IsGenerators(T, fs), NEW ts \in Seq(T), NEW t,
         Holds(Replaced(fs, ts), t)
  PROVE  Holds(fs, t) \/ \E j \in DOMAIN ts : ts[j] = t
<1> DEFINE r == Replaced(fs, ts)
<1>1. /\ r \in Seq(Seq(T)) /\ Len(r) = Len(fs)
      /\ r[1] = ts \o Tail(fs[1])
      /\ \A i \in 2..Len(fs) : r[i] = fs[i]
  BY ReplacedFrames DEF IsGenerators
<1>2. Holds(r, t)
  OBVIOUS
<1> HIDE DEF r
<1>3. DOMAIN r = 1..Len(r)
  BY <1>1, LenProperties, Zenon
<1>4. DOMAIN fs = 1..Len(fs) /\ Len(fs) \in Nat /\ Len(fs) >= 1
  BY DEF IsGenerators
<1>5. fs[1] \in Seq(T) /\ fs[1] # <<>>
  BY DEF IsGenerators
<1>6. PICK i \in 1..Len(fs) : \E j \in DOMAIN r[i] : r[i][j] = t
  BY <1>1, <1>2, <1>3 DEF Holds
<1>7. CASE i = 1
  <2>1. PICK top \in Seq(T) : top = fs[1] /\ top # <<>>
    BY <1>5
  <2>2. PICK j \in DOMAIN (ts \o Tail(top)) : (ts \o Tail(top))[j] = t
    BY <1>1, <1>6, <1>7, <2>1
  <2>3. \/ j \in DOMAIN ts /\ (ts \o Tail(top))[j] = ts[j]
        \/ /\ j - Len(ts) + 1 \in DOMAIN top
           /\ (ts \o Tail(top))[j] = top[j - Len(ts) + 1]
    BY <2>1, JoinedTasks
  <2>4. (\E k \in DOMAIN ts : ts[k] = t) \/ (\E k \in DOMAIN top : top[k] = t)
    BY <2>2, <2>3, Zenon
  <2>5. 1 \in DOMAIN fs
    BY <1>4
  <2> QED BY <2>1, <2>4, <2>5, Zenon DEF Holds
<1>8. CASE i # 1
  <2>1. i \in DOMAIN fs /\ r[i] = fs[i]
    BY <1>1, <1>4, <1>8
  <2> QED BY <1>6, <2>1, Zenon DEF Holds
<1> QED BY <1>7, <1>8

LEMMA OnlyPushed ==
  ASSUME NEW T, NEW fs, IsGenerators(T, fs), NEW ts \in Seq(T), NEW t,
         Holds(Pushed(fs, ts), t)
  PROVE  Holds(fs, t) \/ \E j \in DOMAIN ts : ts[j] = t
<1> DEFINE r == Pushed(fs, ts)
<1>1. /\ r \in Seq(Seq(T)) /\ Len(r) = Len(fs) + 1
      /\ r[1] = ts /\ r[2] = Tail(fs[1])
      /\ \A i \in 2..Len(fs) : r[i + 1] = fs[i]
  BY PushedFrames DEF IsGenerators
<1>2. Holds(r, t)
  OBVIOUS
<1> HIDE DEF r
<1>3. DOMAIN r = 1..Len(r)
  BY <1>1, LenProperties, Zenon
<1>4. DOMAIN fs = 1..Len(fs) /\ Len(fs) \in Nat /\ Len(fs) >= 1
  BY DEF IsGenerators
<1>5. fs[1] \in Seq(T) /\ fs[1] # <<>>
  BY DEF IsGenerators
<1>6. PICK i \in 1..(Len(fs) + 1) : \E j \in DOMAIN r[i] : r[i][j] = t
  BY <1>1, <1>2, <1>3 DEF Holds
<1>7. CASE i = 1
  BY <1>1, <1>6, <1>7
<1>8. CASE i = 2
  <2>1. PICK top \in Seq(T) : top = fs[1] /\ top # <<>>
    BY <1>5
  <2>2. PICK j \in DOMAIN Tail(top) : Tail(top)[j] = t
    BY <1>1, <1>6, <1>8, <2>1
  <2>3. j + 1 \in DOMAIN top /\ top[j + 1] = t
    BY <2>1, <2>2
  <2>4. 1 \in DOMAIN fs
    BY <1>4
  <2> QED BY <2>1, <2>3, <2>4, Zenon DEF Holds
<1>9. CASE i \notin {1, 2}
  <2>1. i - 1 \in DOMAIN fs /\ i - 1 \in 2..Len(fs) /\ (i - 1) + 1 = i
    BY <1>4, <1>9
  <2>2. r[i] = fs[i - 1]
    BY <1>1, <2>1
  <2> QED BY <1>6, <2>1, <2>2, Zenon DEF Holds
<1> QED BY <1>7, <1>8, <1>9

LEMMA OnlyPopped ==
  ASSUME NEW T, NEW fs \in Seq(Seq(T)), fs # <<>>, NEW t, Holds(Tail(fs), t)
  PROVE  Holds(fs, t)
<1>1. /\ DOMAIN Tail(fs) = 1..(Len(fs) - 1) /\ DOMAIN fs = 1..Len(fs)
      /\ Len(fs) \in Nat
      /\ \A i \in 1..(Len(fs) - 1) : Tail(fs)[i] = fs[i + 1]
  OBVIOUS
<1>2. PICK i \in 1..(Len(fs) - 1) : \E j \in DOMAIN Tail(fs)[i] : Tail(fs)[i][j] = t
  BY <1>1 DEF Holds
<1>3. i + 1 \in DOMAIN fs /\ Tail(fs)[i] = fs[i + 1]
  BY <1>1
<1> QED BY <1>2, <1>3, Zenon DEF Holds

LEMMA OnlyDropped ==
  ASSUME NEW T, NEW fs, IsGenerators(T, fs), NEW n \in DOMAIN Head(fs), NEW t,
         Holds(Dropped(fs, n), t)
  PROVE  Holds(fs, t)
<1> DEFINE r == Dropped(fs, n)
<1>1. /\ r \in Seq(Seq(T)) /\ Len(r) = Len(fs)
      /\ Len(r[1]) = Len(fs[1]) - n
      /\ \A j \in 1..(Len(fs[1]) - n) : r[1][j] = fs[1][j + n]
      /\ \A i \in 2..Len(fs) : r[i] = fs[i]
  BY DroppedFrames DEF IsGenerators
<1>2. Holds(r, t)
  OBVIOUS
<1> HIDE DEF r
<1>3. DOMAIN r = 1..Len(r) /\ \A i \in DOMAIN r : r[i] \in Seq(T)
  BY <1>1
<1>4. /\ DOMAIN fs = 1..Len(fs) /\ Len(fs) \in Nat /\ Len(fs) >= 1
      /\ fs[1] \in Seq(T) /\ Head(fs) = fs[1]
  BY DEF IsGenerators
<1>5. PICK i \in 1..Len(fs) : \E j \in DOMAIN r[i] : r[i][j] = t
  BY <1>1, <1>2, <1>3 DEF Holds
<1>6. CASE i = 1
  <2>1. DOMAIN r[1] = 1..(Len(fs[1]) - n)
    BY <1>1, <1>3, <1>4
  <2>2. PICK j \in 1..(Len(fs[1]) - n) : r[1][j] = t
    BY <1>5, <1>6, <2>1
  <2>3. j + n \in 1..Len(fs[1]) /\ DOMAIN fs[1] = 1..Len(fs[1])
    BY <1>4
  <2>4. fs[1][j + n] = t /\ 1 \in DOMAIN fs
    BY <1>1, <1>4, <2>2
  <2> QED BY <2>3, <2>4, Zenon DEF Holds
<1>7. CASE i # 1
  <2>1. i \in DOMAIN fs /\ r[i] = fs[i]
    BY <1>1, <1>4, <1>7
  <2> QED BY <1>5, <2>1, Zenon DEF Holds
<1> QED BY <1>6, <1>7

\* What gdb formats is an element that it formats by itself, or part of an area
\* that address_dict knows.
Known(l) == Alone(l) \/ Seen(l[1]) \/ l[1] \in Var

FormatsKnown == \A l \in Loc : Holds(frames, Format(l)) => Known(l)

\* An area that is dumped, or of which gdb has still to format the rest.
Complete(a) ==
  \/ Dumped(a)
  \/ /\ kind[a] = "struct"
     /\ \A i \in 1..len[a] : StructShown(<<a, i>>) \/ Holds(frames, Format(<<a, i>>))

Whole == \A a \in Area : Seen(a) /\ ~CutShort(a) => Complete(a)

\* <PRINTED> is about areas in address_dict.
Remembered == \A a \in Area : Mentioned("<PRINTED>", a) => Seen(a)

PrintedInv ==
  Sound /\ FilesInv /\ FormatsKnown /\ Remembered /\ (Disturbed \/ Whole)

LEMMA AloneKept ==
  ASSUME UNCHANGED program
  PROVE  /\ \A l : Alone(l)' <=> Alone(l)
         /\ \A a : CutShort(a)' <=> CutShort(a)
<1>1. Elem' = Elem /\ link' = link /\ kind' = kind /\ len' = len
  BY DEF program, Elem, Exists
<1>2. \A l : Alone(l)' <=> Alone(l)
  BY <1>1 DEF Alone
<1> QED BY <1>1, <1>2 DEF CutShort

\* printer() leaves to gdb what references lead to, and nothing else.
LEMMA MembersAlone ==
  ASSUME Sound, NEW l \in Elem, NEW k \in Loc, NEW j \in DOMAIN TasksFor(Members(l)),
         TasksFor(Members(l))[j] = Format(k)
  PROVE  Alone(k)
<1>1. Members(l) = link[l]
  BY DEF Elem, Members
<1>2. DOMAIN TasksFor(Members(l)) = DOMAIN Members(l)
      /\ TasksFor(Members(l))[j] = IF Members(l)[j].by = "ref"
                                     THEN Format(Members(l)[j].to)
                                     ELSE Visit(Members(l)[j])
  BY DEF TasksFor
<1>3. link[l][j].by = "ref" /\ Format(link[l][j].to) = Format(k)
  BY <1>1, <1>2 DEF Format, Visit
<1>4. link[l][j].to = k
  BY <1>3 DEF Format
<1> QED BY <1>1, <1>2, <1>3, <1>4 DEF Alone

LEMMA LoopNoFormat ==
  ASSUME NEW l \in Elem, NEW ts \in Seq(TasksOn(Elem)),
         NEW loop, loop = ts \o <<Leave(l)>>,
         NEW j \in DOMAIN loop, NEW k, loop[j] = Format(k)
  PROVE  j \in DOMAIN ts /\ ts[j] = Format(k)
<1>1. PICK S : S = Elem
  OBVIOUS
<1>2. ts \in Seq(TasksOn(S)) /\ l \in S
  BY <1>1, Zenon
<1>3. (j \in DOMAIN ts /\ loop[j] = ts[j]) \/ loop[j] = Leave(l)
  BY <1>2, LoopTasks
<1>4. Leave(l) # Format(k)
  BY DEF Leave, Format
<1> QED BY <1>3, <1>4

\* The tasks that replace a pointer into an area that is entered now.
LEMMA ArrayKnown ==
  ASSUME TypeOK, Sound, NEW a \in Area, NEW l0 \in Elem, l0[1] = a, NEW k \in Loc,
         NEW j \in DOMAIN ArrayTasks(l0), ArrayTasks(l0)[j] = Format(k)
  PROVE  Alone(k) \/ k[1] = a
<1>1. len[a] \in Nat /\ \A i \in 1..len[a] : <<a, i>> \in Elem
  <2>1. len[a] \in 1..MaxElems /\ MaxElems \in Nat
    BY SizeAssumption DEF TypeOK
  <2> QED BY <2>1, ElementsOfArea
<1>2. CASE kind[a] = "struct"
  <2>1. j \in 1..len[a] /\ ArrayTasks(l0)[j] = Format(<<a, j>>)
    BY <1>2 DEF ArrayTasks
  <2>2. k = <<a, j>>
    BY <2>1 DEF Format
  <2> QED BY <2>2
<1>3. CASE kind[a] # "struct"
  <2> DEFINE vs == [i \in 1..len[a] |-> link[<<a, i>>][1]]
             ts == PointerTasks(a)
             loop == ArrayTasks(l0)
  <2>1. loop = ts \o <<Leave(l0)>>
    BY <1>3 DEF ArrayTasks, PointerTasks
  <2>2. ts \in Seq(TasksOn(Elem)) /\ DOMAIN ts = 1..len[a]
    BY PointerTasksFacts, Zenon DEF Sound
  <2> HIDE DEF ts, loop
  <2>3. loop[j] = Format(k) /\ j \in DOMAIN loop
    BY DEF loop
  <2>4. j \in 1..len[a] /\ ts[j] = Format(k)
    <3>1. ts \in Seq(TasksOn(Elem)) /\ l0 \in Elem
      BY <2>2
    <3> HIDE DEF vs
    <3>2. j \in DOMAIN ts /\ ts[j] = Format(k)
      BY <2>1, <2>3, <3>1, LoopNoFormat
    <3> QED BY <2>2, <3>2
  <2>5. /\ DOMAIN TasksFor(vs) = 1..len[a]
        /\ TasksFor(vs)[j] = IF vs[j].by = "ref" THEN Format(vs[j].to) ELSE Visit(vs[j])
    BY <2>4 DEF TasksFor
  <2>6. vs[j] = link[<<a, j>>][1] /\ <<a, j>> \in Elem
    BY <1>1, <2>4
  <2>7. TasksFor(vs)[j] = Format(k)
    BY <2>4 DEF ts, PointerTasks
  <2> HIDE DEF vs
  <2>8. vs[j].by = "ref" /\ Format(vs[j].to) = Format(k)
    BY <2>5, <2>7 DEF Format, Visit
  <2>9. vs[j].to = k
    BY <2>8 DEF Format
  <2>10. 1 \in DOMAIN link[<<a, j>>]
    BY <2>6, SizeAssumption DEF Sound, Field
  <2> QED BY <2>6, <2>8, <2>9, <2>10 DEF Alone
<1> QED BY <1>2, <1>3

LEMMA SingleKnown ==
  ASSUME Sound, NEW l \in Elem, NEW k \in Loc, NEW j \in DOMAIN SingleTasks(l),
         SingleTasks(l)[j] = Format(k)
  PROVE  Alone(k) \/ k[1] = l[1]
<1>1. CASE kind[l[1]] = "struct"
  <2>1. SingleTasks(l) = <<Format(l)>>
    BY <1>1 DEF SingleTasks
  <2>2. Format(l) = Format(k)
    BY <2>1
  <2> QED BY <2>2 DEF Format
<1>2. CASE kind[l[1]] # "struct"
  <2> DEFINE ts == TasksFor(Members(l))
             loop == SingleTasks(l)
  <2>1. loop = ts \o <<Leave(l)>>
    BY <1>2 DEF SingleTasks
  <2>2. ts \in Seq(TasksOn(Elem))
    <3>1. PICK S : S = Elem
      OBVIOUS
    <3>2. LinksTo(S) /\ l \in Loc
      BY <3>1, Zenon DEF Sound, Elem
    <3>3. ts \in Seq(TasksOn(S))
      BY <3>2, MembersTasks
    <3> QED BY <3>1, <3>3
  <2> HIDE DEF ts, loop
  <2>3. loop[j] = Format(k) /\ j \in DOMAIN loop
    BY DEF loop
  <2>4. j \in DOMAIN ts /\ ts[j] = Format(k)
    BY <2>1, <2>2, <2>3, LoopNoFormat
  <2> QED BY <2>4, MembersAlone DEF ts
<1> QED BY <1>1, <1>2

\* What is formatted next stays known, as address_dict only grows.
LEMMA KnownStays ==
  ASSUME FormatsKnown, UNCHANGED program, dict \subseteq dict',
         \A l \in Loc : Holds(frames', Format(l)) =>
           Holds(frames, Format(l)) \/ Alone(l) \/ <<l[1], 1>> \in dict' \/ l[1] \in Var
  PROVE  FormatsKnown'
<1>1. \A l \in Loc : Known(l) => Known(l)'
  BY AloneKept DEF Known, Seen
<1>2. \A l \in Loc : Alone(l) \/ <<l[1], 1>> \in dict' \/ l[1] \in Var => Known(l)'
  BY AloneKept DEF Known, Seen
<1> QED BY <1>1, <1>2 DEF FormatsKnown

LEMMA KnownReplaced ==
  ASSUME Sound, FormatsKnown, HasTask, NEW ts \in Seq(TasksOn(Elem)), ReplaceBy(ts),
         UNCHANGED program, dict \subseteq dict',
         \A l \in Loc, j \in DOMAIN ts : ts[j] = Format(l) =>
           Alone(l) \/ <<l[1], 1>> \in dict'
  PROVE  FormatsKnown'
<1>1. PICK S : S = Elem
  OBVIOUS
<1>2. FramesOn(S) /\ ts \in Seq(TasksOn(S))
  BY <1>1, Zenon DEF Sound
<1>3. IsGenerators(TasksOn(S), frames) /\ frames' = Replaced(frames, ts)
  BY <1>2, TopFacts
<1>4. \A t : Holds(frames', t) => Holds(frames, t) \/ \E j \in DOMAIN ts : ts[j] = t
  BY <1>2, <1>3, OnlyReplaced
<1>5. \A l \in Loc : Holds(frames', Format(l)) =>
        Holds(frames, Format(l)) \/ Alone(l) \/ <<l[1], 1>> \in dict'
  BY <1>4
<1> QED BY <1>5, KnownStays

LEMMA FormatsNext ==
  ASSUME TypeOK, Sound, FilesInv, FormatsKnown, [Next]_vars
  PROVE  FormatsKnown'
<1>0. UNCHANGED program
  BY ProgramUnchanged
<1>1. \A l \in Loc : ~Holds(<<>>, Format(l))
  BY DEF Holds
<1>2. ASSUME frames' = <<>>
      PROVE  FormatsKnown'
  BY <1>1, <1>2 DEF FormatsKnown
<1>3. <<>> \in Seq(TasksOn(Elem)) /\ DOMAIN <<>> = {}
  OBVIOUS
<1>4. CASE NewDump
  <2>1. frames = <<>> /\ frames' = frames
    BY <1>4 DEF NewDump, FilesInv, Finished
  <2> QED BY <1>2, <2>1
<1>5. CASE GdbDies
  BY <1>2, <1>5 DEF GdbDies
<1>6. CASE PrintVariable
  <2>1. /\ var \in Var /\ dict' = dict /\ <<var, 1>> \in Elem
        /\ frames' = <<>> \/ \E l : Leading(var, l) /\ frames' = << <<Format(l)>> >>
    BY <1>6, PrintFacts
  <2>2. 1 \in DOMAIN link[<<var, 1>>] /\ <<var, 1>>[1] = var
    BY <2>1, SizeAssumption DEF Sound, Field
  <2>3. \A l : Leading(var, l) => Alone(l) \/ l[1] \in Var
    BY <2>1, <2>2 DEF Alone, Leading
  <2>4. \A t, u : Holds(<< <<t>> >>, u) => u = t
    BY DEF Holds
  <2>5. ASSUME NEW k \in Loc, Holds(frames', Format(k))
        PROVE  Alone(k) \/ k[1] \in Var
    <3>1. PICK l : Leading(var, l) /\ frames' = << <<Format(l)>> >>
      BY <1>1, <2>1, <2>5
    <3>2. Format(k) = Format(l)
      BY <2>4, <2>5, <3>1
    <3>3. k = l
      BY <3>2 DEF Format
    <3> QED BY <2>3, <3>1, <3>3
  <2> QED BY <1>0, <2>1, <2>5, KnownStays
<1>7. CASE FormatStruct
  <2> DEFINE ts == TasksFor(Members(Task1.at))
  <2>1. PICK S : S = Elem
    OBVIOUS
  <2>2. LinksTo(S) /\ FramesOn(S) /\ S \subseteq Loc
    BY <2>1, Zenon DEF Sound, Elem
  <2>3. /\ HasTask /\ Task1.do = "format" /\ dict \subseteq dict'
        /\ frames' = <<ts, Tail(Top)>> \o Tail(frames)
    BY <1>7 DEF FormatStruct
  <2>4. Task1.at \in S /\ IsGenerators(TasksOn(S), frames) /\ frames' = Pushed(frames, ts)
    BY <2>2, <2>3, TopFacts, TaskCases
  <2>5. ts \in Seq(TasksOn(S))
    BY <2>2, <2>4, MembersTasks
  <2>6. \A l \in Loc, j \in DOMAIN ts : ts[j] = Format(l) => Alone(l)
    BY <2>1, <2>4, MembersAlone
  <2> HIDE DEF ts
  <2>7. \A t : Holds(frames', t) => Holds(frames, t) \/ \E j \in DOMAIN ts : ts[j] = t
    BY <2>4, <2>5, OnlyPushed
  <2>8. \A l \in Loc : Holds(frames', Format(l)) => Holds(frames, Format(l)) \/ Alone(l)
    BY <2>6, <2>7
  <2> QED BY <1>0, <2>3, <2>8, KnownStays
<1>8. ASSUME NEW a \in Area, FollowArray(a)
      PROVE  FormatsKnown'
  <2> DEFINE l0 == Task1.val.to
  <2>1. /\ HasTask /\ Task1.do = "printer" /\ Task1.val.by = "ptr" /\ l0[1] = a
        /\ dict' = dict \cup {<<a, 1>>} /\ ReplaceBy(ArrayTasks(l0))
    BY <1>8 DEF FollowArray, Follows, Mark
  <2>2. PICK S : S = Elem
    OBVIOUS
  <2>3. LinksTo(S) /\ FramesOn(S) /\ Elem \subseteq S
    BY <2>2, Zenon DEF Sound
  <2>4. l0 \in S
    BY <2>1, <2>3, TopFacts, TaskCases
  <2>5. ArrayTasks(l0) \in Seq(TasksOn(S))
    BY <2>1, <2>3, <2>4, ArrayTasksFacts
  <2>6. \A l \in Loc, j \in DOMAIN ArrayTasks(l0) : ArrayTasks(l0)[j] = Format(l) =>
          Alone(l) \/ <<l[1], 1>> \in dict'
    BY <2>1, <2>2, <2>4, ArrayKnown
  <2> QED BY <1>0, <2>1, <2>2, <2>5, <2>6, KnownReplaced, Zenon
<1>9. ASSUME NEW a \in Area, FollowSingle(a)
      PROVE  FormatsKnown'
  <2> DEFINE l0 == Task1.val.to
  <2>1. /\ HasTask /\ Task1.do = "printer" /\ Task1.val.by = "ptr" /\ l0[1] = a
        /\ dict' = dict \cup {<<a, 1>>} /\ ReplaceBy(SingleTasks(l0))
    BY <1>9 DEF FollowSingle, Follows, Mark
  <2>2. PICK S : S = Elem
    OBVIOUS
  <2>3. LinksTo(S) /\ FramesOn(S) /\ S \subseteq Loc
    BY <2>2, Zenon DEF Sound, Elem
  <2>4. l0 \in S
    BY <2>1, <2>3, TopFacts, TaskCases
  <2>5. SingleTasks(l0) \in Seq(TasksOn(S))
    BY <2>3, <2>4, SingleTasksFacts
  <2>6. \A l \in Loc, j \in DOMAIN SingleTasks(l0) : SingleTasks(l0)[j] = Format(l) =>
          Alone(l) \/ <<l[1], 1>> \in dict'
    BY <2>1, <2>2, <2>4, SingleKnown
  <2> QED BY <1>0, <2>1, <2>2, <2>5, <2>6, KnownReplaced, Zenon
<1>10. CASE \/ FormatPointer
            \/ ShowPlain
            \/ EndOfLoop
            \/ \E a \in Area : FollowSeen(a) \/ FollowBinary(a) \/ FollowInvalid(a)
  <2>1. HasTask /\ ReplaceBy(<<>>) /\ dict \subseteq dict'
    BY <1>10 DEF FormatPointer, ShowPlain, EndOfLoop, FollowSeen, FollowBinary, FollowInvalid,
                 Follows, Mark
  <2> QED BY <1>0, <1>3, <2>1, KnownReplaced
<1>11. CASE EndOfGenerator \/ FollowOpaque \/ MemberInvalid
  <2>1. frames # <<>> /\ frames' = Tail(frames) /\ dict' = dict
    BY <1>11 DEF EndOfGenerator, FollowOpaque, MemberInvalid, HasTask
  <2>2. PICK T : T = TasksOn(Elem)
    OBVIOUS
  <2>3. frames \in Seq(Seq(T))
    BY <2>2, Zenon DEF Sound, FramesOn
  <2>4. \A t : Holds(frames', t) => Holds(frames, t)
    BY <2>1, <2>3, OnlyPopped
  <2> QED BY <1>0, <2>1, <2>4, KnownStays
<1>12. CASE VariableInvalid \/ TargetInvalid \/ Ended \/ UNCHANGED vars
  <2>1. frames' = frames /\ dict' = dict
    BY <1>12 DEF VariableInvalid, TargetInvalid, Ended, vars
  <2> QED BY <1>0, <2>1, KnownStays
<1>13. CASE ElementInvalid
  <2>1. HasTask /\ dict' = dict
        /\ \E n \in DOMAIN Head(frames) : frames' = Dropped(frames, n)
    BY <1>13 DEF ElementInvalid, Dropped, Top
  <2>2. PICK T : T = TasksOn(Elem)
    OBVIOUS
  <2>3. IsGenerators(T, frames)
    BY <2>1, <2>2, Zenon DEF Sound, FramesOn, IsGenerators, HasTask, Top
  <2>4. \A t : Holds(frames', t) => Holds(frames, t)
    BY <2>1, <2>3, OnlyDropped
  <2> QED BY <1>0, <2>1, <2>4, KnownStays
<1> QED BY <1>4, <1>5, <1>6, <1>7, <1>8, <1>9, <1>10, <1>11, <1>12, <1>13
        DEF Next, PrintVariable

\* The remark is made of areas that address_dict knows, and it forgets nothing
\* while a dump is made.
LEMMA RememberedNext ==
  ASSUME TypeOK, Remembered, [Next]_vars
  PROVE  Remembered'
<1>1. CASE NewDump
  <2>1. Items' = {}
    BY <1>1 DEF NewDump, Items
  <2> QED BY <2>1 DEF Remembered, Mentioned
<1>2. ASSUME NEW a \in Area, FollowSeen(a)
      PROVE  Remembered'
  <2> DEFINE x == Line("<PRINTED>", Task1.val.to)
  <2>1. x.at[1] = a /\ out' = Append(out, x) /\ dict' = dict /\ Seen(a)
    BY <1>2 DEF FollowSeen, Follows, Emit, Line
  <2> HIDE DEF x
  <2>2. Items' = Items \cup {x}
    BY <2>1, AppendItem DEF TypeOK
  <2> QED BY <2>1, <2>2 DEF Remembered, Mentioned, Seen
<1>3. CASE ~NewDump /\ ~ \E a \in Area : FollowSeen(a)
  <2>1. dict \subseteq dict'
    BY <1>3 DEF Next, PrintStruct, PrintPointer, VariableInvalid, TargetInvalid,
         EndOfGenerator, FormatPointer, FormatStruct, GdbDies, ShowPlain, EndOfLoop,
         FollowArray, FollowBinary, FollowSingle, FollowInvalid, ElementInvalid,
         MemberInvalid, FollowOpaque, Ended, Mark, vars
  <2>2. \/ out' = out
        \/ \E tag, l : out' = Append(out, Line(tag, l)) /\ tag # "<PRINTED>"
        \/ \E tag : out' = Append(out, [tag |-> tag]) /\ tag # "<PRINTED>"
        \/ TargetInvalid
    <3>1. CASE \/ PrintStruct \/ EndOfGenerator \/ FormatPointer \/ ShowPlain
              \/ EndOfLoop \/ Ended \/ UNCHANGED vars
      BY <3>1 DEF PrintStruct, EndOfGenerator, FormatPointer, ShowPlain, EndOfLoop,
                  Ended, vars
    <3>2. CASE PrintPointer \/ VariableInvalid
      <4>1. \/ out' = Append(out, Line("variable", <<var, 1>>))
            \/ out' = Append(out, Line("<INVALID>", <<var, 1>>))
        BY <3>2, Zenon DEF PrintPointer, VariableInvalid
      <4>2. "variable" # "<PRINTED>" /\ "<INVALID>" # "<PRINTED>"
        OBVIOUS
      <4> QED BY <4>1, <4>2, Zenon
    <3>3. CASE FormatStruct
      BY <3>3 DEF FormatStruct, Emit
    <3>4. ASSUME NEW a \in Area,
                 FollowArray(a) \/ FollowSingle(a) \/ FollowBinary(a) \/ FollowInvalid(a)
          PROVE  \E tag, l : out' = Append(out, Line(tag, l)) /\ tag # "<PRINTED>"
      BY <3>4 DEF FollowArray, FollowSingle, FollowBinary, FollowInvalid, Emit
    <3>5. CASE FollowOpaque \/ MemberInvalid \/ GdbDies
      <4>1. out' = Append(out, [tag |-> "error"]) \/ out' = Append(out, [tag |-> "crash"])
        BY <3>5, Zenon DEF FollowOpaque, MemberInvalid, GdbDies
      <4>2. "error" # "<PRINTED>" /\ "crash" # "<PRINTED>"
        OBVIOUS
      <4> QED BY <4>1, <4>2, Zenon
    <3>6. CASE ElementInvalid
      <4>1. PICK n \in DOMAIN Top : out' = Append(out, Line("<INVALID>", Top[n].at))
        BY <3>6, Zenon DEF ElementInvalid, Emit
      <4>2. "<INVALID>" # "<PRINTED>"
        OBVIOUS
      <4> QED BY <4>1, <4>2, Zenon
    <3> QED BY <1>3, <3>1, <3>2, <3>3, <3>4, <3>5, <3>6 DEF Next
  <2>3. \A y \in Items' : y.tag = "<PRINTED>" => y \in Items
    <3>1. CASE out' = out
      BY <3>1 DEF Items
    <3>2. ASSUME NEW x, out' = Append(out, x), x.tag # "<PRINTED>"
          PROVE  \A y \in Items' : y.tag = "<PRINTED>" => y \in Items
      <4>1. Items' = Items \cup {x}
        BY <3>2, AppendItem DEF TypeOK
      <4> QED BY <3>2, <4>1
    <3>3. \A tag, l : Line(tag, l).tag = tag
      BY DEF Line
    <3>4. \A tag : [tag |-> tag].tag = tag
      OBVIOUS
    <3>5. CASE TargetInvalid
      BY <3>3, <3>5, TargetInvalidItems
    <3> QED BY <2>2, <3>1, <3>2, <3>3, <3>4, <3>5
  <2> QED BY <2>1, <2>3 DEF Remembered, Mentioned, Seen
<1> QED BY <1>1, <1>2, <1>3

\* One step of the generators: a task is done, and the areas that are entered in
\* address_dict are complete.
LEMMA WholeDone ==
  ASSUME Whole, NEW t, Items \subseteq Items', UNCHANGED <<program, files>>,
         \A u : Holds(frames, u) /\ u # t => Holds(frames', u),
         t.do = "format" /\ kind[t.at[1]] = "struct" =>
           Line("struct", t.at) \in Items',
         \A a \in Area : <<a, 1>> \in dict' /\ ~CutShort(a) =>
           \/ <<a, 1>> \in dict
           \/ Dumped(a)'
           \/ /\ kind[a] = "struct"
              /\ \A i \in 1..len[a] : Holds(frames', Format(<<a, i>>))
  PROVE  Whole'
<1>1. \A a : Dumped(a) => Dumped(a)'
  BY DEF Dumped, StructShown, Shows, Mentioned, program
<1>2. \A l : StructShown(l) => StructShown(l)'
  BY DEF StructShown, Shows
<1>3. ASSUME NEW a \in Area, <<a, 1>> \in dict', ~CutShort(a)
      PROVE  Complete(a)'
  <2>1. CASE <<a, 1>> \in dict /\ ~Dumped(a)
    <3>1. /\ kind[a] = "struct"
          /\ \A i \in 1..len[a] : StructShown(<<a, i>>) \/ Holds(frames, Format(<<a, i>>))
      BY <1>3, <2>1 DEF Whole, Seen, Complete
    <3>2. ASSUME NEW i \in 1..len[a]
          PROVE  StructShown(<<a, i>>)' \/ Holds(frames', Format(<<a, i>>))
      <4>1. CASE Format(<<a, i>>) = t
        <5>1. t.do = "format" /\ t.at = <<a, i>> /\ t.at[1] = a
          BY <4>1 DEF Format
        <5> QED BY <3>1, <5>1 DEF StructShown, Shows
      <4>2. CASE Format(<<a, i>>) # t
        BY <1>2, <3>1, <4>2
      <4> QED BY <4>1, <4>2
    <3> QED BY <3>1, <3>2 DEF Complete, program
  <2>2. CASE Dumped(a)
    BY <1>1, <2>2 DEF Complete
  <2>3. CASE <<a, 1>> \notin dict
    BY <1>3, <2>3 DEF Complete, program
  <2> QED BY <2>1, <2>2, <2>3
<1> QED BY <1>3, AloneKept DEF Whole, Seen

LEMMA WholeFormat ==
  ASSUME TypeOK, Sound, FormatsKnown, Whole, FormatStruct
  PROVE  Whole'
<1> DEFINE l == Task1.at
           ts == TasksFor(Members(l))
<1>1. PICK S : S = Elem
  OBVIOUS
<1>2. LinksTo(S) /\ FramesOn(S) /\ S \subseteq Loc
  BY <1>1, Zenon DEF Sound, Elem
<1>3. /\ HasTask /\ Task1.do = "format" /\ kind[l[1]] = "struct"
      /\ dict' = dict \cup {l} /\ out' = Append(out, Line("struct", l))
      /\ frames' = <<ts, Tail(Top)>> \o Tail(frames)
      /\ UNCHANGED <<program, files>>
  BY DEF FormatStruct, Emit
<1>4. /\ l \in S /\ IsGenerators(TasksOn(S), frames) /\ frames' = Pushed(frames, ts)
      /\ Task1 = Head(Head(frames)) /\ Holds(frames, Task1) /\ Task1 \in TasksOn(S)
  BY <1>2, <1>3, TopFacts, TaskCases DEF Task1, Top
<1>5. ts \in Seq(TasksOn(S))
  BY <1>2, <1>4, MembersTasks
<1>6. \A u : Holds(frames, u) /\ u # Task1 => Holds(frames', u)
  <2> HIDE DEF ts
  <2> QED BY <1>4, <1>5, HoldsPushed
<1>7. Items' = Items \cup {Line("struct", l)}
  BY <1>3, AppendItem DEF TypeOK
<1>8. ASSUME NEW a \in Area, <<a, 1>> \in dict', ~CutShort(a), <<a, 1>> \notin dict
      PROVE  Dumped(a)'
  <2>1. l = <<a, 1>> /\ l[1] = a
    BY <1>3, <1>8
  <2>2. Holds(frames, Format(l))
    <3>1. Task1 = Format(l)
      BY <1>3, <1>4 DEF TasksOn, Format
    <3> QED BY <1>4, <3>1
  <2>3. Known(l)
    BY <1>2, <1>4, <2>2 DEF FormatsKnown
  <2>4. Alone(<<a, 1>>)
    BY <1>8, <2>1, <2>3, AreaAssumption DEF Known, Seen, Var
  <2>5. len[a] = 1
    <3>1. len[a] \in Nat /\ len[a] >= 1 /\ ~(len[a] > 1)
      BY <1>3, <1>8, <2>1, <2>4, SizeAssumption DEF CutShort, TypeOK
    <3> QED BY <3>1
  <2>6. len' = len /\ kind' = kind /\ StructShown(<<a, 1>>)'
    BY <1>3, <1>7, <2>1 DEF StructShown, Shows, program
  <2>7. ASSUME NEW i \in 1..len[a]
        PROVE  StructShown(<<a, i>>)'
    <3>1. i = 1
      BY <2>5
    <3> QED BY <2>6, <3>1
  <2>8. kind[a] = "struct"
    BY <1>3, <2>1
  <2> QED BY <2>6, <2>7, <2>8 DEF Dumped
<1>9. Line("struct", l) \in Items' /\ Items \subseteq Items'
  BY <1>7
<1> QED BY <1>3, <1>6, <1>8, <1>9, WholeDone

LEMMA WholeArray ==
  ASSUME TypeOK, Sound, Whole, NEW a \in Area, FollowArray(a)
  PROVE  Whole'
<1> DEFINE l0 == Task1.val.to
           ts == ArrayTasks(l0)
           x == Line("pointer", Task1.val.to)
<1>1. PICK S : S = Elem
  OBVIOUS
<1>2. LinksTo(S) /\ FramesOn(S) /\ Elem \subseteq S
  BY <1>1, Zenon DEF Sound, Elem
<1>3. /\ HasTask /\ Task1.do = "printer" /\ Task1.val.by = "ptr" /\ l0[1] = a
      /\ dict' = dict \cup {<<a, 1>>} /\ out' = Append(out, x)
      /\ ReplaceBy(ts)
      /\ UNCHANGED <<program, files>>
  BY DEF FollowArray, Follows, Mark, Emit
<1>4. x.tag = "pointer" /\ x.at[1] = a
  BY <1>3 DEF Line
<1>11. l0 \in S
  BY <1>2, <1>3, TopFacts, TaskCases
<1> HIDE DEF x
<1>5. /\ ts \in Seq(TasksOn(S))
      /\ \A i \in 1..len[a] :
           i \in DOMAIN ts /\ (kind[a] = "struct" => ts[i] = Format(<<a, i>>))
  <2> HIDE DEF l0
  <2> QED BY <1>2, <1>3, <1>11, ArrayTasksFacts
<1> HIDE DEF ts
<1>6. /\ \A u : Holds(frames, u) /\ u # Task1 => Holds(frames', u)
      /\ \A j \in DOMAIN ts : Holds(frames', ts[j])
  BY <1>2, <1>3, <1>5, TasksLeft
<1>7. Items' = Items \cup {x}
  BY <1>3, AppendItem DEF TypeOK
<1>8. \/ Dumped(a)'
      \/ kind[a] = "struct" /\ \A i \in 1..len[a] : Holds(frames', Format(<<a, i>>))
  <2>1. CASE kind[a] = "struct"
    BY <1>5, <1>6, <2>1
  <2>2. CASE kind[a] = "pointer"
    BY <1>3, <1>4, <1>7, <2>2 DEF Dumped, Mentioned, program
  <2> QED BY <2>1, <2>2 DEF TypeOK
<1>9. /\ Items \subseteq Items'
      /\ \A b \in Area : <<b, 1>> \in dict' => <<b, 1>> \in dict \/ b = a
  BY <1>3, <1>7
<1> QED BY <1>3, <1>6, <1>8, <1>9, WholeDone

LEMMA WholeSingle ==
  ASSUME TypeOK, Sound, Whole, NEW a \in Area, FollowSingle(a)
  PROVE  Whole'
<1> DEFINE l == Task1.val.to
           ts == SingleTasks(l)
           x == Line("pointer", l)
<1>1. PICK S : S = Elem
  OBVIOUS
<1>2. LinksTo(S) /\ FramesOn(S) /\ S \subseteq Loc
  BY <1>1, Zenon DEF Sound, Elem
<1>3. /\ HasTask /\ Task1.do = "printer" /\ Task1.val.by = "ptr" /\ l[1] = a
      /\ len[a] = 1 /\ dict' = dict \cup {<<a, 1>>} /\ out' = Append(out, x)
      /\ ReplaceBy(ts)
      /\ UNCHANGED <<program, files>>
  BY DEF FollowSingle, Follows, Mark, Emit
<1>4. x.tag = "pointer" /\ x.at[1] = a
  BY <1>3 DEF Line
<1>5. l \in S /\ l \in HeapLoc
  BY <1>2, <1>3, TopFacts, TaskCases
<1>6. l = <<a, 1>>
  BY <1>1, <1>3, <1>5, AreaAssumption DEF HeapLoc, Exists, Elem, Var
<1> HIDE DEF x, l
<1>7. /\ ts \in Seq(TasksOn(S))
      /\ kind[a] = "struct" => 1 \in DOMAIN ts /\ ts[1] = Format(<<a, 1>>)
  BY <1>2, <1>3, <1>5, <1>6, SingleTasksFacts
<1> HIDE DEF ts
<1>8. /\ \A u : Holds(frames, u) /\ u # Task1 => Holds(frames', u)
      /\ \A j \in DOMAIN ts : Holds(frames', ts[j])
  BY <1>2, <1>3, <1>7, TasksLeft
<1>9. Items' = Items \cup {x}
  BY <1>3, AppendItem DEF TypeOK
<1>10. \/ Dumped(a)'
       \/ kind[a] = "struct" /\ \A i \in 1..len[a] : Holds(frames', Format(<<a, i>>))
  <2>1. CASE kind[a] = "struct"
    <3>1. \A i \in 1..len[a] : i = 1
      BY <1>3
    <3> QED BY <1>7, <1>8, <2>1, <3>1
  <2>2. CASE kind[a] = "pointer"
    BY <1>3, <1>4, <1>9, <2>2 DEF Dumped, Mentioned, program
  <2> QED BY <2>1, <2>2 DEF TypeOK
<1>11. /\ Items \subseteq Items'
       /\ \A b \in Area : <<b, 1>> \in dict' => <<b, 1>> \in dict \/ b = a
  BY <1>3, <1>9
<1> QED BY <1>3, <1>8, <1>10, <1>11, WholeDone

LEMMA WholeRemark ==
  ASSUME TypeOK, Sound, FilesInv, Whole, NEW a \in Area,
         FollowSeen(a) \/ FollowBinary(a)
  PROVE  Whole'
<1>1. /\ HasTask /\ Task1.do = "printer" /\ ReplaceBy(<<>>)
      /\ UNCHANGED <<program, files>>
      /\ \E x : out' = Append(out, x)
      /\ \/ dict' = dict
         \/ dict' = dict \cup {<<a, 1>>} /\ ~Pretty(a)
  BY DEF FollowSeen, FollowBinary, Follows, Emit, Mark
<1>2. Items \subseteq Items'
  BY <1>1, AppendItem DEF TypeOK
<1>3. \A u : Holds(frames, u) /\ u # Task1 => Holds(frames', u)
  <2>1. PICK S : S = Elem
    OBVIOUS
  <2>2. FramesOn(S)
    BY <2>1, Zenon DEF Sound
  <2> QED BY <1>1, <2>2, NothingLeft
<1>4. ~Pretty(a) => Dumped(a)'
  <2> SUFFICES ASSUME ~Pretty(a) PROVE Dumped(a)'
    OBVIOUS
  <2>1. MAX_SIZE_PP # 0 /\ ~(len[a] <= MAX_SIZE_PP) /\ MAX_SIZE_PP \in Nat /\ len[a] \in Nat
    BY LimitAssumption, SizeAssumption DEF Pretty, TypeOK
  <2>2. a \in FilesOf(Area)
    BY <2>1 DEF FilesOf
  <2>3. a \in files
    BY <1>1, <2>2 DEF FilesInv, HasTask
  <2> QED BY <1>1, <2>3 DEF Dumped
<1>5. \A b \in Area : <<b, 1>> \in dict' => <<b, 1>> \in dict \/ (b = a /\ ~Pretty(a))
  BY <1>1
<1> QED BY <1>1, <1>2, <1>3, <1>4, <1>5, WholeDone

\* The task at the top is done without an area being entered.
LEMMA WholeSilent ==
  ASSUME TypeOK, Whole, NEW t, UNCHANGED <<program, dict, files>>,
         out' = out \/ \E x : out' = Append(out, x),
         t.do = "format" => kind[t.at[1]] # "struct",
         \A u : Holds(frames, u) /\ u # t => Holds(frames', u)
  PROVE  Whole'
<1>1. Items \subseteq Items'
  <2>1. CASE out' = out
    BY <2>1 DEF Items
  <2>2. ASSUME NEW x, out' = Append(out, x)
        PROVE  Items \subseteq Items'
    BY <2>2, AppendItem DEF TypeOK
  <2> QED BY <2>1, <2>2
<1> QED BY <1>1, WholeDone

LEMMA PrintedNext ==
  ASSUME TypeOK, PrintedInv, [Next]_vars
  PROVE  PrintedInv'
<1> USE DEF PrintedInv
<1>1. Sound' /\ FilesInv' /\ FormatsKnown' /\ Remembered'
  BY SoundNext, FilesNext, FormatsNext, RememberedNext
<1>2. CASE NewDump
  <2>1. dict' = {}
    BY <1>2 DEF NewDump
  <2> QED BY <1>1, <2>1 DEF Whole, Seen
<1>3. CASE Disturbed /\ ~NewDump
  BY <1>1, <1>3, ItemsGrow DEF Disturbed, Tags
<1> SUFFICES ASSUME Whole, ~NewDump
             PROVE  Disturbed' \/ Whole'
  BY <1>1, <1>2, <1>3
<1>5. CASE Failing
  BY <1>5, FailingDisturbs
<1>6. CASE PrintVariable \/ EndOfGenerator
  <2> DEFINE t == Visit(Plain)
  <2>1. t.do # "format"
    BY DEF Visit, Plain
  <2> HIDE DEF t
  <2> QED BY <1>6, <2>1, KeepsTasks, WholeSilent
<1>7. CASE FormatPointer \/ ShowPlain \/ EndOfLoop
  <2>1. /\ HasTask /\ ReplaceBy(<<>>) /\ UNCHANGED <<program, dict, out, files>>
        /\ Task1.do = "format" => kind[Task1.at[1]] # "struct"
    BY <1>7 DEF FormatPointer, ShowPlain, EndOfLoop
  <2>2. PICK S : S = Elem
    OBVIOUS
  <2>3. FramesOn(S)
    BY <2>2, Zenon DEF Sound
  <2> QED BY <2>1, <2>3, NothingLeft, WholeSilent
<1>8. CASE FormatStruct
  BY <1>8, WholeFormat
<1>9. ASSUME NEW a \in Area,
             FollowSeen(a) \/ FollowArray(a) \/ FollowBinary(a) \/ FollowSingle(a)
      PROVE  Whole'
  BY <1>9, WholeArray, WholeSingle, WholeRemark
<1>10. CASE Ended \/ UNCHANGED vars
  <2> DEFINE t == Visit(Plain)
  <2>1. t.do # "format"
    BY DEF Visit
  <2>2. UNCHANGED <<program, dict, out, files, frames>>
    BY <1>10 DEF Ended, vars, program
  <2> HIDE DEF t
  <2> QED BY <2>1, <2>2, WholeSilent
<1> QED BY <1>5, <1>6, <1>7, <1>8, <1>9, <1>10 DEF Next, Failing, PrintVariable

LEMMA DropInit ==
  ASSUME ~Behind, Init
  PROVE  DropInv /\ PrintedInv
<1>1. frames = <<>> /\ dict = {} /\ out = <<>> /\ dumps = 0
  BY DEF Init
<1>2. <<>> \in Seq(Seq(TasksOn(Elem)))
  OBVIOUS
<1>3. Sound
  BY <1>1, <1>2, InitLinks DEF Sound, FramesOn
<1>4. Items = {}
  BY <1>1 DEF Items
<1>5. Followed = {}
  BY <1>4 DEF Followed, Mentioned
<1>6. FormatsKnown
  BY <1>1 DEF FormatsKnown, Holds
<1> QED BY <1>1, <1>3, <1>4, <1>5, <1>6
    DEF DropInv, FilesInv, Leads, Marked, Seen, PrintedInv, Remembered, Mentioned, Whole

\* The remark <PRINTED> is true of every area of which gdb does not format the
\* first element by itself: when a dump ends, all of it is in the dump or in a
\* file, as long as no pointer leads just behind an area.
THEOREM PrintedIsInTheDump == ~Behind /\ Spec => []PrintedIsTrue
<1>1. ~Behind /\ Init => PrintedInv
  BY DropInit
<1>2. PrintedInv => PrintedIsTrue
  <2> SUFFICES ASSUME PrintedInv, Undisturbed,
                      NEW a \in Area, Mentioned("<PRINTED>", a), ~CutShort(a)
               PROVE  Dumped(a)
    BY DEF PrintedIsTrue
  <2>1. Whole /\ Remembered /\ frames = <<>>
    BY DEF PrintedInv, Undisturbed, Disturbed, Finished
  <2>2. \A t : ~Holds(frames, t)
    BY <2>1 DEF Holds
  <2>3. Complete(a)
    BY <2>1 DEF Whole, Remembered
  <2> QED BY <2>2, <2>3 DEF Complete, Dumped
<1> QED BY <1>1, <1>2, TypeInit, TypeNext, PrintedNext, PTL DEF Spec

----------------------------------------------------------------------------
(* Nothing that is pointed to is dropped.                                  *)

\* An area that a pointer in a printed object leads into is in the dump from its
\* first to its last element, or in a file, however the data is shared or cyclic,
\* as long as no pointer leads just behind an area: what address_dict stops
\* printer() from following is in the dump already, or gdb has still to format it.
\* Of an array that may be cut short no more is claimed than its first element.
THEOREM NothingIsDropped == ~Behind /\ Spec => []NothingDropped
<1>1. ~Behind /\ Init => DropInv /\ PrintedInv
  BY DropInit
<1>2. TypeOK /\ DropInv /\ PrintedInv => NothingDropped
  <2> SUFFICES ASSUME TypeOK, DropInv, PrintedInv, Undisturbed,
                      NEW l \in Followed, NEW f \in DOMAIN Members(l),
                      Members(l)[f].by = "ptr"
               PROVE  LET a == Members(l)[f].to[1]
                      IN  IF CutShort(a) THEN Begun(a) ELSE Dumped(a)
    BY DEF NothingDropped
  <2> DEFINE a == Members(l)[f].to[1]
  <2>1. Leads /\ Marked /\ Whole /\ frames = <<>> /\ LinksTo(Elem)
    BY DEF DropInv, PrintedInv, Undisturbed, Disturbed, Finished, Sound
  <2>2. \A t : ~Holds(frames, t)
    BY <2>1 DEF Holds
  <2>3. Seen(a)
    BY <2>1, <2>2 DEF Leads
  <2>4. a \in Area
    <3>1. l \in Loc
      BY DEF Followed, Items, TypeOK, Item, Loc
    <3>2. PICK S : S = Elem
      OBVIOUS
    <3>3. PICK n \in Nat : Members(l) \in [1..n -> ValuesTo(S)]
      BY <2>1, <3>1, <3>2, MembersList, Zenon
    <3>4. Members(l)[f] \in ValuesTo(S)
      BY <3>3
    <3>5. Members(l)[f].to \in HeapLoc
      BY <3>4 DEF ValuesTo, Plain
    <3> QED BY <3>5 DEF HeapLoc
  <2> HIDE DEF a
  <2>5. Begun(a)
    BY <2>1, <2>2, <2>3, <2>4 DEF Marked
  <2>6. ~CutShort(a) => Dumped(a)
    BY <2>1, <2>2, <2>3, <2>4 DEF Whole, Complete, Dumped
  <2> QED BY <2>5, <2>6 DEF a
<1> QED BY <1>1, <1>2, TypeInit, TypeNext, DropNext, PrintedNext, PTL DEF Spec

----------------------------------------------------------------------------
(* The depth of the recursion.                                             *)

\* gdb has still to format an element of a for the generator f.
Formats(f, a) == \E m \in DOMAIN f : f[m].do = "format" /\ f[m].at[1] = a

\* Every generator but the two at the bottom was made for an element of an area
\* of its own: h names the areas.  The generators above hold no element of it.
Owners(h) ==
  /\ h \in [3..Len(frames) -> Area]
  /\ \A j, k \in 3..Len(frames) : h[j] = h[k] => j = k
  /\ \A k \in 3..Len(frames) :
       /\ Seen(h[k])
       /\ \A i \in 1..Len(frames) : Formats(frames[i], h[k]) => Len(frames) - i + 1 < k

DepthInv ==
  /\ \A i \in 1..(Len(frames) - 1) : \A a : Formats(frames[i], a) => a \in Area /\ Seen(a)
  /\ \E h : Owners(h)

LEMMA FormatsJoined ==
  ASSUME NEW T, NEW ts \in Seq(T), NEW top \in Seq(T), top # <<>>, NEW a,
         Formats(ts \o Tail(top), a)
  PROVE  Formats(ts, a) \/ Formats(top, a)
<1> DEFINE tt == ts \o Tail(top)
<1>1. PICK m \in DOMAIN tt : tt[m].do = "format" /\ tt[m].at[1] = a
  BY DEF Formats
<1>2. \/ m \in DOMAIN ts /\ tt[m] = ts[m]
      \/ m - Len(ts) + 1 \in DOMAIN top /\ tt[m] = top[m - Len(ts) + 1]
  BY JoinedTasks
<1> HIDE DEF tt
<1> QED BY <1>1, <1>2, Zenon DEF Formats

LEMMA FormatsTail ==
  ASSUME NEW T, NEW top \in Seq(T), top # <<>>, NEW a, Formats(Tail(top), a)
  PROVE  Formats(top, a)
<1>1. PICK m \in DOMAIN Tail(top) : Tail(top)[m].do = "format" /\ Tail(top)[m].at[1] = a
  BY DEF Formats
<1>2. m + 1 \in DOMAIN top /\ Tail(top)[m] = top[m + 1]
  OBVIOUS
<1> QED BY <1>1, <1>2, Zenon DEF Formats

\* A few generators at most are no claim.
LEMMA DepthShallow ==
  ASSUME frames' \in Seq(Seq(Task)), Len(frames') <= 1
  PROVE  DepthInv'
<1>1. Len(frames') \in Nat /\ 1..(Len(frames') - 1) = {} /\ 3..Len(frames') = {}
  OBVIOUS
<1>2. PICK h : h \in [3..Len(frames') -> Area]
  <2>1. [k \in {} |-> {}] \in [{} -> Area]
    OBVIOUS
  <2> QED BY <1>1, <2>1
<1>3. Owners(h)'
  BY <1>1, <1>2 DEF Owners
<1> QED BY <1>1, <1>3 DEF DepthInv

\* As many generators as before, and new tasks only for an area that is entered
\* now.
LEMMA DepthSame ==
  ASSUME TypeOK, DepthInv, Len(frames') = Len(frames), dict \subseteq dict',
         \A i \in 1..Len(frames) : \A a : Formats(frames'[i], a) =>
           \/ Formats(frames[i], a)
           \/ i = 1 /\ a \in Area /\ ~Seen(a) /\ <<a, 1>> \in dict'
  PROVE  DepthInv'
<1> DEFINE n == Len(frames)
<1>1. n \in Nat
  BY DEF TypeOK
<1>2. \A i \in 1..(n - 1) : \A a : Formats(frames'[i], a) => a \in Area /\ Seen(a)'
  <2> SUFFICES ASSUME NEW i \in 1..(n - 1), NEW a, Formats(frames'[i], a)
               PROVE  a \in Area /\ Seen(a)'
    OBVIOUS
  <2>1. Formats(frames[i], a) \/ (a \in Area /\ <<a, 1>> \in dict')
    BY <1>1
  <2>2. Formats(frames[i], a) => a \in Area /\ Seen(a)
    BY DEF DepthInv
  <2> QED BY <2>1, <2>2 DEF Seen
<1>3. PICK h : Owners(h)
  BY DEF DepthInv
<1> HIDE DEF n
<1>4. h \in [3..n -> Area] /\ \A j, k \in 3..n : h[j] = h[k] => j = k
  BY <1>3 DEF Owners, n
<1>5. ASSUME NEW k \in 3..n
       PROVE  /\ Seen(h[k])'
              /\ \A i \in 1..n : Formats(frames'[i], h[k]) => n - i + 1 < k
  <2>1. Seen(h[k]) /\ \A i \in 1..n : Formats(frames[i], h[k]) => n - i + 1 < k
    BY <1>3 DEF Owners, n
  <2>2. \A i \in 1..n : Formats(frames'[i], h[k]) => Formats(frames[i], h[k])
    BY <2>1 DEF n
  <2> QED BY <2>1, <2>2 DEF Seen
<1>6. Owners(h)'
  BY <1>4, <1>5 DEF Owners, n
<1> QED BY <1>2, <1>6 DEF DepthInv, n

LEMMA DepthReplace ==
  ASSUME TypeOK, DepthInv, HasTask, NEW ts \in Seq(Task), ReplaceBy(ts), dict \subseteq dict',
         \A a : Formats(ts, a) => a \in Area /\ ~Seen(a) /\ <<a, 1>> \in dict'
  PROVE  DepthInv'
<1> DEFINE n == Len(frames)
<1>1. FramesOn(Loc) /\ frames \in Seq(Seq(Task)) /\ n \in Nat
  BY ValueTypes DEF TypeOK, FramesOn
<1>2. IsGenerators(Task, frames) /\ frames' = Replaced(frames, ts)
  BY <1>1, ValueTypes, TopFacts
<1>3. /\ Len(frames') = n
      /\ frames'[1] = ts \o Tail(frames[1])
      /\ \A i \in 2..n : frames'[i] = frames[i]
  BY <1>2, ReplacedFrames DEF IsGenerators
<1>4. frames[1] \in Seq(Task) /\ frames[1] # <<>> /\ n >= 1
  BY <1>2 DEF IsGenerators
<1>5. \A a : Formats(frames'[1], a) => Formats(ts, a) \/ Formats(frames[1], a)
  <2> TAKE a
  <2> DEFINE top == frames[1]
  <2>1. top \in Seq(Task) /\ top # <<>> /\ frames'[1] = ts \o Tail(top)
    BY <1>3, <1>4
  <2> HIDE DEF top
  <2>2. Formats(ts \o Tail(top), a) => Formats(ts, a) \/ Formats(top, a)
    BY <2>1, FormatsJoined
  <2> QED BY <2>1, <2>2 DEF top
<1>6. \A i \in 1..n : \A a : Formats(frames'[i], a) =>
        Formats(frames[i], a) \/ (i = 1 /\ Formats(ts, a))
  <2> SUFFICES ASSUME NEW i \in 1..n, NEW a, Formats(frames'[i], a)
               PROVE  Formats(frames[i], a) \/ (i = 1 /\ Formats(ts, a))
    OBVIOUS
  <2>1. CASE i = 1
    BY <1>5, <2>1, Zenon
  <2>2. CASE i # 1
    <3>1. i \in 2..n
      BY <1>1, <2>2
    <3>2. frames'[i] = frames[i]
      BY <1>3, <3>1
    <3> QED BY <3>2, Zenon
  <2> QED BY <2>1, <2>2
<1>7. \A i \in 1..n : \A a : Formats(frames'[i], a) =>
        \/ Formats(frames[i], a)
        \/ i = 1 /\ a \in Area /\ ~Seen(a) /\ <<a, 1>> \in dict'
  BY <1>6
<1> QED BY <1>3, <1>7, DepthSame

LEMMA DepthDrop ==
  ASSUME TypeOK, DepthInv, HasTask, NEW n \in DOMAIN Head(frames),
         frames' = Dropped(frames, n), dict' = dict
  PROVE  DepthInv'
<1>1. frames \in Seq(Seq(Task)) /\ frames # <<>> /\ Head(frames) # <<>>
  BY DEF TypeOK, HasTask, Top
<1>2. /\ Len(frames') = Len(frames)
      /\ Len(frames'[1]) = Len(frames[1]) - n
      /\ \A j \in 1..(Len(frames[1]) - n) : frames'[1][j] = frames[1][j + n]
      /\ \A i \in 2..Len(frames) : frames'[i] = frames[i]
      /\ frames' \in Seq(Seq(Task))
  BY <1>1, DroppedFrames
<1>3. /\ Len(frames) \in Nat /\ Len(frames) >= 1
      /\ frames[1] \in Seq(Task) /\ n \in 1..Len(frames[1]) /\ Len(frames[1]) \in Nat
      /\ DOMAIN frames[1] = 1..Len(frames[1])
  BY <1>1
<1>4. DOMAIN frames'[1] = 1..(Len(frames[1]) - n)
  BY <1>2, <1>3
<1>5. \A i \in 1..Len(frames) : \A a : Formats(frames'[i], a) => Formats(frames[i], a)
  <2> SUFFICES ASSUME NEW i \in 1..Len(frames), NEW a, Formats(frames'[i], a)
               PROVE  Formats(frames[i], a)
    OBVIOUS
  <2>1. CASE i = 1
    <3>1. PICK j \in DOMAIN frames'[1] : frames'[1][j].do = "format" /\ frames'[1][j].at[1] = a
      BY <2>1, Zenon DEF Formats
    <3>2. j + n \in DOMAIN frames[1] /\ frames'[1][j] = frames[1][j + n]
      BY <1>2, <1>3, <1>4
    <3> QED BY <2>1, <3>1, <3>2, Zenon DEF Formats
  <2>2. CASE i # 1
    <3>1. frames'[i] = frames[i]
      BY <1>2, <1>3, <2>2
    <3> QED BY <3>1, Zenon
  <2> QED BY <2>1, <2>2
<1> QED BY <1>2, <1>5, DepthSame

LEMMA DepthPop ==
  ASSUME TypeOK, DepthInv, frames # <<>>, frames' = Tail(frames), dict' = dict
  PROVE  DepthInv'
<1> DEFINE n == Len(frames)
<1>1. frames \in Seq(Seq(Task)) /\ n \in Nat /\ n >= 1
  BY DEF TypeOK
<1>2. Len(frames') = n - 1 /\ \A i \in 1..(n - 1) : frames'[i] = frames[i + 1]
  BY <1>1, PoppedFrames
<1>3. PICK h : Owners(h)
  BY DEF DepthInv
<1>4. \A i \in 1..(n - 2) : \A a : Formats(frames'[i], a) => a \in Area /\ Seen(a)'
  BY <1>1, <1>2 DEF DepthInv, Seen
<1> HIDE DEF n
<1>5. /\ h \in [3..n -> Area] /\ \A j, k \in 3..n : h[j] = h[k] => j = k
      /\ \A k \in 3..n : /\ Seen(h[k])
                         /\ \A i \in 1..n : Formats(frames[i], h[k]) => n - i + 1 < k
  BY <1>3 DEF Owners, n
<1>6. PICK g \in [3..(n - 1) -> Area] : \A k \in 3..(n - 1) : k \in 3..n /\ g[k] = h[k]
  <2> DEFINE gg == [k \in 3..(n - 1) |-> h[k]]
  <2>1. gg \in [3..(n - 1) -> Area] /\ \A k \in 3..(n - 1) : k \in 3..n /\ gg[k] = h[k]
    BY <1>1, <1>5
  <2> QED BY <2>1
<1>7. \A j, k \in 3..(n - 1) : g[j] = g[k] => j = k
  BY <1>5, <1>6
<1>8. ASSUME NEW k \in 3..(n - 1)
      PROVE  /\ Seen(g[k])'
             /\ \A i \in 1..(n - 1) : Formats(frames'[i], g[k]) => (n - 1) - i + 1 < k
  <2>1. Seen(g[k])'
    BY <1>5, <1>6 DEF Seen
  <2>2. ASSUME NEW i \in 1..(n - 1), Formats(frames'[i], g[k])
        PROVE  (n - 1) - i + 1 < k
    <3>1. i + 1 \in 1..n /\ Formats(frames[i + 1], h[k])
      BY <1>1, <1>2, <1>6, <2>2
    <3>2. n - (i + 1) + 1 < k
      BY <1>5, <1>6, <3>1
    <3> QED BY <1>1, <1>6, <3>2
  <2> QED BY <2>1, <2>2
<1>9. Owners(g)'
  BY <1>2, <1>6, <1>7, <1>8 DEF Owners
<1>10. (n - 1) - 1 = n - 2
  BY <1>1
<1> QED BY <1>2, <1>4, <1>9, <1>10 DEF DepthInv

LEMMA DepthPush ==
  ASSUME TypeOK, DepthInv, ~Refs, FormatStruct
  PROVE  DepthInv'
<1> DEFINE n == Len(frames)
           ts == TasksFor(Members(Task1.at))
           a == Task1.at[1]
<1>1. FramesOn(Loc) /\ LinksTo(Loc) /\ frames \in Seq(Seq(Task)) /\ n \in Nat
  <2>1. FramesOn(Loc) /\ LinksTo(Loc) /\ frames \in Seq(Seq(Task))
    BY ValueTypes, Zenon DEF TypeOK, FramesOn, LinksTo, Elem
  <2> QED BY <2>1
<1>2. HasTask /\ Task1.do = "format" /\ dict \subseteq dict'
      /\ frames' = <<ts, Tail(Top)>> \o Tail(frames)
  BY DEF FormatStruct
<1>3. IsGenerators(Task, frames) /\ frames' = Pushed(frames, ts) /\ Task1.at \in Loc
  BY <1>1, <1>2, ValueTypes, TopFacts, TaskCases
<1>4. ts \in Seq(Task) /\ \A b : ~Formats(ts, b)
  BY <1>1, <1>3, MembersTasks, ValueTypes DEF Formats
<1> HIDE DEF ts
<1>5. /\ Len(frames') = n + 1
      /\ frames'[1] = ts
      /\ frames'[2] = Tail(frames[1])
      /\ \A i \in 2..n : frames'[i + 1] = frames[i]
  <2>1. /\ frames \in Seq(Seq(Task)) /\ frames # <<>> /\ Head(frames) # <<>>
        /\ ts \in Seq(Task)
    BY <1>3, <1>4 DEF IsGenerators
  <2>2. /\ Len(Pushed(frames, ts)) = Len(frames) + 1
        /\ Pushed(frames, ts)[1] = ts
        /\ Pushed(frames, ts)[2] = Tail(frames[1])
        /\ \A i \in 2..Len(frames) : Pushed(frames, ts)[i + 1] = frames[i]
    BY <2>1, PushedFrames
  <2> QED BY <1>3, <2>2, Zenon
<1>6. frames[1] \in Seq(Task) /\ frames[1] # <<>> /\ n >= 1
  BY <1>3 DEF IsGenerators
<1>7. Formats(frames[1], a)
  <2>1. 1 \in DOMAIN frames[1] /\ frames[1][1] = Task1
    BY <1>3, <1>6 DEF IsGenerators, Task1, Top
  <2> QED BY <1>2, <2>1, Zenon DEF Formats
<1>8. \A i \in 1..(n + 1) : \A b : Formats(frames'[i], b) =>
        i - 1 \in 1..n /\ Formats(frames[i - 1], b)
  <2> SUFFICES ASSUME NEW i \in 1..(n + 1), NEW b, Formats(frames'[i], b)
               PROVE  i - 1 \in 1..n /\ Formats(frames[i - 1], b)
    OBVIOUS
  <2>1. i # 1
    BY <1>4, <1>5
  <2>2. CASE i = 2
    <3>1. Formats(Tail(frames[1]), b)
      BY <1>5, <2>2, Zenon
    <3> DEFINE top == frames[1]
    <3>2. top \in Seq(Task) /\ top # <<>> /\ Formats(Tail(top), b)
      BY <1>6, <3>1
    <3> HIDE DEF top
    <3>3. Formats(top, b)
      BY <3>2, FormatsTail
    <3>4. i - 1 = 1 /\ 1 \in 1..n
      BY <1>1, <1>6, <2>2
    <3> QED BY <3>3, <3>4 DEF top
  <2>3. CASE i # 1 /\ i # 2
    <3>1. i - 1 \in 2..n /\ i - 1 \in 1..n /\ (i - 1) + 1 = i
      BY <1>1, <2>3
    <3>2. frames'[i] = frames[i - 1]
      BY <1>5, <3>1
    <3> QED BY <3>1, <3>2, Zenon
  <2> QED BY <2>1, <2>2, <2>3
<1>9. \A i \in 1..n : \A b : Formats(frames'[i], b) => b \in Area /\ Seen(b)'
  <2> SUFFICES ASSUME NEW i \in 1..n, NEW b, Formats(frames'[i], b)
               PROVE  b \in Area /\ Seen(b)'
    OBVIOUS
  <2>1. i - 1 \in 1..(n - 1) /\ Formats(frames[i - 1], b)
    <3>1. i \in 1..(n + 1)
      BY <1>1
    <3>2. i - 1 \in 1..n /\ Formats(frames[i - 1], b)
      BY <1>8, <3>1
    <3> QED BY <1>1, <3>2
  <2> QED BY <1>2, <2>1 DEF DepthInv, Seen
<1>10. PICK h : Owners(h)
  BY DEF DepthInv
<1>11. n >= 2 => a \in Area /\ Seen(a)
  <2>1. n >= 2 => 1 \in 1..(n - 1)
    BY <1>1
  <2> QED BY <1>7, <2>1 DEF DepthInv
<1>12. PICK b : b = a
  OBVIOUS
<1> HIDE DEF n, a
<1>13. /\ h \in [3..n -> Area] /\ \A j, k \in 3..n : h[j] = h[k] => j = k
       /\ \A k \in 3..n : /\ Seen(h[k])
                          /\ \A i \in 1..n : Formats(frames[i], h[k]) => n - i + 1 < k
  BY <1>10 DEF Owners, n
<1>14. PICK g \in [3..(n + 1) -> Area] :
         /\ \A k \in 3..n : g[k] = h[k]
         /\ n >= 2 => g[n + 1] = b
  <2> DEFINE gg == [k \in 3..(n + 1) |-> IF k <= n THEN h[k] ELSE b]
  <2>1. gg \in [3..(n + 1) -> Area]
    <3> SUFFICES ASSUME NEW k \in 3..(n + 1)
                 PROVE  (IF k <= n THEN h[k] ELSE b) \in Area
      OBVIOUS
    <3>1. CASE k <= n
      BY <1>1, <1>13, <3>1
    <3>2. CASE ~(k <= n)
      BY <1>1, <1>11, <1>12, <3>2
    <3> QED BY <3>1, <3>2
  <2>2. \A k \in 3..n : gg[k] = h[k]
    BY <1>1
  <2>3. n >= 2 => gg[n + 1] = b
    BY <1>1
  <2> HIDE DEF gg
  <2> QED BY <2>1, <2>2, <2>3
<1>15. \A k \in 3..n : h[k] # b
  <2> SUFFICES ASSUME NEW k \in 3..n, h[k] = b PROVE FALSE
    OBVIOUS
  <2>1. n - 1 + 1 < k /\ 1 \in 1..n
    BY <1>1, <1>6, <1>7, <1>12, <1>13
  <2> QED BY <1>1, <2>1
<1>16. \A j, k \in 3..(n + 1) : g[j] = g[k] => j = k
  <2> SUFFICES ASSUME NEW j \in 3..(n + 1), NEW k \in 3..(n + 1), g[j] = g[k]
               PROVE  j = k
    OBVIOUS
  <2>1. \A m \in 3..(n + 1) : m \in 3..n \/ (m = n + 1 /\ n >= 2)
    BY <1>1
  <2> QED BY <1>13, <1>14, <1>15, <2>1
<1>17. ASSUME NEW k \in 3..(n + 1)
       PROVE  /\ Seen(g[k])'
              /\ \A i \in 1..(n + 1) : Formats(frames'[i], g[k]) => (n + 1) - i + 1 < k
  <2>1. k \in 3..n \/ (k = n + 1 /\ n >= 2)
    BY <1>1
  <2>2. Seen(g[k])'
    BY <1>2, <1>11, <1>12, <1>13, <1>14, <2>1 DEF Seen
  <2>3. ASSUME NEW i \in 1..(n + 1), Formats(frames'[i], g[k])
        PROVE  (n + 1) - i + 1 < k
    <3>1. i - 1 \in 1..n /\ Formats(frames[i - 1], g[k])
      BY <1>8, <2>3
    <3>2. CASE k \in 3..n
      <4>1. n - (i - 1) + 1 < k
        BY <1>13, <1>14, <3>1, <3>2
      <4> QED BY <1>1, <4>1
    <3>3. CASE k = n + 1
      BY <1>1, <3>1, <3>3
    <3> QED BY <2>1, <3>2, <3>3
  <2> QED BY <2>2, <2>3
<1>18. Owners(g)'
  BY <1>5, <1>16, <1>17 DEF Owners
<1>19. (n + 1) - 1 = n
  BY <1>1
<1> QED BY <1>5, <1>9, <1>18, <1>19 DEF DepthInv

LEMMA DepthNext ==
  ASSUME TypeOK, FilesInv, DepthInv, ~Refs, [Next]_vars
  PROVE  DepthInv'
<1>1. FramesOn(Loc) /\ LinksTo(Loc) /\ Elem \subseteq Loc /\ TypeOK'
  BY ValueTypes, TypeNext, Zenon DEF TypeOK, FramesOn, LinksTo, Elem
<1>2. frames' \in Seq(Seq(Task))
  BY <1>1 DEF TypeOK
<1>3. \A b : ~Formats(<<>>, b)
  BY DEF Formats
<1>4. CASE NewDump \/ PrintVariable \/ GdbDies
  <2>1. Len(frames') <= 1
    <3>1. CASE NewDump
      BY <3>1 DEF NewDump, Finished, FilesInv
    <3>2. CASE PrintVariable
      <4>1. frames' = <<>> \/ \E t : frames' = << <<t>> >>
        BY <3>2, PrintFacts
      <4>2. \A t : Len(<< <<t>> >>) = 1
        OBVIOUS
      <4>3. Len(<<>>) = 0
        OBVIOUS
      <4> DEFINE n == Len(frames')
      <4>4. n = 0 \/ n = 1
        BY <4>1, <4>2, <4>3, Zenon
      <4> HIDE DEF n
      <4>5. n <= 1
        BY <4>4
      <4> QED BY <4>5 DEF n
    <3>3. CASE GdbDies
      BY <3>3 DEF GdbDies
    <3> QED BY <1>4, <3>1, <3>2, <3>3
  <2> QED BY <1>2, <2>1, DepthShallow
<1>5. CASE VariableInvalid \/ TargetInvalid \/ Ended \/ UNCHANGED vars
  <2>1. frames' = frames /\ dict' = dict
    BY <1>5 DEF VariableInvalid, TargetInvalid, Ended, vars
  <2> QED BY <2>1 DEF DepthInv, Owners, Seen
<1>6. CASE EndOfGenerator \/ FollowOpaque \/ MemberInvalid
  BY <1>6, DepthPop DEF EndOfGenerator, FollowOpaque, MemberInvalid, HasTask
<1>7. CASE FormatStruct
  BY <1>7, DepthPush
<1>8. CASE FormatPointer \/ ShowPlain \/ EndOfLoop \/
           \E a \in Area : FollowSeen(a) \/ FollowBinary(a) \/ FollowInvalid(a)
  <2>1. HasTask /\ ReplaceBy(<<>>) /\ dict \subseteq dict'
    BY <1>8 DEF FormatPointer, ShowPlain, EndOfLoop, FollowSeen, FollowBinary, FollowInvalid,
                Follows, Mark
  <2>2. <<>> \in Seq(Task)
    OBVIOUS
  <2> QED BY <1>3, <2>1, <2>2, DepthReplace
<1>9. ASSUME NEW a \in Area, FollowArray(a)
      PROVE  DepthInv'
  <2> DEFINE l == Task1.val.to
  <2>1. HasTask /\ ReplaceBy(ArrayTasks(l)) /\ dict' = dict \cup {<<a, 1>>} /\ ~Seen(a)
        /\ l[1] = a
    BY <1>9 DEF FollowArray, Follows, Mark
  <2>2. l \in Loc
    BY <1>1, <1>9, TopFacts, TaskCases DEF FollowArray, Follows
  <2> HIDE DEF l
  <2>3. ArrayTasks(l) \in Seq(Task) /\ \A b : Formats(ArrayTasks(l), b) => b = a
    <3>1. /\ ArrayTasks(l) \in Seq(TasksOn(Loc))
          /\ \A j \in DOMAIN ArrayTasks(l) :
               ArrayTasks(l)[j].do = "format" => ArrayTasks(l)[j].at[1] = a
      BY <1>1, <2>1, <2>2, ArrayTasksFacts
    <3> QED BY <3>1, ValueTypes DEF Formats
  <2> QED BY <2>1, <2>3, DepthReplace
<1>10. ASSUME NEW a \in Area, FollowSingle(a)
       PROVE  DepthInv'
  <2> DEFINE l == Task1.val.to
  <2>1. HasTask /\ ReplaceBy(SingleTasks(l)) /\ dict' = dict \cup {<<a, 1>>} /\ ~Seen(a)
        /\ l[1] = a
    BY <1>10 DEF FollowSingle, Follows, SingleTasks, Mark
  <2>2. l \in Loc
    BY <1>1, <1>10, TopFacts, TaskCases DEF FollowSingle, Follows
  <2>3. SingleTasks(l) \in Seq(Task) /\ \A b : Formats(SingleTasks(l), b) => b = l[1]
    BY <1>1, <2>2, SingleTasksFacts, ValueTypes DEF Formats
  <2> HIDE DEF l
  <2> QED BY <2>1, <2>3, DepthReplace
<1>11. CASE ElementInvalid
  <2>1. HasTask /\ dict' = dict
        /\ \E n \in DOMAIN Head(frames) : frames' = Dropped(frames, n)
    BY <1>11 DEF ElementInvalid, Dropped, Top
  <2> QED BY <2>1, DepthDrop
<1> QED BY <1>4, <1>5, <1>6, <1>7, <1>8, <1>9, <1>10, <1>11 DEF Next, PrintVariable

\* Without C++ references, gdb recurses as deep as there are areas, and no
\* deeper: whoever formats an element of an area has marked the area, and below
\* him nobody formats another of it.
THEOREM DepthIsBounded ==
  ASSUME IsFiniteSet(Area), ~Refs
  PROVE  Spec => []DepthBounded
<1>1. Init => DepthInv /\ FilesInv
  <2> SUFFICES ASSUME Init PROVE DepthInv /\ FilesInv
    OBVIOUS
  <2>1. frames = <<>> /\ Len(frames) = 0 /\ 1..(0 - 1) = {} /\ 3..0 = {} /\ dumps = 0
    BY DEF Init
  <2>2. PICK h : h \in [3..0 -> Area]
    <3>1. [k \in {} |-> {}] \in [{} -> Area]
      OBVIOUS
    <3> QED BY <2>1, <3>1
  <2>3. Owners(h)
    BY <2>1, <2>2 DEF Owners
  <2> QED BY <2>1, <2>3 DEF DepthInv, FilesInv
<1>2. TypeOK /\ DepthInv => DepthBounded
  <2> SUFFICES ASSUME TypeOK, DepthInv PROVE DepthBounded
    OBVIOUS
  <2> DEFINE n == Len(frames)
  <2>1. n \in Nat /\ Cardinality(Area) \in Nat
    BY FS_CardinalityType DEF TypeOK
  <2>2. PICK h \in [3..n -> Area] : \A j, k \in 3..n : h[j] = h[k] => j = k
    BY DEF DepthInv, Owners
  <2> HIDE DEF n
  <2>3. IsFiniteSet(3..n) /\ Cardinality(3..n) = IF 3 > n THEN 0 ELSE n - 3 + 1
    BY <2>1, FS_Interval
  <2>4. ~(Cardinality(Area) < Cardinality(3..n))
    <3> SUFFICES ASSUME Cardinality(Area) < Cardinality(3..n) PROVE FALSE
      OBVIOUS
    <3> DEFINE levels == 3..n
    <3>1. IsFiniteSet(levels) /\ h \in [levels -> Area]
          /\ Cardinality(Area) < Cardinality(levels)
      BY <2>2, <2>3
    <3> HIDE DEF levels
    <3>2. \E x, y \in levels : x # y /\ h[x] = h[y]
      BY <3>1, FS_PigeonHole
    <3> QED BY <2>2, <3>2 DEF levels
  <2>5. n <= Cardinality(Area) + 2
    BY <2>1, <2>3, <2>4
  <2> QED BY <2>5 DEF n, DepthBounded
<1> QED BY <1>1, <1>2, TypeInit, TypeNext, FilesNext, DepthNext, PTL DEF Spec
----------------------------------------------------------------------------
(* The length of the dump.                                                 *)

\* The lines that a task may add before it is done: one of its own, and if gdb
\* formats a struct, one for each of its members.
Weight(t) == IF t.do = "format" THEN 1 + NumFields ELSE 1

\* The lines that all the tasks may add, each with the place of its task.  The
\* places are counted from the end, so that a task keeps its place when others
\* come and go before it.
Work(fs) ==
  UNION {UNION {{<<Len(fs) - i, Len(fs[i]) - j>>} \X (1..Weight(fs[i][j]))
                  : j \in DOMAIN fs[i]} : i \in DOMAIN fs}

\* The lines of the task that is the next.
FirstWork(fs) ==
  {<<Len(fs) - 1, Len(fs[1]) - 1>>} \X (1..Weight(Head(Head(fs))))

\* The lines of n tasks of weight w, at places of their own.
NewWork(d, e, n, w) == ({d} \X (e..(e + n - 1))) \X (1..w)

LEMMA WeightType ==
  \A t : /\ Weight(t) \in Nat /\ Weight(t) >= 1 /\ Weight(t) <= 1 + NumFields
         /\ t.do = "format" => Weight(t) = 1 + NumFields
         /\ t.do # "format" => Weight(t) = 1
BY SizeAssumption DEF Weight

LEMMA WorkMember ==
  ASSUME NEW fs, NEW x
  PROVE  x \in Work(fs) <=>
           \E i \in DOMAIN fs : \E j \in DOMAIN fs[i] :
             x \in {<<Len(fs) - i, Len(fs[i]) - j>>} \X (1..Weight(fs[i][j]))
<1> DEFINE Lines(i, j) == {<<Len(fs) - i, Len(fs[i]) - j>>} \X (1..Weight(fs[i][j]))
<1>1. Work(fs) = UNION {UNION {Lines(i, j) : j \in DOMAIN fs[i]} : i \in DOMAIN fs}
  BY DEF Work
<1> HIDE DEF Lines
<1>2. x \in Work(fs) <=> \E i \in DOMAIN fs : \E j \in DOMAIN fs[i] : x \in Lines(i, j)
  BY <1>1
<1> QED BY <1>2 DEF Lines

LEMMA FirstWorkFacts ==
  ASSUME NEW T, NEW fs, IsGenerators(T, fs)
  PROVE  /\ FirstWork(fs) \subseteq Work(fs)
         /\ IsFiniteSet(FirstWork(fs))
         /\ Cardinality(FirstWork(fs)) = Weight(Head(Head(fs)))
<1> DEFINE p == <<Len(fs) - 1, Len(fs[1]) - 1>>
           w == Weight(Head(Head(fs)))
<1>1. fs[1] \in Seq(T) /\ fs[1] = Head(fs) /\ fs[1] # <<>> /\ 1 \in DOMAIN fs
  BY DEF IsGenerators
<1>2. \A top \in Seq(T) : top # <<>> => 1 \in DOMAIN top /\ Head(top) = top[1]
  OBVIOUS
<1>3. 1 \in DOMAIN fs[1] /\ Head(Head(fs)) = fs[1][1]
  BY <1>1, <1>2, Zenon
<1>4. FirstWork(fs) = {p} \X (1..w)
  BY DEF FirstWork
<1>5. FirstWork(fs) \subseteq Work(fs)
  <2> SUFFICES ASSUME NEW x \in FirstWork(fs) PROVE x \in Work(fs)
    OBVIOUS
  <2>1. x \in {<<Len(fs) - 1, Len(fs[1]) - 1>>} \X (1..Weight(fs[1][1]))
    BY <1>3, Zenon DEF FirstWork
  <2> QED BY <1>1, <1>3, <2>1, WorkMember, Zenon
<1>6. w \in Nat
  BY WeightType
<1> HIDE DEF p, w
<1>7. IsFiniteSet(1..w) /\ Cardinality(1..w) = w
  BY <1>6, FS_Interval
<1>8. IsFiniteSet({p}) /\ Cardinality({p}) = 1
  BY FS_Singleton
<1>9. IsFiniteSet({p} \X (1..w)) /\ Cardinality({p} \X (1..w)) = 1 * w
  <2> DEFINE P == {p}
             W == 1..w
  <2>1. IsFiniteSet(P) /\ IsFiniteSet(W) /\ Cardinality(P) = 1 /\ Cardinality(W) = w
    BY <1>7, <1>8
  <2> HIDE DEF P, W
  <2>2. IsFiniteSet(P \X W) /\ Cardinality(P \X W) = Cardinality(P) * Cardinality(W)
    BY <2>1, FS_Product
  <2> QED BY <2>1, <2>2 DEF P, W
<1> QED BY <1>4, <1>5, <1>6, <1>9 DEF w

LEMMA NewWorkFacts ==
  ASSUME NEW d, NEW e \in Int, NEW n \in Nat, NEW w \in Nat
  PROVE  /\ IsFiniteSet(NewWork(d, e, n, w))
         /\ Cardinality(NewWork(d, e, n, w)) = n * w
<1> DEFINE es == e..(e + n - 1)
           ps == {d} \X es
<1>1. IsFiniteSet(es) /\ Cardinality(es) = n
  BY FS_Interval
<1>2. IsFiniteSet({d}) /\ Cardinality({d}) = 1
  BY FS_Singleton
<1> HIDE DEF es
<1>3. IsFiniteSet(ps) /\ Cardinality(ps) = 1 * n
  BY <1>1, <1>2, FS_Product
<1>4. IsFiniteSet(1..w) /\ Cardinality(1..w) = w
  BY FS_Interval
<1> HIDE DEF ps
<1>5. IsFiniteSet(ps \X (1..w)) /\ Cardinality(ps \X (1..w)) = Cardinality(ps) * w
  BY <1>3, <1>4, FS_Product
<1> QED BY <1>3, <1>5 DEF NewWork, ps, es

LEMMA WorkReplaced ==
  ASSUME NEW T, NEW fs, IsGenerators(T, fs), NEW ts \in Seq(T), NEW w \in Nat,
         \A j \in DOMAIN ts : Weight(ts[j]) <= w
  PROVE  Work(Replaced(fs, ts)) \subseteq
           (Work(fs) \ FirstWork(fs))
             \cup NewWork(Len(fs) - 1, Len(fs[1]) - 1, Len(ts), w)
<1> DEFINE r == Replaced(fs, ts)
           top == fs[1]
<1>1. /\ r \in Seq(Seq(T)) /\ Len(r) = Len(fs)
      /\ r[1] = ts \o Tail(fs[1])
      /\ \A i \in 2..Len(fs) : r[i] = fs[i]
  BY ReplacedFrames, Zenon DEF IsGenerators
<1>2. Len(fs) \in Nat /\ Len(fs) >= 1 /\ DOMAIN fs = 1..Len(fs)
      /\ top \in Seq(T) /\ top # <<>> /\ top = Head(fs)
  BY DEF IsGenerators
<1>2a. \A j \in DOMAIN (ts \o Tail(top)) :
        /\ j \in DOMAIN ts => (ts \o Tail(top))[j] = ts[j]
        /\ j \notin DOMAIN ts =>
             /\ j - Len(ts) + 1 \in DOMAIN top
             /\ (ts \o Tail(top))[j] = top[j - Len(ts) + 1]
  <2> HIDE DEF top
  <2> QED BY <1>2, JoinedPlace
<1>3. DOMAIN r = 1..Len(fs)
  BY <1>1, LenProperties, Zenon
<1> HIDE DEF r
<1>4. SUFFICES ASSUME NEW i \in DOMAIN r, NEW j \in DOMAIN r[i],
                      NEW x \in {<<Len(r) - i, Len(r[i]) - j>>} \X (1..Weight(r[i][j]))
               PROVE  \/ x \in Work(fs) /\ x \notin FirstWork(fs)
                      \/ x \in NewWork(Len(fs) - 1, Len(fs[1]) - 1, Len(ts), w)
  BY WorkMember, Zenon DEF r
<1>5. PICK k \in 1..Weight(r[i][j]) : x = <<<<Len(r) - i, Len(r[i]) - j>>, k>>
  OBVIOUS
<1>6. CASE i # 1
  <2>0. i \in 2..Len(fs)
    BY <1>2, <1>3, <1>6
  <2>1. r[i] = fs[i] /\ i \in DOMAIN fs
    BY <1>1, <1>2, <2>0
  <2>2. x \in Work(fs)
    BY <1>1, <1>4, <2>1, WorkMember, Zenon
  <2>3. Len(fs) - i # Len(fs) - 1
    BY <1>2, <1>6, <2>1
  <2> QED BY <1>1, <1>5, <2>2, <2>3 DEF FirstWork
<1>7. CASE i = 1
  <2> DEFINE tt == ts \o Tail(top)
             n == Len(ts)
             m == Len(top)
  <2>1. r[i] = tt /\ j \in DOMAIN tt
    BY <1>1, <1>7
  <2>2. n \in Nat /\ m \in Nat /\ m >= 1 /\ DOMAIN ts = 1..n /\ DOMAIN top = 1..m
        /\ Len(Tail(top)) = m - 1 /\ Tail(top) \in Seq(T)
    BY <1>2
  <2>3. Len(tt) = n + m - 1 /\ DOMAIN tt = 1..(n + m - 1)
    <3> DEFINE tl == Tail(top)
    <3>1. tl \in Seq(T) /\ Len(tl) = m - 1
      BY <2>2
    <3> HIDE DEF tl
    <3>2. Len(ts \o tl) = Len(ts) + Len(tl) /\ ts \o tl \in Seq(T)
      BY <3>1, ConcatProperties, Zenon
    <3>3. DOMAIN (ts \o tl) = 1..Len(ts \o tl)
      BY <3>2, LenProperties, Zenon
    <3>4. Len(ts \o tl) = n + m - 1
      BY <2>2, <3>1, <3>2
    <3> QED BY <3>3, <3>4 DEF tl
  <2>4. \/ j \in DOMAIN ts /\ tt[j] = ts[j]
        \/ /\ j - n + 1 \in DOMAIN top /\ j \notin DOMAIN ts
           /\ tt[j] = top[j - n + 1]
    BY <1>2a, <2>1, Zenon
  <2> HIDE DEF top, tt, n, m
  <2>5. x = <<<<Len(fs) - 1, n + m - 1 - j>>, k>> /\ k \in 1..Weight(tt[j]) /\ j \in Int
    <3>1. Len(r[i]) = n + m - 1 /\ j \in 1..(n + m - 1) /\ r[i][j] = tt[j]
      BY <2>1, <2>3
    <3>2. Len(r) - i = Len(fs) - 1
      BY <1>1, <1>7
    <3>3. j \in Int
      BY <3>1
    <3>4. x = <<<<Len(fs) - 1, n + m - 1 - j>>, k>>
      <4>1. Len(r) - i = Len(fs) - 1 /\ Len(r[i]) - j = n + m - 1 - j
        BY <2>2, <3>1, <3>2, <3>3
      <4> QED BY <1>5, <4>1
    <3>5. k \in 1..Weight(tt[j])
      BY <3>1
    <3> QED BY <3>3, <3>4, <3>5
  <2>6. CASE j \in DOMAIN ts /\ tt[j] = ts[j]
    <3>1. k \in 1..w
      BY <2>5, <2>6, WeightType
    <3>2. n + m - 1 - j \in (m - 1)..((m - 1) + n - 1)
      BY <2>2, <2>6
    <3>3. x \in ({Len(fs) - 1} \X ((m - 1)..((m - 1) + n - 1))) \X (1..w)
      BY <2>5, <3>1, <3>2
    <3> QED BY <3>3 DEF NewWork, m, n, top
  <2>7. CASE j - n + 1 \in DOMAIN top /\ tt[j] = top[j - n + 1] /\ j \notin DOMAIN ts
    <3> DEFINE q == j - n + 1
    <3>1. q \in 1..m /\ n + m - 1 - j = m - q /\ q >= 2
      BY <2>1, <2>2, <2>3, <2>7
    <3>2. x \in {<<Len(fs) - 1, m - q>>} \X (1..Weight(top[q]))
      BY <2>5, <2>7, <3>1
    <3>3. x \in Work(fs)
      <4>1. 1 \in DOMAIN fs /\ q \in DOMAIN fs[1]
            /\ x \in {<<Len(fs) - 1, Len(fs[1]) - q>>} \X (1..Weight(fs[1][q]))
        BY <1>2, <2>7, <3>2 DEF m, top
      <4> QED BY <4>1, WorkMember, Zenon
    <3>4. m - q # m - 1
      BY <2>2, <3>1
    <3>5. x \notin FirstWork(fs)
      BY <2>5, <3>1, <3>4 DEF FirstWork, m, top
    <3> QED BY <3>3, <3>5
  <2> QED BY <2>4, <2>6, <2>7
<1> QED BY <1>6, <1>7

LEMMA WorkPushed ==
  ASSUME NEW T, NEW fs, IsGenerators(T, fs), NEW ts \in Seq(T), NEW w \in Nat,
         \A j \in DOMAIN ts : Weight(ts[j]) <= w
  PROVE  Work(Pushed(fs, ts)) \subseteq
           (Work(fs) \ FirstWork(fs)) \cup NewWork(Len(fs), 0, Len(ts), w)
<1> DEFINE r == Pushed(fs, ts)
           top == fs[1]
<1>1. /\ r \in Seq(Seq(T)) /\ Len(r) = Len(fs) + 1
      /\ r[1] = ts
      /\ r[2] = Tail(fs[1])
      /\ \A i \in 2..Len(fs) : r[i + 1] = fs[i]
  <2>1. /\ Pushed(fs, ts) \in Seq(Seq(T))
        /\ Len(Pushed(fs, ts)) = Len(fs) + 1
        /\ Pushed(fs, ts)[1] = ts
        /\ Pushed(fs, ts)[2] = Tail(fs[1])
        /\ \A i \in 2..Len(fs) : Pushed(fs, ts)[i + 1] = fs[i]
    BY PushedFrames DEF IsGenerators
  <2> QED BY <2>1, Zenon
<1>2. Len(fs) \in Nat /\ Len(fs) >= 1 /\ DOMAIN fs = 1..Len(fs)
      /\ top \in Seq(T) /\ top # <<>> /\ top = Head(fs)
  BY DEF IsGenerators
<1>3. DOMAIN r = 1..(Len(fs) + 1)
  <2>1. DOMAIN r = 1..Len(r)
    BY <1>1, LenProperties, Zenon
  <2> QED BY <1>1, <2>1, Zenon
<1> HIDE DEF r
<1>4. SUFFICES ASSUME NEW i \in DOMAIN r, NEW j \in DOMAIN r[i],
                      NEW x \in {<<Len(r) - i, Len(r[i]) - j>>} \X (1..Weight(r[i][j]))
               PROVE  \/ x \in Work(fs) /\ x \notin FirstWork(fs)
                      \/ x \in NewWork(Len(fs), 0, Len(ts), w)
  BY WorkMember, Zenon DEF r
<1>5. PICK k \in 1..Weight(r[i][j]) : x = <<<<Len(r) - i, Len(r[i]) - j>>, k>>
  OBVIOUS
<1>6. CASE i = 1
  <2>1. j \in 1..Len(ts) /\ Len(ts) \in Nat /\ j \in DOMAIN ts /\ r[i] = ts
    BY <1>1, <1>6
  <2>2. k \in 1..w
    BY <1>5, <2>1, WeightType
  <2>3. Len(r) - i = Len(fs) /\ Len(ts) - j \in 0..(0 + Len(ts) - 1)
    BY <1>1, <1>2, <1>6, <2>1
  <2> QED BY <1>5, <2>1, <2>2, <2>3 DEF NewWork
<1>7. CASE i = 2
  <2> DEFINE m == Len(top)
             q == j + 1
  <2>1. DOMAIN top = 1..m /\ m \in Nat /\ Len(Tail(top)) = m - 1
        /\ DOMAIN Tail(top) = 1..(m - 1) /\ \A h \in 1..(m - 1) : Tail(top)[h] = top[h + 1]
    BY <1>2
  <2>2. r[i] = Tail(top) /\ j \in 1..(m - 1)
    BY <1>1, <1>7, <2>1
  <2> HIDE DEF top, m
  <2>3. q \in 1..m /\ q >= 2 /\ (m - 1) - j = m - q /\ r[i][j] = top[q]
    BY <2>1, <2>2
  <2>4. Len(r) - i = Len(fs) - 1
    BY <1>1, <1>2, <1>7
  <2>5. x = <<<<Len(fs) - 1, m - q>>, k>> /\ k \in 1..Weight(top[q])
    BY <1>5, <2>1, <2>2, <2>3, <2>4
  <2>6. x \in Work(fs)
    <3>1. 1 \in DOMAIN fs /\ q \in DOMAIN fs[1]
          /\ x \in {<<Len(fs) - 1, Len(fs[1]) - q>>} \X (1..Weight(fs[1][q]))
      BY <1>2, <2>1, <2>3, <2>5 DEF m, top
    <3> QED BY <3>1, WorkMember, Zenon
  <2>7. m - q # m - 1
    BY <2>1, <2>3
  <2>8. x \notin FirstWork(fs)
    BY <2>5, <2>7 DEF FirstWork, m, top
  <2> QED BY <2>6, <2>8
<1>8. CASE i # 1 /\ i # 2
  <2> DEFINE h == i - 1
  <2>1. h \in 2..Len(fs) /\ h \in DOMAIN fs /\ h + 1 = i /\ Len(r) - i = Len(fs) - h
        /\ Len(fs) - h # Len(fs) - 1
    <3>1. i \in 1..(Len(fs) + 1) /\ i >= 3 /\ Len(fs) \in Nat
      BY <1>2, <1>3, <1>8
    <3>2. Len(r) = Len(fs) + 1 /\ DOMAIN fs = 1..Len(fs)
      BY <1>1, <1>2
    <3>3. h \in 2..Len(fs) /\ h + 1 = i
      BY <3>1
    <3> HIDE DEF h
    <3> QED BY <3>1, <3>2, <3>3
  <2>2. r[i] = fs[h]
    BY <1>1, <2>1
  <2> HIDE DEF h
  <2>3. x \in Work(fs)
    BY <1>4, <2>1, <2>2, WorkMember, Zenon
  <2> QED BY <1>5, <2>1, <2>3 DEF FirstWork
<1> QED BY <1>6, <1>7, <1>8

\* The end of a generator ends its tasks.
LEMMA WorkPopped ==
  ASSUME NEW T, NEW fs \in Seq(Seq(T)), fs # <<>>
  PROVE  /\ Work(Tail(fs)) \subseteq Work(fs)
         /\ Head(fs) # <<>> => Work(Tail(fs)) \subseteq Work(fs) \ FirstWork(fs)
<1> DEFINE r == Tail(fs)
<1>1. /\ r \in Seq(Seq(T)) /\ Len(r) = Len(fs) - 1
      /\ Len(fs) \in Nat /\ Len(fs) >= 1
      /\ \A i \in 1..(Len(fs) - 1) : r[i] = fs[i + 1]
      /\ DOMAIN r = 1..(Len(fs) - 1) /\ DOMAIN fs = 1..Len(fs)
  OBVIOUS
<1> HIDE DEF r
<1>2. ASSUME NEW x \in Work(r)
      PROVE  x \in Work(fs) /\ x \notin FirstWork(fs)
  <2>1. PICK i \in DOMAIN r : \E j \in DOMAIN r[i] :
               x \in {<<Len(r) - i, Len(r[i]) - j>>} \X (1..Weight(r[i][j]))
    BY <1>2, WorkMember, Zenon
  <2>2. PICK j \in DOMAIN r[i] :
               x \in {<<Len(r) - i, Len(r[i]) - j>>} \X (1..Weight(r[i][j]))
    BY <2>1
  <2> DEFINE h == i + 1
  <2>3. h \in DOMAIN fs /\ Len(r) - i = Len(fs) - h /\ Len(fs) - h # Len(fs) - 1
        /\ r[i] = fs[h]
    <3>1. i \in 1..(Len(fs) - 1)
      BY <1>1, <2>1
    <3>2. r[i] = fs[i + 1]
      BY <1>1, <3>1
    <3>3. h \in DOMAIN fs
      BY <1>1, <3>1
    <3>4. Len(r) - i = Len(fs) - h /\ Len(fs) - h # Len(fs) - 1
      BY <1>1, <3>1
    <3> QED BY <3>2, <3>3, <3>4
  <2> HIDE DEF h
  <2>4. x \in Work(fs)
    BY <2>2, <2>3, WorkMember, Zenon
  <2> QED BY <2>2, <2>3, <2>4 DEF FirstWork
<1> QED BY <1>2 DEF r

\* Tasks that are dropped are ended too.
LEMMA WorkDropped ==
  ASSUME NEW T, NEW fs, IsGenerators(T, fs), NEW n \in DOMAIN Head(fs)
  PROVE  Work(Dropped(fs, n)) \subseteq Work(fs) \ FirstWork(fs)
<1> DEFINE r == Dropped(fs, n)
           top == fs[1]
<1>1. /\ Len(r) = Len(fs) /\ r \in Seq(Seq(T))
      /\ r[1] \in Seq(T)
      /\ Len(r[1]) = Len(fs[1]) - n
      /\ \A j \in 1..(Len(fs[1]) - n) : r[1][j] = fs[1][j + n]
      /\ \A i \in 2..Len(fs) : r[i] = fs[i]
      /\ Len(fs) \in Nat /\ Len(fs) >= 1 /\ DOMAIN fs = 1..Len(fs) /\ DOMAIN r = 1..Len(fs)
  <2>1. fs \in Seq(Seq(T)) /\ fs # <<>> /\ Head(fs) # <<>>
    BY DEF IsGenerators
  <2>2. /\ r \in Seq(Seq(T)) /\ Len(r) = Len(fs)
        /\ Len(r[1]) = Len(fs[1]) - n
        /\ \A j \in 1..(Len(fs[1]) - n) : r[1][j] = fs[1][j + n]
        /\ \A i \in 2..Len(fs) : r[i] = fs[i]
    BY <2>1, DroppedFrames
  <2> HIDE DEF r
  <2>3. Len(fs) \in Nat /\ Len(fs) >= 1 /\ DOMAIN fs = 1..Len(fs)
    BY <2>1
  <2>4. DOMAIN r = 1..Len(fs) /\ r[1] \in Seq(T)
    BY <2>2, <2>3
  <2> QED BY <2>2, <2>3, <2>4
<1> HIDE DEF r
<1>2. top \in Seq(T) /\ Len(top) \in Nat /\ DOMAIN top = 1..Len(top) /\ n \in 1..Len(top)
      /\ Head(fs) = top
  BY DEF IsGenerators
<1>3. SUFFICES ASSUME NEW i \in DOMAIN r, NEW j \in DOMAIN r[i],
                      NEW x \in {<<Len(r) - i, Len(r[i]) - j>>} \X (1..Weight(r[i][j]))
               PROVE  x \in Work(fs) /\ x \notin FirstWork(fs)
  BY WorkMember, Zenon DEF r
<1>4. PICK k \in 1..Weight(r[i][j]) : x = <<<<Len(r) - i, Len(r[i]) - j>>, k>>
  OBVIOUS
<1>5. CASE i # 1
  <2>1. i \in 2..Len(fs) /\ i \in DOMAIN fs /\ Len(fs) - i # Len(fs) - 1
    BY <1>1, <1>5
  <2>2. r[i] = fs[i]
    BY <1>1, <2>1
  <2>3. x \in Work(fs)
    BY <1>1, <1>3, <2>1, <2>2, WorkMember, Zenon
  <2> QED BY <1>1, <1>4, <2>1, <2>3 DEF FirstWork
<1>6. CASE i = 1
  <2> DEFINE m == Len(top)
  <2>1. j \in 1..(m - n)
    <3>1. DOMAIN r[1] = 1..Len(r[1])
      BY <1>1
    <3> QED BY <1>1, <1>6, <3>1
  <2> HIDE DEF m
  <2>2. m \in Nat /\ n \in 1..m /\ DOMAIN top = 1..m
    BY <1>2 DEF m
  <2>3. PICK q \in Nat : q = j + n /\ q \in 1..m /\ (m - n) - j = m - q /\ m - q # m - 1
    <3>1. j \in Nat /\ j >= 1 /\ n \in Nat /\ n >= 1 /\ j <= m - n
      BY <2>1, <2>2
    <3> QED BY <2>2, <3>1
  <2>4. r[i][j] = top[q] /\ Len(r[i]) = m - n
    <3>1. Len(r[1]) = m - n /\ \A h \in 1..(m - n) : r[1][h] = top[h + n]
      BY <1>1, Zenon DEF m
    <3>2. r[1][j] = top[j + n]
      BY <2>1, <3>1
    <3> QED BY <1>6, <2>3, <3>1, <3>2, Zenon
  <2>5. x = <<<<Len(fs) - 1, m - q>>, k>> /\ k \in 1..Weight(top[q])
    BY <1>1, <1>4, <1>6, <2>3, <2>4
  <2>6. x \in Work(fs)
    <3>1. 1 \in DOMAIN fs /\ q \in DOMAIN fs[1]
          /\ x \in {<<Len(fs) - 1, Len(fs[1]) - q>>} \X (1..Weight(fs[1][q]))
      BY <1>1, <2>2, <2>3, <2>5 DEF m
    <3> HIDE DEF top
    <3> QED BY <3>1, WorkMember, Zenon
  <2>7. x \notin FirstWork(fs)
    BY <2>3, <2>5 DEF FirstWork, m
  <2> QED BY <2>6, <2>7
<1> QED BY <1>5, <1>6

\* The tasks that come weigh what the work grows by, at most.
LEMMA CountWork ==
  ASSUME NEW W, IsFiniteSet(W), NEW G, IsFiniteSet(G), G \subseteq W,
         NEW N, IsFiniteSet(N), NEW V, V \subseteq (W \ G) \cup N
  PROVE  /\ IsFiniteSet(V)
         /\ Cardinality(V) + Cardinality(G) <= Cardinality(W) + Cardinality(N)
<1>1. IsFiniteSet(W \ G) /\ Cardinality(W \ G) = Cardinality(W) - Cardinality(W \cap G)
  BY FS_Difference
<1>2. W \cap G = G
  OBVIOUS
<1> DEFINE R == W \ G
<1>3. IsFiniteSet(R)
  BY <1>1
<1> HIDE DEF R
<1>4. /\ IsFiniteSet(R \cup N)
      /\ Cardinality(R \cup N) = Cardinality(R) + Cardinality(N) - Cardinality(R \cap N)
      /\ IsFiniteSet(R \cap N)
  BY <1>3, FS_Union, FS_Intersection
<1>5. V \in SUBSET (R \cup N)
  BY DEF R
<1>6. IsFiniteSet(V) /\ Cardinality(V) <= Cardinality(R \cup N)
  BY <1>4, <1>5, FS_Subset
<1>7. /\ Cardinality(V) \in Nat /\ Cardinality(R \cup N) \in Nat
      /\ Cardinality(R \cap N) \in Nat /\ Cardinality(R) \in Nat
      /\ Cardinality(N) \in Nat /\ Cardinality(W) \in Nat /\ Cardinality(G) \in Nat
  BY <1>3, <1>4, <1>6, FS_CardinalityType
<1>8. Cardinality(R) = Cardinality(W) - Cardinality(G)
  BY <1>1, <1>2 DEF R
<1>9. Cardinality(V) + Cardinality(G) <= Cardinality(W) + Cardinality(N)
  BY <1>4, <1>6, <1>7, <1>8
<1> QED BY <1>6, <1>9

\* How many tasks there are for the members of an element, or for an array.
LEMMA MembersFew ==
  ASSUME TypeOK, NEW l \in Loc, ~Refs
  PROVE  /\ TasksFor(Members(l)) \in Seq(Task)
         /\ Len(TasksFor(Members(l))) <= NumFields
         /\ \A j \in DOMAIN TasksFor(Members(l)) : Weight(TasksFor(Members(l))[j]) <= 1
<1>1. LinksTo(Loc) /\ NumFields \in Nat /\ NumFields >= 1
  <2>1. LinksTo(Loc)
    BY ValueTypes, Zenon DEF TypeOK, LinksTo
  <2> QED BY <2>1, SizeAssumption
<1> DEFINE vs == Members(l)
           ts == TasksFor(vs)
<1>2. \E n \in Nat : vs \in [1..n -> ValuesTo(Loc)] /\ n <= NumFields
  <2>1. CASE l \in Elem
    <3>1. vs = link[l] /\ Field = 1..NumFields /\ {1} = 1..1
      BY <2>1 DEF Members, Elem, Field
    <3>2. CASE link[l] \in [Field -> ValuesTo(Loc)]
      <4>1. vs \in [1..NumFields -> ValuesTo(Loc)]
        BY <3>1, <3>2, Zenon
      <4> QED BY <1>1, <4>1
    <3>3. CASE link[l] \in [{1} -> ValuesTo(Loc)]
      <4>1. vs \in [1..1 -> ValuesTo(Loc)]
        BY <3>1, <3>3, Zenon
      <4> QED BY <1>1, <4>1
    <3> QED BY <1>1, <2>1, <3>2, <3>3 DEF LinksTo
  <2>2. CASE l \notin Elem
    <3>1. vs \in [1..0 -> ValuesTo(Loc)]
      BY <2>2 DEF Members, Elem
    <3> QED BY <1>1, <3>1
  <2> QED BY <2>1, <2>2
<1>3. PICK n \in Nat : vs \in [1..n -> ValuesTo(Loc)] /\ n <= NumFields
  BY <1>2
<1> HIDE DEF vs
<1>4. ts \in Seq(TasksOn(Loc)) /\ DOMAIN ts = 1..n
  BY <1>3, TasksForValues
<1>5. ~Refs => \A j \in DOMAIN ts : ts[j].do # "format"
  BY <1>1, MembersTasks DEF vs
<1> HIDE DEF ts
<1>6. Len(ts) = n
  BY <1>3, <1>4
<1>7. \A j \in DOMAIN ts : Weight(ts[j]) <= 1
  BY <1>5, WeightType
<1> QED BY <1>3, <1>4, <1>6, <1>7, ValueTypes DEF ts, vs

LEMMA ProductGrows ==
  ASSUME NEW u \in Nat, NEW v \in Nat, NEW m \in Nat, NEW n \in Nat, v >= u + m
  PROVE  /\ u * n \in Nat /\ v * n \in Nat /\ m * n \in Nat
         /\ v * n >= u * n + m * n
<1>1. PICK k \in Nat : v = u + m + k
  <2>1. v - (u + m) \in Nat /\ v = u + m + (v - (u + m))
    OBVIOUS
  <2> QED BY <2>1
<1>2. (u + m + k) * n = u * n + m * n + k * n
  OBVIOUS
<1>3. k * n \in Nat /\ u * n \in Nat /\ m * n \in Nat
  OBVIOUS
<1> QED BY <1>1, <1>2, <1>3

\* The tasks for an area weigh what its elements are allowed, at most.
LEMMA ArrayTasksWeight ==
  ASSUME TypeOK, NEW a \in Area, NEW l \in Loc, l[1] = a, ~Refs
  PROVE  \E w \in Nat : /\ ArrayTasks(l) \in Seq(Task)
                        /\ \A j \in DOMAIN ArrayTasks(l) : Weight(ArrayTasks(l)[j]) <= w
                        /\ Len(ArrayTasks(l)) * w <= MaxElems * (1 + NumFields)
<1>1. LinksTo(Loc) /\ Elem \subseteq Loc
  BY ValueTypes, Zenon DEF TypeOK, LinksTo, Elem
<1>2. ArrayTasks(l) \in Seq(Task)
  BY <1>1, ArrayTasksFacts, ValueTypes
<1>3. len[a] \in Nat /\ len[a] <= MaxElems /\ MaxElems \in Nat /\ MaxElems >= 1
      /\ NumFields \in Nat /\ NumFields >= 1
  BY SizeAssumption DEF TypeOK
<1>4. PICK k \in Nat : k = 1 + NumFields /\ k >= 1 + 1
  BY <1>3
<1>5. \A n \in Nat : \A ts \in Seq(Task) : DOMAIN ts = 1..n => Len(ts) = n
  OBVIOUS
<1>6. CASE kind[a] = "struct"
  <2>1. DOMAIN ArrayTasks(l) = 1..len[a]
    BY <1>6 DEF ArrayTasks
  <2>2. Len(ArrayTasks(l)) = len[a]
    BY <1>2, <1>3, <1>5, <2>1, Zenon
  <2>3. PICK n \in Nat : n = len[a] /\ MaxElems >= n + 0 /\ 0 \in Nat
    BY <1>3
  <2>4. n * k \in Nat /\ MaxElems * k \in Nat /\ 0 * k \in Nat
        /\ MaxElems * k >= n * k + 0 * k
    BY <1>3, <2>3, ProductGrows
  <2>5. n * k <= MaxElems * k
    BY <2>4
  <2>6. \A t : Weight(t) <= k
    BY <1>4, WeightType
  <2>7. Len(ArrayTasks(l)) * k <= MaxElems * (1 + NumFields)
    BY <1>4, <2>2, <2>3, <2>5, Zenon
  <2> QED BY <1>2, <2>6, <2>7
<1>7. CASE kind[a] # "struct"
  <2> DEFINE ts == PointerTasks(a)
             loop == ArrayTasks(l)
  <2>1. loop = ts \o <<Leave(l)>>
    BY <1>7 DEF ArrayTasks, PointerTasks
  <2>2. PICK S : S = Loc
    OBVIOUS
  <2>3. /\ ts \in Seq(TasksOn(S)) /\ l \in S
        /\ DOMAIN ts = 1..len[a] /\ \A i \in 1..len[a] : ts[i].do # "format"
    BY <1>1, <2>2, PointerTasksFacts
  <2>3a. ts \in Seq(TasksOn(S)) /\ l \in S
    BY <2>3
  <2> HIDE DEF ts, loop
  <2>4. Len(ts) = len[a]
    <3>1. TasksOn(S) = Task
      BY <2>2, ValueTypes
    <3> QED BY <1>3, <1>5, <2>3, <3>1, Zenon
  <2>5. /\ Len(loop) = Len(ts) + 1
        /\ \A i \in DOMAIN loop :
             (i \in DOMAIN ts /\ loop[i] = ts[i]) \/ loop[i] = Leave(l)
        /\ Leave(l).do = "leave"
    BY <2>1, <2>3a, LoopTasks
  <2>6. \A i \in DOMAIN loop : loop[i].do # "format"
    BY <2>3, <2>5
  <2>7. \A j \in DOMAIN loop : Weight(loop[j]) <= 1
    BY <2>6, WeightType
  <2>8. k * MaxElems \in Nat /\ 1 * MaxElems \in Nat
        /\ k * MaxElems >= 1 * MaxElems + 1 * MaxElems
    BY <1>3, <1>4, ProductGrows
  <2>9. k * MaxElems = MaxElems * k /\ 1 * MaxElems = MaxElems
    BY <1>3
  <2>10. PICK p \in Nat : p = MaxElems * k /\ p >= MaxElems + MaxElems
    BY <2>8, <2>9
  <2>11. Len(loop) * 1 <= p
    BY <1>3, <2>4, <2>5, <2>10
  <2>12. Len(loop) * 1 <= MaxElems * (1 + NumFields)
    BY <1>4, <2>10, <2>11, Zenon
  <2> QED BY <1>2, <2>7, <2>12 DEF loop
<1> QED BY <1>6, <1>7

LEMMA SingleTasksWeight ==
  ASSUME TypeOK, NEW l \in Loc, ~Refs
  PROVE  \E w \in Nat : /\ SingleTasks(l) \in Seq(Task)
                        /\ \A j \in DOMAIN SingleTasks(l) : Weight(SingleTasks(l)[j]) <= w
                        /\ Len(SingleTasks(l)) * w <= MaxElems * (1 + NumFields)
<1>1. NumFields \in Nat /\ NumFields >= 1 /\ MaxElems \in Nat /\ MaxElems >= 1 + 0
      /\ 0 \in Nat /\ 1 \in Nat /\ LinksTo(Loc)
  <2>1. LinksTo(Loc)
    BY ValueTypes, Zenon DEF TypeOK, LinksTo
  <2> QED BY <2>1, SizeAssumption
<1>2. PICK k \in Nat : k = 1 + NumFields
  BY <1>1
<1>3. 1 * k \in Nat /\ MaxElems * k \in Nat /\ MaxElems * k >= 1 * k + 0 * k
  BY <1>1, ProductGrows
<1>4. PICK p \in Nat : p = MaxElems * k /\ p >= k
  BY <1>3
<1>5. SingleTasks(l) \in Seq(Task)
  BY <1>1, SingleTasksFacts, ValueTypes
<1>6. CASE kind[l[1]] = "struct"
  <2>1. SingleTasks(l) = <<Format(l)>>
    BY <1>6 DEF SingleTasks
  <2>2. Len(SingleTasks(l)) = 1
    BY <2>1
  <2>3. Len(SingleTasks(l)) * k <= p
    BY <1>4, <2>2
  <2>4. \A t : Weight(t) <= k
    BY <1>2, WeightType
  <2>5. Len(SingleTasks(l)) * k <= MaxElems * (1 + NumFields)
    BY <1>2, <1>4, <2>3, Zenon
  <2> QED BY <1>5, <2>4, <2>5
<1>7. CASE kind[l[1]] # "struct"
  <2> DEFINE ts == TasksFor(Members(l))
             loop == SingleTasks(l)
  <2>1. loop = ts \o <<Leave(l)>>
    BY <1>7 DEF SingleTasks
  <2>2. PICK S : S = Loc
    OBVIOUS
  <2>3. /\ ts \in Seq(TasksOn(S)) /\ l \in S /\ Len(ts) \in Nat /\ Len(ts) <= NumFields
        /\ \A j \in DOMAIN ts : Weight(ts[j]) <= 1
    <3>1. TasksOn(S) = Task
      BY <2>2, ValueTypes
    <3>2. /\ ts \in Seq(Task) /\ Len(ts) <= NumFields
          /\ \A j \in DOMAIN ts : Weight(ts[j]) <= 1
      BY MembersFew
    <3> HIDE DEF ts
    <3> QED BY <2>2, <3>1, <3>2
  <2> HIDE DEF ts, loop
  <2>4. /\ Len(loop) = Len(ts) + 1
        /\ \A i \in DOMAIN loop :
             (i \in DOMAIN ts /\ loop[i] = ts[i]) \/ loop[i] = Leave(l)
        /\ Leave(l).do = "leave"
    BY <2>1, <2>3, LoopTasks
  <2>5. Weight(Leave(l)) <= 1
    BY <2>4, WeightType
  <2>6. \A j \in DOMAIN loop : Weight(loop[j]) <= 1
    BY <2>3, <2>4, <2>5
  <2>7. Len(loop) * 1 <= p
    BY <1>1, <1>2, <1>4, <2>3, <2>4
  <2>8. Len(loop) * 1 <= MaxElems * (1 + NumFields)
    BY <1>2, <1>4, <2>7, Zenon
  <2> QED BY <1>5, <2>6, <2>8 DEF loop
<1> QED BY <1>6, <1>7

----------------------------------------------------------------------------

\* The areas that were entered in address_dict.
Entered == {a \in Area : Seen(a)}

\* The variables that were printed, and room for every element of the areas
\* that were entered.
Units == (var - 1) + MaxElems * Cardinality(Entered)

Allowance == (var - 1) + Units * (1 + NumFields)

\* The lines of the dump, and those that are to come, have been allowed for.
LengthInv ==
  /\ IsFiniteSet(Work(frames))
  /\ Len(out) + Cardinality(Work(frames)) <= Allowance

LEMMA EnteredFacts ==
  ASSUME IsFiniteSet(Area)
  PROVE  /\ IsFiniteSet(Entered) /\ Cardinality(Entered) \in Nat
         /\ Cardinality(Area) \in Nat /\ Cardinality(Entered) <= Cardinality(Area)
<1>1. Entered \in SUBSET Area
  BY DEF Entered
<1> QED BY <1>1, FS_Subset, FS_CardinalityType

LEMMA UnitsType ==
  ASSUME IsFiniteSet(Area), TypeOK, TypeOK'
  PROVE  Units \in Nat /\ Units' \in Nat
<1>1. Cardinality(Entered) \in Nat /\ MaxElems \in Nat /\ var - 1 \in Nat /\ var' - 1 \in Nat
  <2>1. Cardinality(Entered) \in Nat
    BY EnteredFacts
  <2>2. var \in 1..(NumVars + 1) /\ var' \in 1..(NumVars + 1) /\ NumVars \in Nat /\ MaxElems \in Nat
    BY SizeAssumption DEF TypeOK
  <2> DEFINE v == var'
  <2>3. v \in 1..(NumVars + 1)
    BY <2>2
  <2> HIDE DEF v
  <2>4. v - 1 \in Nat /\ var - 1 \in Nat
    BY <2>2, <2>3
  <2> QED BY <2>1, <2>2, <2>4 DEF v
<1>2. Cardinality(Entered') \in Nat
  <2>1. Entered' \in SUBSET Area
    BY DEF Entered
  <2> QED BY <2>1, FS_Subset, FS_CardinalityType
<1>3. \A k \in Nat : MaxElems * k \in Nat
  BY <1>1
<1>4. MaxElems * Cardinality(Entered) \in Nat /\ MaxElems * Cardinality(Entered') \in Nat
  BY <1>1, <1>2, <1>3
<1> QED BY <1>1, <1>4 DEF Units

\* What a step adds to the units.
LEMMA UnitsGrow ==
  ASSUME IsFiniteSet(Area), TypeOK, TypeOK', dict \subseteq dict', var' >= var
  PROVE  /\ Units' >= Units + (var' - var)
         /\ \A a \in Area : ~Seen(a) /\ Seen(a)' => Units' >= Units + MaxElems
<1>1. IsFiniteSet(Entered) /\ Cardinality(Entered) \in Nat
  BY EnteredFacts
<1>2. Entered' \in SUBSET Area /\ Entered \subseteq Entered'
  BY DEF Entered, Seen
<1>3. IsFiniteSet(Entered') /\ Cardinality(Entered') \in Nat
  BY <1>2, FS_Subset, FS_CardinalityType
<1>4. Cardinality(Entered) <= Cardinality(Entered')
  <2>1. Entered \in SUBSET (Entered')
    BY <1>2
  <2> QED BY <1>3, <2>1, FS_Subset
<1>5. MaxElems \in Nat /\ var \in Nat /\ var' \in Nat
  BY SizeAssumption DEF TypeOK
<1>6. \A c, d, e \in Nat : d >= c + e => MaxElems * d >= MaxElems * c + MaxElems * e
  <2> TAKE c, d, e \in Nat
  <2> HAVE d >= c + e
  <2>1. /\ d * MaxElems \in Nat /\ c * MaxElems \in Nat /\ e * MaxElems \in Nat
        /\ d * MaxElems >= c * MaxElems + e * MaxElems
    BY <1>5, ProductGrows
  <2>2. /\ d * MaxElems = MaxElems * d /\ c * MaxElems = MaxElems * c
        /\ e * MaxElems = MaxElems * e
    BY <1>5
  <2> QED BY <2>1, <2>2
<1>7. \A c \in Nat : MaxElems * c \in Nat /\ MaxElems * 0 = 0 /\ MaxElems * 1 = MaxElems
  BY <1>5
<1>8. Units' >= Units + (var' - var)
  <2> DEFINE c == Cardinality(Entered)
             d == Cardinality(Entered')
  <2>1. c \in Nat /\ d \in Nat /\ d >= c + 0 /\ 0 \in Nat
    BY <1>1, <1>3, <1>4
  <2>2. Units = (var - 1) + MaxElems * c /\ Units' = (var' - 1) + MaxElems * d
    BY DEF Units
  <2> HIDE DEF c, d
  <2>3. MaxElems * d >= MaxElems * c + MaxElems * 0
    BY <1>6, <2>1
  <2>4. PICK p \in Nat, q \in Nat : p = MaxElems * c /\ q = MaxElems * d
    BY <1>7, <2>1
  <2>5. q >= p
    BY <1>7, <2>1, <2>3, <2>4
  <2>6. Units = (var - 1) + p /\ Units' = (var' - 1) + q
    BY <2>2, <2>4
  <2>7. (var' - 1) + q >= ((var - 1) + p) + (var' - var)
    <3> DEFINE v == var'
    <3>1. v \in Nat
      BY <1>5
    <3> HIDE DEF v
    <3>2. (v - 1) + q >= ((var - 1) + p) + (v - var)
      BY <1>5, <2>5, <3>1
    <3> QED BY <3>2 DEF v
  <2> QED BY <2>6, <2>7
<1>9. ASSUME NEW a \in Area, ~Seen(a), Seen(a)'
      PROVE  Units' >= Units + MaxElems
  <2> DEFINE c == Cardinality(Entered)
             d == Cardinality(Entered')
  <2>1. a \notin Entered /\ a \in Entered'
    BY <1>9 DEF Entered
  <2>2. Entered \cup {a} \in SUBSET (Entered')
    BY <1>2, <2>1
  <2>3. Cardinality(Entered \cup {a}) = c + 1
    BY <1>1, <2>1, FS_AddElement
  <2>4. c \in Nat /\ d \in Nat /\ d >= c + 1 /\ 1 \in Nat
    BY <1>1, <1>3, <2>2, <2>3, FS_Subset
  <2>5. Units = (var - 1) + MaxElems * c /\ Units' = (var' - 1) + MaxElems * d
    BY DEF Units
  <2> HIDE DEF c, d
  <2>6. MaxElems * d >= MaxElems * c + MaxElems * 1
    BY <1>6, <2>4
  <2>7. PICK p \in Nat, q \in Nat : p = MaxElems * c /\ q = MaxElems * d
    BY <1>7, <2>4
  <2>8. q >= p + MaxElems
    BY <1>7, <2>4, <2>6, <2>7
  <2>9. Units = (var - 1) + p /\ Units' = (var' - 1) + q
    BY <2>5, <2>7
  <2>10. (var' - 1) + q >= ((var - 1) + p) + MaxElems
    <3> DEFINE v == var'
    <3>1. v \in Nat /\ v >= var
      BY <1>5
    <3> HIDE DEF v
    <3>2. (v - 1) + q >= ((var - 1) + p) + MaxElems
      BY <1>5, <2>8, <3>1
    <3> QED BY <3>2 DEF v
  <2> QED BY <2>9, <2>10
<1> QED BY <1>8, <1>9

\* A task adds a line and leaves others; the units pay for what it does not
\* pay for itself.
LEMMA LengthTask ==
  ASSUME IsFiniteSet(Area), TypeOK, TypeOK', LengthInv, HasTask,
         NEW N, IsFiniteSet(N),
         Work(frames') \subseteq (Work(frames) \ FirstWork(frames)) \cup N,
         Len(out') <= Len(out) + 1, var' >= var,
         NEW m \in Nat, Units' >= Units + m,
         Cardinality(N) + 1 <= Weight(Task1) + m * (1 + NumFields)
  PROVE  LengthInv'
<1>1. FramesOn(Loc)
  BY ValueTypes DEF TypeOK, FramesOn
<1>2. IsGenerators(TasksOn(Loc), frames) /\ Task1 = Head(Head(frames))
  BY <1>1, TopFacts DEF Task1, Top
<1>3. /\ FirstWork(frames) \subseteq Work(frames) /\ IsFiniteSet(FirstWork(frames))
      /\ Cardinality(FirstWork(frames)) = Weight(Task1)
  BY <1>2, FirstWorkFacts
<1> DEFINE W == Work(frames)
           V == Work(frames')
           w == Weight(Task1)
<1>4. /\ IsFiniteSet(V)
      /\ Cardinality(V) + w <= Cardinality(W) + Cardinality(N)
  <2> DEFINE G == FirstWork(frames)
  <2>1. IsFiniteSet(W) /\ IsFiniteSet(G) /\ G \subseteq W /\ V \subseteq (W \ G) \cup N
        /\ Cardinality(G) = w
    BY <1>3 DEF LengthInv
  <2> HIDE DEF W, V, G, w
  <2>2. IsFiniteSet(V) /\ Cardinality(V) + Cardinality(G) <= Cardinality(W) + Cardinality(N)
    BY <2>1, CountWork
  <2> QED BY <2>1, <2>2
<1>5. /\ Cardinality(V) \in Nat /\ Cardinality(W) \in Nat /\ Cardinality(N) \in Nat
      /\ w \in Nat /\ Len(out) \in Nat /\ Len(out') \in Nat
  <2>1. IsFiniteSet(W)
    BY DEF LengthInv
  <2>2. Len(out) \in Nat /\ Len(out') \in Nat
    BY DEF TypeOK
  <2> HIDE DEF W, V
  <2> QED BY <1>4, <2>1, <2>2, FS_CardinalityType, WeightType
<1>6. Units \in Nat /\ Units' \in Nat
  BY UnitsType
<1>7. PICK u \in Nat, v \in Nat, n \in Nat : u = Units /\ v = Units' /\ n = 1 + NumFields
  <2>1. 1 + NumFields \in Nat
    BY SizeAssumption
  <2> QED BY <1>6, <2>1
<1>8. /\ u * n \in Nat /\ v * n \in Nat /\ m * n \in Nat
      /\ v * n >= u * n + m * n
  BY <1>7, ProductGrows
<1>9. Allowance = (var - 1) + u * n /\ Allowance' = (var' - 1) + v * n
  BY <1>7 DEF Allowance
<1>9a. PICK vr \in Nat, nx \in Nat : vr = var /\ nx = var' /\ nx >= vr
  BY SizeAssumption DEF TypeOK
<1>10. Len(out) + Cardinality(W) <= (vr - 1) + u * n /\ Cardinality(N) + 1 <= w + m * n
  BY <1>7, <1>9, <1>9a DEF LengthInv
<1> HIDE DEF W, V, w
<1>11. Len(out') + Cardinality(V) <= (nx - 1) + v * n
  <2>1. PICK un \in Nat, vn \in Nat, mn \in Nat :
             un = u * n /\ vn = v * n /\ mn = m * n
    BY <1>8
  <2>2. vn >= un + mn /\ Len(out) + Cardinality(W) <= (vr - 1) + un
        /\ Cardinality(N) + 1 <= w + mn
    BY <1>8, <1>10, <2>1
  <2>3. PICK l0 \in Nat, l1 \in Nat, cV \in Nat, cW \in Nat, cN \in Nat :
          /\ l0 = Len(out) /\ l1 = Len(out') /\ l1 <= l0 + 1
          /\ cV = Cardinality(V) /\ cW = Cardinality(W) /\ cN = Cardinality(N)
    BY <1>5
  <2>4. cV + w <= cW + cN /\ w \in Nat
    BY <1>4, <1>5, <2>3
  <2>5. l0 + cW <= (vr - 1) + un /\ cN + 1 <= w + mn
    BY <2>2, <2>3
  <2>6. l1 + cV <= (nx - 1) + vn
    <3>1. PICK k \in Nat : k = w
      BY <2>4
    <3>2. un \in Nat /\ vn \in Nat /\ mn \in Nat /\ vr \in Nat /\ nx \in Nat /\ nx >= vr
      BY <1>9a, <2>1
    <3>3. /\ l0 \in Nat /\ l1 \in Nat /\ cV \in Nat /\ cW \in Nat /\ cN \in Nat
          /\ l1 <= l0 + 1
      BY <2>3
    <3>4. cV + k <= cW + cN /\ cN + 1 <= k + mn /\ vn >= un + mn
      BY <2>2, <2>4, <2>5, <3>1
    <3>5. l0 + cW <= (vr - 1) + un
      BY <2>5
    <3> QED BY <3>1, <3>2, <3>3, <3>4, <3>5
  <2>7. Len(out') + Cardinality(V) <= (nx - 1) + vn
    BY <2>3, <2>6
  <2> QED BY <2>1, <2>7
<1> QED BY <1>4, <1>9, <1>9a, <1>11 DEF LengthInv, V

LEMMA LengthReplace ==
  ASSUME IsFiniteSet(Area), TypeOK, TypeOK', LengthInv, HasTask,
         NEW ts \in Seq(Task), ReplaceBy(ts),
         NEW w \in Nat, \A j \in DOMAIN ts : Weight(ts[j]) <= w,
         Len(out') <= Len(out) + 1, var' >= var,
         NEW m \in Nat, Units' >= Units + m,
         Len(ts) * w + 1 <= Weight(Task1) + m * (1 + NumFields)
  PROVE  LengthInv'
<1>1. FramesOn(Loc)
  BY ValueTypes DEF TypeOK, FramesOn
<1>2. IsGenerators(Task, frames) /\ frames' = Replaced(frames, ts)
  BY <1>1, TopFacts, ValueTypes
<1> DEFINE N == NewWork(Len(frames) - 1, Len(frames[1]) - 1, Len(ts), w)
<1>3. Work(frames') \subseteq (Work(frames) \ FirstWork(frames)) \cup N
  BY <1>2, WorkReplaced
<1>4. Len(frames[1]) - 1 \in Int /\ Len(ts) \in Nat
  BY <1>2 DEF IsGenerators
<1>5. IsFiniteSet(N) /\ Cardinality(N) = Len(ts) * w
  BY <1>4, NewWorkFacts
<1> HIDE DEF N
<1> QED BY <1>3, <1>5, LengthTask

LEMMA LengthNext ==
  ASSUME IsFiniteSet(Area), ~Refs, TypeOK, FilesInv, LengthInv, [Next]_vars
  PROVE  LengthInv'
<1>1. TypeOK' /\ FramesOn(Loc) /\ LinksTo(Loc) /\ frames \in Seq(Seq(Task))
      /\ out \in Seq(Item)
  <2>1. TypeOK'
    BY TypeNext
  <2>2. FramesOn(Loc) /\ LinksTo(Loc) /\ frames \in Seq(Seq(Task)) /\ out \in Seq(Item)
    BY ValueTypes, Zenon DEF TypeOK, FramesOn, LinksTo
  <2> QED BY <2>1, <2>2
<1>2. \A x : Len(Append(out, x)) = Len(out) + 1
  BY <1>1
<1>3. Len(out) \in Nat /\ Len(out) <= Len(out) + 1 /\ Units \in Nat /\ Units' \in Nat
  BY <1>1, UnitsType
<1>3a. Allowance \in Nat /\ Allowance' \in Nat
  <2>0. var - 1 \in Nat /\ var' - 1 \in Nat
    <3> DEFINE w == var'
    <3>1. var \in 1..(NumVars + 1) /\ w \in 1..(NumVars + 1) /\ NumVars \in Nat
      BY <1>1, SizeAssumption DEF TypeOK
    <3> HIDE DEF w
    <3>2. var - 1 \in Nat /\ w - 1 \in Nat
      BY <3>1
    <3> QED BY <3>2 DEF w
  <2>1. PICK u \in Nat, v \in Nat, vr \in Nat, nx \in Nat, k \in Nat :
          /\ u = Units /\ v = Units' /\ vr = var - 1 /\ nx = var' - 1 /\ k = 1 + NumFields
    <3>1. 1 + NumFields \in Nat
      BY SizeAssumption
    <3> QED BY <1>3, <2>0, <3>1
  <2>2. Allowance = vr + u * k /\ Allowance' = nx + v * k
    BY <2>1 DEF Allowance
  <2>3. vr + u * k \in Nat /\ nx + v * k \in Nat
    <3>1. u * k \in Nat /\ v * k \in Nat
      BY <2>1
    <3> QED BY <3>1
  <2> QED BY <2>2, <2>3
<1>3b. var' = var => var' >= var
  <2>1. var >= var
    BY DEF TypeOK
  <2> QED BY <2>1
<1>4. dict \subseteq dict' /\ (var' = var \/ var' >= var) => Units' >= Units + 0
  <2> SUFFICES ASSUME dict \subseteq dict', var' = var \/ var' >= var
               PROVE  Units' >= Units + 0
    OBVIOUS
  <2>0. var' >= var
    <3>1. var >= var
      BY DEF TypeOK
    <3> QED BY <3>1
  <2>1. Units' >= Units + (var' - var)
    BY <1>1, <2>0, UnitsGrow
  <2>2. var \in Nat /\ var' \in Nat
    BY <1>1, SizeAssumption DEF TypeOK
  <2> DEFINE v == var'
             u == Units
             w == Units'
  <2>3. w >= u + (v - var) /\ v >= var /\ v \in Nat /\ u \in Nat /\ w \in Nat
    BY <1>3, <2>0, <2>1, <2>2
  <2> HIDE DEF u, v, w
  <2>4. w >= u + 0
    BY <2>2, <2>3
  <2> QED BY <2>4 DEF u, w
<1>5. Work(<<>>) = {} /\ IsFiniteSet({}) /\ Cardinality({}) = 0
  BY FS_EmptySet DEF Work
<1>6. NumFields \in Nat /\ NumFields >= 1 /\ MaxElems \in Nat /\ MaxElems >= 1
  BY SizeAssumption
<1>7. CASE NewDump
  <2>1. frames' = <<>> /\ out' = <<>>
    BY <1>7 DEF NewDump, Finished, FilesInv
  <2>2. Len(out') = 0
    BY <2>1
  <2>3. Allowance' \in Nat
    BY <1>3a
  <2> DEFINE al == Allowance'
  <2>4. 0 + 0 <= al
    <3>1. al \in Nat
      BY <2>3
    <3> HIDE DEF al
    <3> QED BY <3>1
  <2> QED BY <1>5, <2>1, <2>2, <2>4 DEF LengthInv
<1>8. CASE PrintVariable \/ VariableInvalid \/ TargetInvalid
  <2>1. frames = <<>> /\ var' = var + 1 /\ dict' = dict
    <3>1. CASE PrintVariable
      BY <3>1, PrintFacts
    <3> QED BY <1>8, <3>1 DEF VariableInvalid, TargetInvalid
  <2>2. \/ \E t : frames' = << <<t>> >> /\ Len(out') <= Len(out) + 1
        \/ frames' = <<>> /\ Len(out') <= Len(out) + 2
    <3>1. CASE PrintVariable
      <4>1. /\ frames' = <<>> \/ \E l : frames' = << <<Format(l)>> >>
            /\ out' = out \/ out' = Append(out, Line("variable", <<var, 1>>))
        BY <3>1, PrintFacts
      <4>2. Len(out') <= Len(out) + 1
        BY <1>2, <1>3, <4>1
      <4>3. Len(out') <= Len(out) + 2
        BY <1>2, <1>3, <4>1
      <4> QED BY <4>1, <4>2, <4>3
    <3>2. CASE VariableInvalid
      <4>1. frames' = <<>> /\ \E x : out' = Append(out, x)
        BY <2>1, <3>2 DEF VariableInvalid
      <4>2. Len(out') = Len(out) + 1
        BY <1>2, <4>1
      <4> QED BY <1>3, <4>1, <4>2
    <3>3. CASE TargetInvalid
      <4>1. frames' = <<>> /\ \E x, y : out' = Append(Append(out, x), y)
        BY <2>1, <3>3 DEF TargetInvalid
      <4>2. \A x, y : Len(Append(Append(out, x), y)) = Len(out) + 2
        BY <1>1
      <4>3. Len(out') = Len(out) + 2
        BY <4>1, <4>2
      <4> QED BY <1>3, <4>1, <4>3
    <3> QED BY <1>8, <3>1, <3>2, <3>3
  <2>3. /\ IsFiniteSet(Work(frames')) /\ Cardinality(Work(frames')) \in Nat
        /\ Len(out') + Cardinality(Work(frames')) <= Len(out) + 1 + (1 + NumFields)
    <3>1. ASSUME NEW t, frames' = << <<t>> >>
          PROVE  IsFiniteSet(Work(frames'))
                 /\ Cardinality(Work(frames')) <= 1 + NumFields
      <4> DEFINE fs == << <<t>> >>
                 T == {t}
      <4>1. IsGenerators(T, fs) /\ Head(Head(fs)) = t /\ Len(fs) = 1 /\ DOMAIN fs = {1}
            /\ fs[1] = <<t>> /\ DOMAIN <<t>> = {1} /\ <<t>>[1] = t
        BY DEF IsGenerators
      <4> HIDE DEF T, fs
      <4>2. Work(fs) \subseteq FirstWork(fs)
        <5> SUFFICES ASSUME NEW i \in DOMAIN fs, NEW j \in DOMAIN fs[i],
                            NEW x \in {<<Len(fs) - i, Len(fs[i]) - j>>} \X (1..Weight(fs[i][j]))
                     PROVE  x \in FirstWork(fs)
          BY WorkMember, Zenon
        <5>1. i = 1 /\ j = 1 /\ fs[i][j] = Head(Head(fs))
          BY <4>1
        <5> QED BY <5>1, Zenon DEF FirstWork
      <4>3. IsFiniteSet(FirstWork(fs)) /\ Cardinality(FirstWork(fs)) = Weight(t)
        BY <4>1, FirstWorkFacts
      <4>4. Work(fs) \in SUBSET FirstWork(fs)
        BY <4>2
      <4>5. IsFiniteSet(Work(fs)) /\ Cardinality(Work(fs)) <= Weight(t)
        BY <4>3, <4>4, FS_Subset
      <4>6. Weight(t) \in Nat /\ Weight(t) <= 1 + NumFields /\ Cardinality(Work(fs)) \in Nat
        BY <4>5, WeightType, FS_CardinalityType
      <4>7. Cardinality(Work(fs)) <= 1 + NumFields
        BY <1>6, <4>5, <4>6
      <4> QED BY <3>1, <4>5, <4>7 DEF fs
    <3>2. \/ IsFiniteSet(Work(frames')) /\ Cardinality(Work(frames')) <= 1 + NumFields
             /\ Len(out') <= Len(out) + 1
          \/ IsFiniteSet(Work(frames')) /\ Cardinality(Work(frames')) = 0
             /\ Len(out') <= Len(out) + 2
      BY <1>5, <2>2, <3>1
    <3> DEFINE c == Cardinality(Work(frames'))
               n == Len(out')
    <3>3. c \in Nat /\ n \in Nat
      BY <1>1, <3>2, FS_CardinalityType DEF TypeOK
    <3>4. (c <= 1 + NumFields /\ n <= Len(out) + 1) \/ (c = 0 /\ n <= Len(out) + 2)
      BY <3>2
    <3> HIDE DEF c, n
    <3>5. n + c <= Len(out) + 1 + (1 + NumFields)
      BY <1>3, <1>6, <3>3, <3>4
    <3> QED BY <3>2, <3>3, <3>5 DEF c, n
  <2>4. Work(frames) = {} /\ Cardinality(Work(frames)) = 0 /\ Len(out) + 0 <= Allowance
    BY <1>5, <2>1 DEF LengthInv
  <2>5. Units' = Units + 1
    <3> DEFINE c == MaxElems * Cardinality(Entered)
    <3>1. c \in Nat
      <4>1. Cardinality(Entered) \in Nat
        BY EnteredFacts
      <4> QED BY <1>6, <4>1
    <3>2. Units = (var - 1) + c /\ Units' = (var + 1 - 1) + c /\ var \in Nat
      BY <2>1 DEF Units, Entered, Seen, TypeOK
    <3> HIDE DEF c
    <3> QED BY <3>1, <3>2
  <2>6. Allowance' = Allowance + 1 + (1 + NumFields)
    <3>1. PICK u \in Nat, k \in Nat, vr \in Nat : u = Units /\ k = 1 + NumFields /\ vr = var
      BY <1>3, <1>6, SizeAssumption DEF TypeOK
    <3>2. Allowance = (vr - 1) + u * k /\ Allowance' = (vr + 1 - 1) + (u + 1) * k
      BY <2>1, <2>5, <3>1 DEF Allowance
    <3>3. (u + 1) * k = u * k + k /\ u * k \in Nat
      BY <3>1
    <3>4. PICK uk \in Nat : uk = u * k
      BY <3>3
    <3>5. Allowance' = (vr + 1 - 1) + (uk + k) /\ Allowance = (vr - 1) + uk
      BY <3>2, <3>3, <3>4
    <3> QED BY <3>1, <3>4, <3>5
  <2>7. PICK c \in Nat, n \in Nat, m \in Nat, al \in Nat :
          /\ c = Cardinality(Work(frames')) /\ n = Len(out') /\ m = Len(out) /\ al = Allowance
    <3>1. Len(out') \in Nat
      BY <1>1 DEF TypeOK
    <3> QED BY <1>3, <1>3a, <2>3, <3>1
  <2>8. n + c <= m + 1 + (1 + NumFields) /\ m + 0 <= al
    BY <2>3, <2>4, <2>7
  <2>9. n + c <= al + 1 + (1 + NumFields)
    BY <1>6, <2>7, <2>8
  <2>10. Len(out') + Cardinality(Work(frames')) <= Allowance'
    BY <2>6, <2>7, <2>9
  <2> QED BY <2>3, <2>10 DEF LengthInv
<1>10. CASE EndOfGenerator
  <2>1. frames # <<>> /\ frames' = Tail(frames)
        /\ UNCHANGED <<dict, var, out>>
    BY <1>10 DEF EndOfGenerator
  <2> DEFINE W == Work(frames)
             V == Work(frames')
  <2>2. V \in SUBSET W /\ IsFiniteSet(W)
    <3>1. Work(Tail(frames)) \subseteq Work(frames)
      BY <1>1, <2>1, WorkPopped
    <3> QED BY <2>1, <3>1 DEF LengthInv
  <2>3. Allowance' = Allowance /\ Len(out') = Len(out) /\ Len(out) + Cardinality(W) <= Allowance
    BY <2>1 DEF Allowance, Units, Entered, Seen, LengthInv
  <2>4. Allowance \in Nat
    BY <1>3a
  <2> HIDE DEF W, V
  <2>5. IsFiniteSet(V) /\ Cardinality(V) <= Cardinality(W)
        /\ Cardinality(V) \in Nat /\ Cardinality(W) \in Nat
    BY <2>2, FS_Subset, FS_CardinalityType
  <2>6. Len(out) + Cardinality(V) <= Allowance
    BY <1>3, <2>3, <2>4, <2>5
  <2> QED BY <2>3, <2>5, <2>6 DEF V, LengthInv
<1>11. CASE FormatPointer \/ ShowPlain \/ EndOfLoop \/
            \E a \in Area : FollowSeen(a) \/ FollowBinary(a) \/ FollowInvalid(a)
  <2>1. /\ HasTask /\ ReplaceBy(<<>>) /\ dict \subseteq dict' /\ var' = var
        /\ out' = out \/ \E x : out' = Append(out, x)
    BY <1>11 DEF FormatPointer, ShowPlain, EndOfLoop, FollowSeen, FollowBinary, FollowInvalid,
                 Follows, Mark, Emit
  <2>2. <<>> \in Seq(Task) /\ Len(<<>>) = 0 /\ DOMAIN <<>> = {}
    OBVIOUS
  <2>3. Len(out') <= Len(out) + 1
    BY <1>2, <1>3, <2>1
  <2>4. Units' >= Units + 0
    BY <1>4, <2>1
  <2>5. 0 * 1 + 1 <= Weight(Task1) + 0 * (1 + NumFields)
    BY <1>6, WeightType
  <2>6. var' >= var
    BY <1>3b, <2>1
  <2> QED BY <1>1, <2>1, <2>2, <2>3, <2>4, <2>5, <2>6, LengthReplace
<1>12. CASE FormatStruct
  <2> DEFINE ts == TasksFor(Members(Task1.at))
  <2>1. HasTask /\ Task1.do = "format" /\ dict \subseteq dict' /\ var' = var
        /\ frames' = <<ts, Tail(Top)>> \o Tail(frames)
        /\ \E x : out' = Append(out, x)
    BY <1>12 DEF FormatStruct, Emit
  <2>2. IsGenerators(Task, frames) /\ frames' = Pushed(frames, ts) /\ Task1.at \in Loc
    BY <1>1, <2>1, ValueTypes, TopFacts, TaskCases
  <2>3. /\ ts \in Seq(Task) /\ Len(ts) <= NumFields /\ Len(ts) \in Nat
        /\ \A j \in DOMAIN ts : Weight(ts[j]) <= 1
    <3>1. ts \in Seq(Task) /\ Len(ts) <= NumFields
          /\ \A j \in DOMAIN ts : Weight(ts[j]) <= 1
      BY <2>2, MembersFew
    <3> HIDE DEF ts
    <3> QED BY <3>1
  <2> HIDE DEF ts
  <2> DEFINE N == NewWork(Len(frames), 0, Len(ts), 1)
  <2>4. Work(frames') \subseteq (Work(frames) \ FirstWork(frames)) \cup N
    BY <2>2, <2>3, WorkPushed
  <2>5. IsFiniteSet(N) /\ Cardinality(N) = Len(ts) * 1
    BY <2>3, NewWorkFacts
  <2> HIDE DEF N
  <2>6. Cardinality(N) + 1 <= Weight(Task1) + 0 * (1 + NumFields)
    BY <1>6, <2>1, <2>3, <2>5, WeightType
  <2>7. Len(out') <= Len(out) + 1
    BY <1>2, <1>3, <2>1
  <2>8. Units' >= Units + 0
    BY <1>4, <2>1
  <2>9. var' >= var
    BY <1>3b, <2>1
  <2> QED BY <1>1, <2>1, <2>4, <2>5, <2>6, <2>7, <2>8, <2>9, LengthTask
<1>13. CASE GdbDies \/ FollowOpaque \/ MemberInvalid \/ ElementInvalid
  <2>1. /\ HasTask /\ dict' = dict /\ var' >= var
        /\ \/ frames' = <<>> \/ frames' = Tail(frames)
           \/ \E n \in DOMAIN Head(frames) : frames' = Dropped(frames, n)
        /\ \E x : out' = Append(out, x)
    <3>1. NumVars + 1 >= var
      BY SizeAssumption DEF TypeOK
    <3>2. var >= var
      BY DEF TypeOK
    <3>3. CASE ElementInvalid
      BY <3>2, <3>3 DEF ElementInvalid, Emit, Dropped, Top
    <3> QED BY <1>13, <3>1, <3>2, <3>3 DEF GdbDies, FollowOpaque, MemberInvalid
  <2>2. Head(frames) # <<>> /\ frames # <<>>
    BY <2>1 DEF HasTask, Top
  <2>3. Work(frames') \subseteq (Work(frames) \ FirstWork(frames)) \cup {}
    <3>1. Work(Tail(frames)) \subseteq Work(frames) \ FirstWork(frames)
      BY <1>1, <2>2, WorkPopped
    <3>2. IsGenerators(Task, frames)
      BY <1>1, <2>2 DEF IsGenerators
    <3>3. \A n \in DOMAIN Head(frames) :
            Work(Dropped(frames, n)) \subseteq Work(frames) \ FirstWork(frames)
      BY <3>2, WorkDropped
    <3> QED BY <1>5, <2>1, <3>1, <3>3
  <2>4. Cardinality({}) + 1 <= Weight(Task1) + 0 * (1 + NumFields)
    BY <1>5, <1>6, WeightType
  <2>5. Len(out') <= Len(out) + 1
    BY <1>2, <1>3, <2>1
  <2>6. Units' >= Units + 0
    BY <1>4, <2>1
  <2> DEFINE N == {}
  <2>7. IsFiniteSet(N) /\ Cardinality(N) + 1 <= Weight(Task1) + 0 * (1 + NumFields)
        /\ Work(frames') \subseteq (Work(frames) \ FirstWork(frames)) \cup N
    BY <1>5, <2>3, <2>4
  <2> HIDE DEF N
  <2> QED BY <1>1, <2>1, <2>5, <2>6, <2>7, LengthTask
<1>14. ASSUME NEW a \in Area, FollowArray(a) \/ FollowSingle(a)
       PROVE  LengthInv'
  <2>1. PICK l : l = Task1.val.to
    OBVIOUS
  <2>2. /\ HasTask /\ Task1.do = "printer" /\ ~Seen(a) /\ l[1] = a
        /\ dict' = dict \cup {<<a, 1>>} /\ var' = var
        /\ Task1.val.by = "ptr"
        /\ \E x : out' = Append(out, x)
    BY <1>14, <2>1 DEF FollowArray, FollowSingle, Follows, Mark, Emit
  <2>3. l \in Loc
    BY <1>1, <2>1, <2>2, TopFacts, TaskCases
  <2>4. Len(out') <= Len(out) + 1
    BY <1>2, <1>3, <2>2
  <2>5. var' >= var
    BY <1>3b, <2>2
  <2>6. Units' >= Units + MaxElems
    <3>1. dict \subseteq dict' /\ var' >= var /\ Seen(a)'
      BY <2>2, <2>5 DEF Seen
    <3> QED BY <1>1, <2>2, <3>1, UnitsGrow
  <2>7. ReplaceBy(ArrayTasks(l)) \/ ReplaceBy(SingleTasks(l))
    BY <1>14, <2>1, Zenon DEF FollowArray, FollowSingle
  <2>8. \E ts \in Seq(Task), w \in Nat :
          /\ ReplaceBy(ts)
          /\ \A j \in DOMAIN ts : Weight(ts[j]) <= w
          /\ Len(ts) * w <= MaxElems * (1 + NumFields)
    <3>1. CASE ReplaceBy(ArrayTasks(l))
      BY <2>2, <2>3, <3>1, ArrayTasksWeight
    <3>2. CASE ReplaceBy(SingleTasks(l))
      BY <2>3, <3>2, SingleTasksWeight
    <3> QED BY <2>7, <3>1, <3>2
  <2>9. PICK ts \in Seq(Task), w \in Nat :
          /\ ReplaceBy(ts)
          /\ \A j \in DOMAIN ts : Weight(ts[j]) <= w
          /\ Len(ts) * w <= MaxElems * (1 + NumFields)
    BY <2>8
  <2>10. Len(ts) * w + 1 <= Weight(Task1) + MaxElems * (1 + NumFields)
    <3>1. Weight(Task1) = 1
      BY <2>2, WeightType
    <3>2. PICK p \in Nat, q \in Nat : p = Len(ts) * w /\ q = MaxElems * (1 + NumFields)
      <4>1. Len(ts) \in Nat /\ 1 + NumFields \in Nat
        BY <1>6
      <4>2. Len(ts) * w \in Nat /\ MaxElems * (1 + NumFields) \in Nat
        BY <1>6, <4>1
      <4> QED BY <4>2
    <3>3. p + 1 <= 1 + q
      BY <2>9, <3>2
    <3> QED BY <3>1, <3>2, <3>3
  <2> QED BY <1>1, <1>6, <2>2, <2>4, <2>5, <2>6, <2>9, <2>10, LengthReplace
<1>16. CASE Ended \/ UNCHANGED vars
  BY <1>16 DEF Ended, vars, LengthInv, Allowance, Units, Entered, Seen
<1> QED BY <1>7, <1>8, <1>10, <1>11, <1>12, <1>13, <1>14, <1>16 DEF Next, PrintVariable

\* Without C++ references, the dump is linear in the size of the data, whatever
\* is shared or cyclic: a line is about a variable or comes from a task, and the
\* tasks that are still to come are paid for.  It is a bound on the number of lines
\* and on nothing else; a struct that two variables point to is in the dump twice.
THEOREM OutputIsBounded ==
  ASSUME IsFiniteSet(Area), ~Refs
  PROVE  Spec => []OutputBounded
<1>1. Init => LengthInv /\ FilesInv
  <2> SUFFICES ASSUME Init PROVE LengthInv /\ FilesInv
    OBVIOUS
  <2>1. frames = <<>> /\ out = <<>> /\ dumps = 0 /\ var = 1 /\ dict = {}
    BY DEF Init
  <2>2. Work(<<>>) = {} /\ IsFiniteSet({}) /\ Cardinality({}) = 0
    BY FS_EmptySet DEF Work
  <2>3. Entered = {}
    BY <2>1 DEF Entered, Seen
  <2>4. Units = 0
    BY <2>1, <2>2, <2>3, SizeAssumption DEF Units
  <2>5. Allowance = 0
    BY <2>1, <2>4, SizeAssumption DEF Allowance
  <2>6. Len(out) = 0
    BY <2>1
  <2> QED BY <2>1, <2>2, <2>5, <2>6 DEF LengthInv, FilesInv
<1>2. TypeOK /\ LengthInv => OutputBounded
  <2> SUFFICES ASSUME TypeOK, LengthInv PROVE OutputBounded
    OBVIOUS
  <2>1. /\ Cardinality(Entered) \in Nat /\ Cardinality(Area) \in Nat
        /\ Cardinality(Entered) <= Cardinality(Area)
    BY EnteredFacts
  <2>2. NumVars \in Nat /\ MaxElems \in Nat /\ NumFields \in Nat /\ var - 1 \in Nat
        /\ var - 1 <= NumVars
    BY SizeAssumption DEF TypeOK
  <2>3. Cardinality(Work(frames)) \in Nat /\ Len(out) \in Nat
    BY FS_CardinalityType DEF LengthInv, TypeOK
  <2>4. PICK c \in Nat, d \in Nat, k \in Nat :
          c = Cardinality(Entered) /\ d = Cardinality(Area) /\ k = 1 + NumFields
    BY <2>1, <2>2
  <2>5. d >= c + 0 /\ 0 \in Nat
    BY <2>1, <2>4
  <2>6. c * MaxElems \in Nat /\ d * MaxElems \in Nat /\ 0 * MaxElems \in Nat
        /\ d * MaxElems >= c * MaxElems + 0 * MaxElems
    BY <2>2, <2>5, ProductGrows
  <2>7. MaxElems * c = c * MaxElems
    BY <2>2
  <2>8. PICK u \in Nat, v \in Nat :
          u = (var - 1) + MaxElems * c /\ v = NumVars + d * MaxElems /\ v >= u + 0
    <3>1. PICK p \in Nat, q \in Nat : p = c * MaxElems /\ q = d * MaxElems
      BY <2>6
    <3>2. q >= p
      BY <2>6, <3>1
    <3>3. NumVars + q >= ((var - 1) + p) + 0 /\ NumVars + q \in Nat /\ (var - 1) + p \in Nat
      BY <2>2, <3>2
    <3> QED BY <2>7, <3>1, <3>3
  <2>9. u * k \in Nat /\ v * k \in Nat /\ 0 * k \in Nat /\ v * k >= u * k + 0 * k
    BY <2>8, ProductGrows
  <2>10. Allowance = (var - 1) + u * k
    BY <2>4, <2>8 DEF Allowance, Units
  <2>11. Len(out) <= NumVars + v * k
    <3>1. PICK uk \in Nat, vk \in Nat, w \in Nat, n \in Nat, vr \in Nat :
            /\ uk = u * k /\ vk = v * k /\ vk >= uk
            /\ w = Cardinality(Work(frames)) /\ n = Len(out)
            /\ vr = var - 1 /\ vr <= NumVars
      <4>1. u * k \in Nat /\ v * k \in Nat /\ v * k >= u * k
        <5>1. PICK a \in Nat, b \in Nat, c0 \in Nat :
                a = u * k /\ b = v * k /\ c0 = 0 * k /\ b >= a + c0
          BY <2>9
        <5> QED BY <5>1
      <4> QED BY <2>2, <2>3, <4>1
    <3>2. n + w <= vr + uk
      BY <2>10, <3>1 DEF LengthInv
    <3>3. n <= NumVars + vk
      BY <2>2, <3>1, <3>2
    <3> QED BY <3>1, <3>3
  <2> QED BY <2>4, <2>8, <2>11 DEF OutputBounded
<1> QED BY <1>1, <1>2, TypeInit, TypeNext, FilesNext, LengthNext, PTL DEF Spec

=============================================================================
