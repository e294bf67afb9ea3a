----------------------- MODULE PrettyPrintOnceProofs -----------------------
(***************************************************************************)
(* No struct is printed twice in one dump, whatever pointers lead to it:   *)
(* what address_dict is there for.  Only what gdb formats without asking   *)
(* address_dict, for a reference or for a variable that is a pointer, may  *)
(* come again.                                                             *)
(***************************************************************************)
EXTENDS PrettyPrintProofs

----------------------------------------------------------------------------
(* Where the tasks of the generators come from.                            *)

\* The generators have no task twice.
Once(fs, t) ==
  \A i1, i2 \in DOMAIN fs : \A j1 \in DOMAIN fs[i1], j2 \in DOMAIN fs[i2] :
    fs[i1][j1] = t /\ fs[i2][j2] = t => i1 = i2 /\ j1 = j2

LEMMA PlaceReplaced ==
  ASSUME NEW T, NEW fs, IsGenerators(T, fs), NEW ts \in Seq(T),
         NEW i \in DOMAIN Replaced(fs, ts), NEW j \in DOMAIN Replaced(fs, ts)[i]
  PROVE  \/ i = 1 /\ j \in DOMAIN ts /\ Replaced(fs, ts)[i][j] = ts[j]
         \/ \E m \in Int :
              /\ i = 1 /\ j = m + Len(ts) - 1 /\ m # 1 /\ m \in DOMAIN fs[1]
              /\ Replaced(fs, ts)[i][j] = fs[1][m]
         \/ /\ i # 1 /\ i \in DOMAIN fs /\ j \in DOMAIN fs[i]
            /\ Replaced(fs, ts)[i][j] = fs[i][j]
<1> DEFINE r == Replaced(fs, ts)
           top == fs[1]
<1>1. /\ r \in Seq(Seq(T)) /\ Len(r) = Len(fs)
      /\ r[1] = ts \o Tail(top)
      /\ \A k \in 2..Len(fs) : r[k] = fs[k]
  BY ReplacedFrames, Zenon DEF IsGenerators
<1>2. Len(fs) \in Nat /\ Len(fs) >= 1 /\ DOMAIN fs = 1..Len(fs)
      /\ top \in Seq(T) /\ top # <<>>
  BY DEF IsGenerators
<1>3. DOMAIN r = 1..Len(fs)
  BY <1>1, LenProperties, Zenon
<1>4. i \in DOMAIN r /\ j \in DOMAIN r[i]
  OBVIOUS
<1> HIDE DEF r, top
<1>5. CASE i = 1
  <2>1. j \in DOMAIN (ts \o Tail(top)) /\ r[i] = ts \o Tail(top)
    BY <1>1, <1>4, <1>5
  <2>2. CASE j \in DOMAIN ts
    <3>1. (ts \o Tail(top))[j] = ts[j]
      BY <1>2, <2>2, JoinedTasks
    <3> QED BY <1>5, <2>1, <2>2, <3>1 DEF r
  <2>3. CASE j \notin DOMAIN ts
    <3> DEFINE m == j - Len(ts) + 1
    <3>1. m \in DOMAIN top /\ r[i][j] = top[m]
      <4>1. /\ j - Len(ts) + 1 \in DOMAIN top
            /\ (ts \o Tail(top))[j] = top[j - Len(ts) + 1]
        BY <1>2, <2>1, <2>3, JoinedTasks
      <4> QED BY <2>1, <4>1
    <3>2. j \in Int /\ j >= 1 /\ Len(ts) \in Nat /\ DOMAIN ts = 1..Len(ts)
      <4>0. \A s \in Seq(T) : s # <<>> => Tail(s) \in Seq(T)
        OBVIOUS
      <4>1. PICK tl \in Seq(T) : tl = Tail(top)
        BY <1>2, <4>0, Zenon
      <4>2. ts \o tl \in Seq(T)
        BY ConcatProperties, Zenon
      <4>3. DOMAIN (ts \o tl) = 1..Len(ts \o tl) /\ Len(ts \o tl) \in Nat
        BY <4>2, LenProperties, Zenon
      <4> QED BY <2>1, <4>1, <4>3
    <3>3. m \in Int /\ m # 1 /\ j = m + Len(ts) - 1
      BY <2>3, <3>2
    <3> HIDE DEF m
    <3> QED BY <1>5, <3>1, <3>3 DEF r, top
  <2> QED BY <2>2, <2>3
<1>6. CASE i # 1
  <2>1. i \in 2..Len(fs)
    BY <1>2, <1>3, <1>4, <1>6
  <2>2. r[i] = fs[i] /\ i \in DOMAIN fs
    BY <1>1, <1>2, <2>1
  <2> QED BY <1>4, <1>6, <2>2 DEF r
<1> QED BY <1>5, <1>6

LEMMA PlacePushed ==
  ASSUME NEW T, NEW fs, IsGenerators(T, fs), NEW ts \in Seq(T),
         NEW i \in DOMAIN Pushed(fs, ts), NEW j \in DOMAIN Pushed(fs, ts)[i]
  PROVE  \/ i = 1 /\ j \in DOMAIN ts /\ Pushed(fs, ts)[i][j] = ts[j]
         \/ \E m \in Int :
              /\ i = 2 /\ j = m - 1 /\ m # 1 /\ m \in DOMAIN fs[1]
              /\ Pushed(fs, ts)[i][j] = fs[1][m]
         \/ \E k \in Int :
              /\ i = k + 1 /\ k # 1 /\ k \in DOMAIN fs /\ j \in DOMAIN fs[k]
              /\ Pushed(fs, ts)[i][j] = fs[k][j]
<1> DEFINE r == Pushed(fs, ts)
           top == fs[1]
<1>1. /\ r \in Seq(Seq(T)) /\ Len(r) = Len(fs) + 1
      /\ r[1] = ts /\ r[2] = Tail(top)
      /\ \A k \in 2..Len(fs) : r[k + 1] = fs[k]
  <2>1. /\ Pushed(fs, ts) \in Seq(Seq(T))
        /\ Len(Pushed(fs, ts)) = Len(fs) + 1
        /\ Pushed(fs, ts)[1] = ts
        /\ Pushed(fs, ts)[2] = Tail(fs[1])
        /\ \A k \in 2..Len(fs) : Pushed(fs, ts)[k + 1] = fs[k]
    BY PushedFrames DEF IsGenerators
  <2> QED BY <2>1, Zenon
<1>2. Len(fs) \in Nat /\ Len(fs) >= 1 /\ DOMAIN fs = 1..Len(fs)
      /\ top \in Seq(T) /\ top # <<>>
  BY DEF IsGenerators
<1>3. DOMAIN r = 1..(Len(fs) + 1)
  <2>1. DOMAIN r = 1..Len(r)
    BY <1>1, LenProperties, Zenon
  <2> QED BY <1>1, <2>1, Zenon
<1>4. i \in DOMAIN r /\ j \in DOMAIN r[i]
  OBVIOUS
<1> HIDE DEF r
<1>5. CASE i = 1
  BY <1>1, <1>4, <1>5 DEF r
<1>6. CASE i = 2
  <2> DEFINE m == j + 1
  <2>1. /\ DOMAIN top = 1..Len(top) /\ Len(top) \in Nat
        /\ DOMAIN Tail(top) = 1..(Len(top) - 1)
        /\ \A h \in 1..(Len(top) - 1) : Tail(top)[h] = top[h + 1]
    BY <1>2
  <2>2. r[i] = Tail(top) /\ j \in 1..(Len(top) - 1)
    BY <1>1, <1>4, <1>6, <2>1
  <2>3. m \in Int /\ j = m - 1 /\ m # 1 /\ m \in DOMAIN top
    BY <2>1, <2>2
  <2>4. r[i][j] = top[m]
    BY <2>1, <2>2
  <2> HIDE DEF m
  <2> QED BY <1>6, <2>3, <2>4 DEF r, top
<1>7. CASE i # 1 /\ i # 2
  <2> DEFINE k == i - 1
  <2>1. i \in 1..(Len(fs) + 1) /\ i >= 3
    BY <1>2, <1>3, <1>4, <1>7
  <2>2. k \in 2..Len(fs) /\ i = k + 1 /\ k # 1 /\ k \in Int /\ k \in DOMAIN fs
    BY <1>2, <2>1
  <2> HIDE DEF k
  <2>3. r[i] = fs[k]
    BY <1>1, <2>2
  <2> QED BY <1>4, <2>2, <2>3 DEF r
<1> QED BY <1>5, <1>6, <1>7

\* A task that is in the generators once, or in those that come, is there once.
LEMMA OnceReplaced ==
  ASSUME NEW T, NEW fs, IsGenerators(T, fs), NEW ts \in Seq(T), NEW t,
         Once(fs, t),
         \A j, k \in DOMAIN ts : ts[j] = t /\ ts[k] = t => j = k,
         \A j \in DOMAIN ts : ts[j] = t => ~Holds(fs, t)
  PROVE  Once(Replaced(fs, ts), t)
<1> DEFINE r == Replaced(fs, ts)
<1>1. 1 \in DOMAIN fs /\ Len(ts) \in Nat
  BY DEF IsGenerators
<1>2. ASSUME NEW i \in DOMAIN r, NEW j \in DOMAIN r[i], r[i][j] = t
      PROVE  \/ i = 1 /\ j \in DOMAIN ts /\ ts[j] = t
             \/ \E m \in Int : /\ i = 1 /\ j = m + Len(ts) - 1 /\ m \in DOMAIN fs[1]
                               /\ fs[1][m] = t
             \/ i # 1 /\ i \in DOMAIN fs /\ j \in DOMAIN fs[i] /\ fs[i][j] = t
  <2>1. \/ i = 1 /\ j \in DOMAIN ts /\ r[i][j] = ts[j]
        \/ \E m \in Int :
              /\ i = 1 /\ j = m + Len(ts) - 1 /\ m # 1 /\ m \in DOMAIN fs[1]
              /\ r[i][j] = fs[1][m]
        \/ i # 1 /\ i \in DOMAIN fs /\ j \in DOMAIN fs[i] /\ r[i][j] = fs[i][j]
    BY PlaceReplaced
  <2> HIDE DEF r
  <2> QED BY <1>2, <2>1
<1> HIDE DEF r
<1>3. ASSUME NEW i1 \in DOMAIN r, NEW i2 \in DOMAIN r,
             NEW j1 \in DOMAIN r[i1], NEW j2 \in DOMAIN r[i2],
             r[i1][j1] = t, r[i2][j2] = t
      PROVE  i1 = i2 /\ j1 = j2
  <2>1. \/ i1 = 1 /\ j1 \in DOMAIN ts /\ ts[j1] = t
        \/ \E m \in Int : /\ i1 = 1 /\ j1 = m + Len(ts) - 1 /\ m \in DOMAIN fs[1]
                          /\ fs[1][m] = t
        \/ i1 # 1 /\ i1 \in DOMAIN fs /\ j1 \in DOMAIN fs[i1] /\ fs[i1][j1] = t
    BY <1>2, <1>3
  <2>2. \/ i2 = 1 /\ j2 \in DOMAIN ts /\ ts[j2] = t
        \/ \E m \in Int : /\ i2 = 1 /\ j2 = m + Len(ts) - 1 /\ m \in DOMAIN fs[1]
                          /\ fs[1][m] = t
        \/ i2 # 1 /\ i2 \in DOMAIN fs /\ j2 \in DOMAIN fs[i2] /\ fs[i2][j2] = t
    BY <1>2, <1>3
  <2>3. CASE ~Holds(fs, t)
    BY <1>1, <2>1, <2>2, <2>3 DEF Holds
  <2>4. CASE Holds(fs, t)
    <3>1. \A j \in DOMAIN ts : ts[j] # t
      BY <2>4
    <3>2. ASSUME NEW m1 \in DOMAIN fs[1], NEW m2 \in DOMAIN fs[1],
                 fs[1][m1] = t, fs[1][m2] = t
          PROVE  m1 = m2
      BY <1>1, <3>2 DEF Once
    <3>3. \A k \in DOMAIN fs : \A m \in DOMAIN fs[1], n \in DOMAIN fs[k] :
            fs[1][m] = t /\ fs[k][n] = t => k = 1
      BY <1>1 DEF Once
    <3>4. CASE i1 = 1
      <4>1. PICK m1 \in Int : j1 = m1 + Len(ts) - 1 /\ m1 \in DOMAIN fs[1] /\ fs[1][m1] = t
        BY <2>1, <3>1, <3>4
      <4>2. i2 = 1
        BY <2>2, <3>3, <4>1
      <4>3. PICK m2 \in Int : j2 = m2 + Len(ts) - 1 /\ m2 \in DOMAIN fs[1] /\ fs[1][m2] = t
        BY <2>2, <3>1, <4>2
      <4>4. m1 = m2
        BY <3>2, <4>1, <4>3
      <4> QED BY <3>4, <4>1, <4>2, <4>3, <4>4
    <3>5. CASE i1 # 1
      <4>1. i1 \in DOMAIN fs /\ j1 \in DOMAIN fs[i1] /\ fs[i1][j1] = t
        BY <2>1, <3>5
      <4>2. i2 # 1
        BY <2>2, <3>1, <3>3, <3>5, <4>1
      <4>3. i2 \in DOMAIN fs /\ j2 \in DOMAIN fs[i2] /\ fs[i2][j2] = t
        BY <2>2, <4>2
      <4> QED BY <4>1, <4>3 DEF Once
    <3> QED BY <3>4, <3>5
  <2> QED BY <2>3, <2>4
<1>4. Once(r, t)
  BY <1>3 DEF Once
<1> QED BY <1>4 DEF r

\* A generator that comes without the task leaves it once, or not at all if it
\* was the task that is done.
LEMMA OncePushed ==
  ASSUME NEW T, NEW fs, IsGenerators(T, fs), NEW ts \in Seq(T), NEW t,
         Once(fs, t), \A j \in DOMAIN ts : ts[j] # t
  PROVE  /\ Once(Pushed(fs, ts), t)
         /\ Head(Head(fs)) = t => ~Holds(Pushed(fs, ts), t)
<1> DEFINE r == Pushed(fs, ts)
<1>1. 1 \in DOMAIN fs /\ fs[1] = Head(fs) /\ fs[1] \in Seq(T) /\ fs[1] # <<>>
  BY DEF IsGenerators
<1>2. 1 \in DOMAIN fs[1] /\ Head(Head(fs)) = fs[1][1]
  <2>1. PICK top \in Seq(T) : top = fs[1] /\ top # <<>>
    BY <1>1
  <2>2. 1 \in DOMAIN top /\ Head(top) = top[1]
    BY <2>1
  <2> QED BY <1>1, <2>1, <2>2
<1>3. ASSUME NEW i \in DOMAIN r, NEW j \in DOMAIN r[i], r[i][j] = t
      PROVE  \/ \E m \in Int : /\ i = 2 /\ j = m - 1 /\ m # 1 /\ m \in DOMAIN fs[1]
                               /\ fs[1][m] = t
             \/ \E k \in Int : /\ i = k + 1 /\ k # 1 /\ k \in DOMAIN fs
                               /\ j \in DOMAIN fs[k] /\ fs[k][j] = t
  <2>1. \/ i = 1 /\ j \in DOMAIN ts /\ r[i][j] = ts[j]
        \/ \E m \in Int :
              /\ i = 2 /\ j = m - 1 /\ m # 1 /\ m \in DOMAIN fs[1]
              /\ r[i][j] = fs[1][m]
        \/ \E k \in Int :
              /\ i = k + 1 /\ k # 1 /\ k \in DOMAIN fs /\ j \in DOMAIN fs[k]
              /\ r[i][j] = fs[k][j]
    BY PlacePushed
  <2> HIDE DEF r
  <2> QED BY <1>3, <2>1
<1> HIDE DEF r
<1>4. ASSUME Head(Head(fs)) = t, NEW i \in DOMAIN r, NEW j \in DOMAIN r[i], r[i][j] = t
      PROVE  FALSE
  <2>1. fs[1][1] = t
    BY <1>2, <1>4
  <2>2. CASE \E m \in Int : m # 1 /\ m \in DOMAIN fs[1] /\ fs[1][m] = t
    BY <1>1, <1>2, <2>1, <2>2 DEF Once
  <2>3. CASE \E k \in Int : k # 1 /\ k \in DOMAIN fs /\ j \in DOMAIN fs[k] /\ fs[k][j] = t
    BY <1>1, <1>2, <2>1, <2>3 DEF Once
  <2> QED BY <1>3, <1>4, <2>2, <2>3
<1>5. ASSUME NEW i1 \in DOMAIN r, NEW i2 \in DOMAIN r,
             NEW j1 \in DOMAIN r[i1], NEW j2 \in DOMAIN r[i2],
             r[i1][j1] = t, r[i2][j2] = t
      PROVE  i1 = i2 /\ j1 = j2
  <2>1. PICK k1 \in DOMAIN fs : \E m \in DOMAIN fs[k1] :
          /\ fs[k1][m] = t /\ i1 = k1 + 1
          /\ (k1 = 1 /\ m \in Int /\ j1 = m - 1) \/ (k1 # 1 /\ j1 = m)
    <3>1. CASE \E m \in Int : /\ i1 = 2 /\ j1 = m - 1 /\ m # 1 /\ m \in DOMAIN fs[1]
                              /\ fs[1][m] = t
      BY <1>1, <3>1
    <3>2. CASE \E k \in Int : /\ i1 = k + 1 /\ k # 1 /\ k \in DOMAIN fs
                              /\ j1 \in DOMAIN fs[k] /\ fs[k][j1] = t
      BY <3>2
    <3> QED BY <1>3, <1>5, <3>1, <3>2
  <2>2. PICK k2 \in DOMAIN fs : \E m \in DOMAIN fs[k2] :
          /\ fs[k2][m] = t /\ i2 = k2 + 1
          /\ (k2 = 1 /\ m \in Int /\ j2 = m - 1) \/ (k2 # 1 /\ j2 = m)
    <3>1. CASE \E m \in Int : /\ i2 = 2 /\ j2 = m - 1 /\ m # 1 /\ m \in DOMAIN fs[1]
                              /\ fs[1][m] = t
      BY <1>1, <3>1
    <3>2. CASE \E k \in Int : /\ i2 = k + 1 /\ k # 1 /\ k \in DOMAIN fs
                              /\ j2 \in DOMAIN fs[k] /\ fs[k][j2] = t
      BY <3>2
    <3> QED BY <1>3, <1>5, <3>1, <3>2
  <2>3. PICK m1 \in DOMAIN fs[k1] :
          /\ fs[k1][m1] = t /\ i1 = k1 + 1
          /\ (k1 = 1 /\ m1 \in Int /\ j1 = m1 - 1) \/ (k1 # 1 /\ j1 = m1)
    BY <2>1
  <2>4. PICK m2 \in DOMAIN fs[k2] :
          /\ fs[k2][m2] = t /\ i2 = k2 + 1
          /\ (k2 = 1 /\ m2 \in Int /\ j2 = m2 - 1) \/ (k2 # 1 /\ j2 = m2)
    BY <2>2
  <2>5. k1 = k2 /\ m1 = m2
    BY <2>3, <2>4 DEF Once
  <2> QED BY <2>3, <2>4, <2>5
<1>6. Once(r, t)
  BY <1>5 DEF Once
<1>7. Head(Head(fs)) = t => ~Holds(r, t)
  BY <1>4 DEF Holds
<1> QED BY <1>6, <1>7 DEF r

LEMMA OncePopped ==
  ASSUME NEW T, NEW fs \in Seq(Seq(T)), fs # <<>>, NEW t, Once(fs, t)
  PROVE  Once(Tail(fs), t)
<1> DEFINE r == Tail(fs)
<1>1. /\ DOMAIN r = 1..(Len(fs) - 1) /\ DOMAIN fs = 1..Len(fs) /\ Len(fs) \in Nat
      /\ \A i \in 1..(Len(fs) - 1) : r[i] = fs[i + 1]
  OBVIOUS
<1> HIDE DEF r
<1>2. ASSUME NEW i1 \in DOMAIN r, NEW i2 \in DOMAIN r,
             NEW j1 \in DOMAIN r[i1], NEW j2 \in DOMAIN r[i2],
             r[i1][j1] = t, r[i2][j2] = t
      PROVE  i1 = i2 /\ j1 = j2
  <2>1. i1 \in Int /\ i1 + 1 \in DOMAIN fs /\ r[i1] = fs[i1 + 1]
    BY <1>1
  <2>2. i2 \in Int /\ i2 + 1 \in DOMAIN fs /\ r[i2] = fs[i2 + 1]
    BY <1>1
  <2>3. i1 + 1 = i2 + 1 /\ j1 = j2
    BY <1>2, <2>1, <2>2, Zenon DEF Once
  <2> QED BY <2>1, <2>2, <2>3
<1>3. Once(r, t)
  BY <1>2 DEF Once
<1> QED BY <1>3 DEF r

LEMMA OnceDropped ==
  ASSUME NEW T, NEW fs, IsGenerators(T, fs), NEW n \in DOMAIN Head(fs), NEW t, Once(fs, t)
  PROVE  Once(Dropped(fs, n), t)
<1> DEFINE r == Dropped(fs, n)
<1>1. /\ r \in Seq(Seq(T)) /\ Len(r) = Len(fs)
      /\ Len(r[1]) = Len(fs[1]) - n
      /\ \A j \in 1..(Len(fs[1]) - n) : r[1][j] = fs[1][j + n]
      /\ \A i \in 2..Len(fs) : r[i] = fs[i]
  BY DroppedFrames DEF IsGenerators
<1> HIDE DEF r
<1>2. /\ Len(fs) \in Nat /\ Len(fs) >= 1 /\ DOMAIN fs = 1..Len(fs)
      /\ fs[1] \in Seq(T) /\ n \in DOMAIN fs[1]
  BY DEF IsGenerators
<1>3. /\ DOMAIN r = 1..Len(fs) /\ r[1] \in Seq(T)
      /\ DOMAIN fs[1] = 1..Len(fs[1]) /\ Len(fs[1]) \in Nat
  BY <1>1, <1>2
<1>4. DOMAIN r[1] = 1..(Len(fs[1]) - n) /\ n \in Nat
  BY <1>1, <1>2, <1>3
<1> DEFINE Was(i, j, m) == /\ r[i][j] = fs[i][m]
                           /\ (i = 1 /\ j \in Int /\ m = j + n) \/ (i # 1 /\ m = j)
<1>5. \A i \in DOMAIN r : \A j \in DOMAIN r[i] :
        i \in DOMAIN fs /\ \E m \in DOMAIN fs[i] : Was(i, j, m)
  <2> SUFFICES ASSUME NEW i \in DOMAIN r, NEW j \in DOMAIN r[i]
               PROVE  i \in DOMAIN fs /\ \E m \in DOMAIN fs[i] : Was(i, j, m)
    OBVIOUS
  <2>1. CASE i = 1
    <3>1. j + n \in DOMAIN fs[1] /\ r[1][j] = fs[1][j + n] /\ j \in Int
      BY <1>1, <1>2, <1>3, <1>4, <2>1
    <3> QED BY <1>2, <1>3, <2>1, <3>1
  <2>2. CASE i # 1
    <3>1. i \in 2..Len(fs)
      BY <1>2, <1>3, <2>2
    <3>2. r[i] = fs[i] /\ i \in DOMAIN fs
      BY <1>1, <1>2, <3>1
    <3>3. j \in DOMAIN fs[i] /\ r[i][j] = fs[i][j]
      BY <3>2
    <3> QED BY <2>2, <3>2, <3>3
  <2> QED BY <2>1, <2>2
<1>6. ASSUME NEW i1 \in DOMAIN r, NEW i2 \in DOMAIN r,
             NEW j1 \in DOMAIN r[i1], NEW j2 \in DOMAIN r[i2],
             r[i1][j1] = t, r[i2][j2] = t
      PROVE  i1 = i2 /\ j1 = j2
  <2>1. PICK m1 \in DOMAIN fs[i1] :
          /\ i1 \in DOMAIN fs /\ fs[i1][m1] = t
          /\ (i1 = 1 /\ j1 \in Int /\ m1 = j1 + n) \/ (i1 # 1 /\ m1 = j1)
    <3> HIDE DEF Was
    <3>1. i1 \in DOMAIN fs /\ \E m \in DOMAIN fs[i1] : Was(i1, j1, m)
      BY <1>5
    <3> QED BY <1>6, <3>1 DEF Was
  <2>2. PICK m2 \in DOMAIN fs[i2] :
          /\ i2 \in DOMAIN fs /\ fs[i2][m2] = t
          /\ (i2 = 1 /\ j2 \in Int /\ m2 = j2 + n) \/ (i2 # 1 /\ m2 = j2)
    <3> HIDE DEF Was
    <3>1. i2 \in DOMAIN fs /\ \E m \in DOMAIN fs[i2] : Was(i2, j2, m)
      BY <1>5
    <3> QED BY <1>6, <3>1 DEF Was
  <2>3. i1 = i2 /\ m1 = m2
    BY <2>1, <2>2 DEF Once
  <2> QED BY <1>4, <2>1, <2>2, <2>3
<1>7. Once(r, t)
  BY <1>6 DEF Once
<1> QED BY <1>7 DEF r

----------------------------------------------------------------------------
(* What is in the dump once.                                               *)

ShownAtMostOnce(l) ==
  \A i, j \in DOMAIN out : out[i] = Line("struct", l) /\ out[j] = Line("struct", l) => i = j

\* A variable that was printed, or an element of an area in address_dict.
Reached(l) == IF l[1] \in Var THEN l[1] < var ELSE Seen(l[1])

\* What is to be printed once is either in the dump or waits for gdb, and both
\* only if its turn has come: the next time its area is met address_dict knows it.
OnceAt(l) ==
  /\ Once(frames, Format(l))
  /\ ShownAtMostOnce(l)
  /\ StructShown(l) => ~Holds(frames, Format(l))
  /\ StructShown(l) \/ Holds(frames, Format(l)) => Reached(l)

OnceInv ==
  Sound /\ FilesInv /\ \A l \in Loc : Alone(l) \/ OnceAt(l)

LEMMA AppendOnce ==
  ASSUME TypeOK, NEW l, ShownAtMostOnce(l), NEW x, out' = Append(out, x),
         x = Line("struct", l) => ~StructShown(l)
  PROVE  ShownAtMostOnce(l)'
<1>1. /\ DOMAIN out = 1..Len(out) /\ Len(out) \in Nat
      /\ DOMAIN out' = 1..(Len(out) + 1)
      /\ \A i \in 1..Len(out) : out'[i] = out[i]
      /\ out'[Len(out) + 1] = x
  BY DEF TypeOK
<1>2. x = Line("struct", l) => \A i \in DOMAIN out : out[i] # Line("struct", l)
  BY DEF StructShown, Shows, Items, Line
<1>3. ASSUME NEW i \in DOMAIN out', NEW j \in DOMAIN out',
             out'[i] = Line("struct", l), out'[j] = Line("struct", l)
      PROVE  i = j
  <2>1. CASE i \in DOMAIN out /\ j \in DOMAIN out
    BY <1>1, <1>3, <2>1 DEF ShownAtMostOnce
  <2>2. CASE i \notin DOMAIN out
    <3>1. i = Len(out) + 1
      BY <1>1, <1>3, <2>2
    <3>2. j \notin DOMAIN out
      BY <1>1, <1>2, <1>3, <3>1
    <3> QED BY <1>1, <1>3, <3>1, <3>2
  <2>3. CASE j \notin DOMAIN out
    <3>1. j = Len(out) + 1
      BY <1>1, <1>3, <2>3
    <3>2. i \notin DOMAIN out
      BY <1>1, <1>2, <1>3, <3>1
    <3> QED BY <1>1, <1>3, <3>1, <3>2
  <2> QED BY <2>1, <2>2, <2>3
<1>4. Line("struct", l)' = Line("struct", l)
  BY DEF Line
<1> QED BY <1>3, <1>4 DEF ShownAtMostOnce

\* The step shows no struct that is l.
Silent(l) ==
  \A i : i \in DOMAIN out' /\ out'[i] = Line("struct", l) <=>
        i \in DOMAIN out /\ out[i] = Line("struct", l)

LEMMA AppendPlaces ==
  ASSUME NEW T, NEW s \in Seq(T), NEW x, NEW r, r = Append(s, x)
  PROVE  /\ DOMAIN r = 1..(Len(s) + 1) /\ Len(r) = Len(s) + 1
         /\ \A i \in 1..Len(s) : r[i] = s[i]
         /\ r[Len(s) + 1] = x
         /\ r \in Seq(T \cup {x})
<1>1. s \in Seq(T \cup {x})
  OBVIOUS
<1>2. PICK U : U = T \cup {x} /\ x \in U
  OBVIOUS
<1>3. s \in Seq(U)
  BY <1>1, <1>2
<1>4. /\ Append(s, x) \in Seq(U) /\ Len(Append(s, x)) = Len(s) + 1
      /\ \A i \in 1..Len(s) : Append(s, x)[i] = s[i]
      /\ Append(s, x)[Len(s) + 1] = x
      /\ DOMAIN Append(s, x) = 1..(Len(s) + 1)
  BY <1>2, <1>3
<1> QED BY <1>2, <1>4, Zenon

LEMMA SilentSteps ==
  ASSUME TypeOK, NEW l,
         \/ out' = out
         \/ \E x : out' = Append(out, x) /\ x # Line("struct", l)
         \/ TargetInvalid
  PROVE  Silent(l)
<1>1. DOMAIN out = 1..Len(out) /\ Len(out) \in Nat /\ out \in Seq(Item)
  BY DEF TypeOK
<1>2. CASE out' = out
  BY <1>2 DEF Silent
<1>3. ASSUME NEW x, out' = Append(out, x), x # Line("struct", l)
      PROVE  Silent(l)
  <2>1. /\ DOMAIN out' = 1..(Len(out) + 1)
        /\ \A i \in 1..Len(out) : out'[i] = out[i]
        /\ out'[Len(out) + 1] = x
    <3>1. PICK o : o = out'
      OBVIOUS
    <3>2. o = Append(out, x) /\ out \in Seq(Item)
      BY <1>1, <1>3, <3>1, Zenon
    <3>3. /\ DOMAIN o = 1..(Len(out) + 1)
          /\ \A i \in 1..Len(out) : o[i] = out[i]
          /\ o[Len(out) + 1] = x
      BY <3>2, AppendPlaces
    <3> QED BY <3>1, <3>3, Zenon
  <2>2. \A i \in 1..(Len(out) + 1) : i \in 1..Len(out) \/ i = Len(out) + 1
    BY <1>1
  <2>3. 1..Len(out) \subseteq 1..(Len(out) + 1)
    BY <1>1
  <2> QED BY <1>1, <1>3, <2>1, <2>2, <2>3, Zenon DEF Silent
<1>4. CASE TargetInvalid
  <2>1. PICK x, y : /\ x = Line("variable", <<var, 1>>) /\ y = Line("<INVALID>", <<var, 1>>)
                    /\ out' = Append(Append(out, x), y)
    BY <1>4 DEF TargetInvalid
  <2>2. x # Line("struct", l) /\ y # Line("struct", l)
    BY <2>1 DEF Line
  <2>3. /\ DOMAIN out' = 1..(Len(out) + 2)
        /\ \A i \in 1..Len(out) : out'[i] = out[i]
        /\ out'[Len(out) + 1] = x /\ out'[Len(out) + 2] = y
    <3>1. PICK mid : mid = Append(out, x)
      OBVIOUS
    <3>2. /\ DOMAIN mid = 1..(Len(out) + 1) /\ Len(mid) = Len(out) + 1
          /\ \A i \in 1..Len(out) : mid[i] = out[i]
          /\ mid[Len(out) + 1] = x
          /\ mid \in Seq(Item \cup {x})
      BY <1>1, <3>1, AppendPlaces
    <3>3. out' = Append(mid, y)
      BY <2>1, <3>1
    <3>4. /\ DOMAIN out' = 1..(Len(mid) + 1)
          /\ \A i \in 1..Len(mid) : out'[i] = mid[i]
          /\ out'[Len(mid) + 1] = y
      BY <3>2, <3>3, AppendPlaces
    <3>5. /\ Len(mid) + 1 = Len(out) + 2
          /\ \A i \in 1..Len(out) : i \in 1..Len(mid)
          /\ Len(out) + 1 \in 1..Len(mid)
      BY <1>1, <3>2
    <3> QED BY <3>2, <3>4, <3>5
  <2>4. \A i \in 1..(Len(out) + 2) : i \in 1..Len(out) \/ i = Len(out) + 1 \/ i = Len(out) + 2
    BY <1>1
  <2>5. 1..Len(out) \subseteq 1..(Len(out) + 2)
    BY <1>1
  <2> QED BY <1>1, <2>2, <2>3, <2>4, <2>5, Zenon DEF Silent
<1> QED BY <1>2, <1>3, <1>4

\* A step that does not show l keeps it in order, if it gives gdb a task for l
\* only when its turn comes.
LEMMA OnceKept ==
  ASSUME NEW l, OnceAt(l), Silent(l),
         Once(frames', Format(l)),
         Holds(frames', Format(l)) =>
           Holds(frames, Format(l)) \/ (~Reached(l) /\ Reached(l)'),
         Reached(l) => Reached(l)'
  PROVE  OnceAt(l)'
<1>1. Line("struct", l)' = Line("struct", l)
  BY DEF Line
<1>2. ShownAtMostOnce(l)'
  BY <1>1 DEF ShownAtMostOnce, Silent, OnceAt
<1>3. StructShown(l)' <=> StructShown(l)
  BY <1>1 DEF StructShown, Shows, Items, Silent
<1>4. Format(l)' = Format(l)
  BY DEF Format
<1> QED BY <1>2, <1>3, <1>4 DEF OnceAt

\* The tasks that replace a pointer into an area have each element once.
LEMMA ArrayTasksOnce ==
  ASSUME TypeOK, Sound, NEW a \in Area, NEW l0 \in Elem, l0[1] = a,
         NEW l \in Loc, ~Alone(l),
         NEW j \in DOMAIN ArrayTasks(l0), NEW k \in DOMAIN ArrayTasks(l0),
         ArrayTasks(l0)[j] = Format(l), ArrayTasks(l0)[k] = Format(l)
  PROVE  j = k
<1>1. kind[a] = "struct"
  <2> SUFFICES ASSUME kind[a] # "struct" PROVE FALSE
    OBVIOUS
  <2> DEFINE vs == [i \in 1..len[a] |-> link[<<a, i>>][1]]
             ts == PointerTasks(a)
             loop == ArrayTasks(l0)
  <2>1. loop = ts \o <<Leave(l0)>>
    BY DEF ArrayTasks, PointerTasks
  <2>2. ts \in Seq(TasksOn(Elem)) /\ DOMAIN ts = 1..len[a]
    BY PointerTasksFacts, Zenon DEF Sound
  <2> HIDE DEF ts, loop, vs
  <2>3. loop[j] = Format(l) /\ j \in DOMAIN loop
    BY DEF loop
  <2>4. j \in DOMAIN ts /\ ts[j] = Format(l)
    <3>1. ts \in Seq(TasksOn(Elem))
      BY <2>2
    <3> QED BY <2>1, <2>3, <3>1, LoopNoFormat
  <2>5. /\ DOMAIN TasksFor(vs) = 1..len[a]
        /\ TasksFor(vs)[j] = IF vs[j].by = "ref" THEN Format(vs[j].to) ELSE Visit(vs[j])
    BY <2>2, <2>4 DEF TasksFor, vs
  <2>6. len[a] \in Nat /\ <<a, j>> \in Elem
    <3>1. len[a] \in 1..MaxElems /\ MaxElems \in Nat
      BY SizeAssumption DEF TypeOK
    <3> QED BY <2>2, <2>4, <3>1, ElementsOfArea
  <2>7. vs[j] = link[<<a, j>>][1]
    BY <2>2, <2>4 DEF vs
  <2>8. TasksFor(vs)[j] = Format(l)
    BY <2>4 DEF ts, PointerTasks, vs
  <2>9. vs[j].by = "ref" /\ Format(vs[j].to) = Format(l)
    BY <2>5, <2>8 DEF Format, Visit
  <2>10. vs[j].to = l
    BY <2>9 DEF Format
  <2>11. 1 \in DOMAIN link[<<a, j>>]
    BY <2>6, SizeAssumption DEF Sound, Field
  <2> QED BY <2>6, <2>7, <2>9, <2>10, <2>11 DEF Alone
<1>2. ArrayTasks(l0)[j] = Format(<<a, j>>) /\ ArrayTasks(l0)[k] = Format(<<a, k>>)
  BY <1>1 DEF ArrayTasks
<1>3. l = <<a, j>> /\ l = <<a, k>>
  BY <1>2 DEF Format
<1> QED BY <1>3

LEMMA SingleTasksOnce ==
  ASSUME Sound, NEW l0 \in Elem, NEW l \in Loc, ~Alone(l),
         NEW j \in DOMAIN SingleTasks(l0), NEW k \in DOMAIN SingleTasks(l0),
         SingleTasks(l0)[j] = Format(l), SingleTasks(l0)[k] = Format(l)
  PROVE  j = k
<1>1. CASE kind[l0[1]] = "struct"
  BY <1>1 DEF SingleTasks
<1>2. CASE kind[l0[1]] # "struct"
  <2> DEFINE ts == TasksFor(Members(l0))
             loop == SingleTasks(l0)
  <2>1. loop = ts \o <<Leave(l0)>>
    BY <1>2 DEF SingleTasks
  <2>2. ts \in Seq(TasksOn(Elem))
    <3>1. PICK S : S = Elem
      OBVIOUS
    <3>2. LinksTo(S) /\ l0 \in Loc
      BY <3>1, Zenon DEF Sound, Elem
    <3>3. ts \in Seq(TasksOn(S))
      BY <3>2, MembersTasks
    <3> QED BY <3>1, <3>3
  <2> HIDE DEF ts, loop
  <2>3. loop[j] = Format(l) /\ j \in DOMAIN loop
    BY DEF loop
  <2>4. j \in DOMAIN ts /\ ts[j] = Format(l)
    BY <2>1, <2>2, <2>3, LoopNoFormat
  <2> QED BY <2>4, MembersAlone DEF ts
<1> QED BY <1>1, <1>2

\* The tasks of an area that is entered now come once: nothing of it is there.
LEMMA OnceEntered ==
  ASSUME TypeOK, Sound, NEW a \in Area, NEW l \in Loc, ~Alone(l), OnceAt(l),
         NEW ts \in Seq(TasksOn(Elem)), HasTask, ReplaceBy(ts), ~Seen(a),
         dict' = dict \cup {<<a, 1>>}, var' = var, Emit("pointer", Task1.val.to),
         \A j, k \in DOMAIN ts : ts[j] = Format(l) /\ ts[k] = Format(l) => j = k,
         \A j \in DOMAIN ts : ts[j] = Format(l) => l[1] = a
  PROVE  OnceAt(l)'
<1>1. PICK S : S = Elem
  OBVIOUS
<1>2. FramesOn(S) /\ ts \in Seq(TasksOn(S))
  BY <1>1, Zenon DEF Sound
<1>3. IsGenerators(TasksOn(S), frames) /\ frames' = Replaced(frames, ts)
  BY <1>2, TopFacts
<1>4. Reached(l) => Reached(l)'
  BY DEF Reached, Seen
<1>5. l[1] = a => ~Reached(l) /\ Reached(l)'
  BY AreaAssumption DEF Reached, Seen, Var
<1>6. \A j \in DOMAIN ts : ts[j] = Format(l) => ~Holds(frames, Format(l))
  BY <1>5 DEF OnceAt
<1>7. Once(frames', Format(l))
  <2>1. Once(frames, Format(l))
    BY DEF OnceAt
  <2> QED BY <1>2, <1>3, <1>6, <2>1, OnceReplaced
<1>8. Holds(frames', Format(l)) =>
        Holds(frames, Format(l)) \/ (~Reached(l) /\ Reached(l)')
  <2>1. \A t : Holds(frames', t) => Holds(frames, t) \/ \E j \in DOMAIN ts : ts[j] = t
    BY <1>2, <1>3, OnlyReplaced
  <2> QED BY <1>5, <2>1
<1>9. Silent(l)
  <2> DEFINE x == Line("pointer", Task1.val.to)
  <2>1. out' = Append(out, x) /\ x # Line("struct", l)
    BY DEF Emit, Line
  <2> HIDE DEF x
  <2> QED BY <2>1, SilentSteps
<1> QED BY <1>4, <1>7, <1>8, <1>9, OnceKept

LEMMA OnceFormat ==
  ASSUME TypeOK, Sound, FormatStruct, NEW l \in Loc, ~Alone(l), OnceAt(l)
  PROVE  OnceAt(l)'
<1> DEFINE l0 == Task1.at
           ts == TasksFor(Members(l0))
<1>1. PICK S : S = Elem
  OBVIOUS
<1>2. LinksTo(S) /\ FramesOn(S) /\ S \subseteq Loc
  BY <1>1, Zenon DEF Sound, Elem
<1>3. /\ HasTask /\ Task1.do = "format"
      /\ dict' = dict \cup {l0} /\ out' = Append(out, Line("struct", l0)) /\ var' = var
      /\ frames' = <<ts, Tail(Top)>> \o Tail(frames)
  BY DEF FormatStruct, Emit, Line
<1>4. /\ l0 \in S /\ IsGenerators(TasksOn(S), frames) /\ frames' = Pushed(frames, ts)
      /\ Task1 = Head(Head(frames)) /\ Holds(frames, Task1) /\ Task1 \in TasksOn(S)
  BY <1>2, <1>3, TopFacts, TaskCases DEF Task1, Top
<1>5. ts \in Seq(TasksOn(S))
  BY <1>2, <1>4, MembersTasks
<1>6. \A j \in DOMAIN ts : ts[j] # Format(l)
  BY <1>1, <1>4, MembersAlone
<1>7. Task1 = Format(l0)
  BY <1>3, <1>4 DEF TasksOn, Format
<1> HIDE DEF ts, l0
<1>8. /\ Once(frames', Format(l))
      /\ Task1 = Format(l) => ~Holds(frames', Format(l))
  <2>1. Once(frames, Format(l))
    BY DEF OnceAt
  <2> QED BY <1>4, <1>5, <1>6, <2>1, OncePushed
<1>9. Holds(frames', Format(l)) => Holds(frames, Format(l))
  BY <1>4, <1>5, <1>6, OnlyPushed
<1>10. Reached(l) => Reached(l)'
  BY <1>3 DEF Reached, Seen
<1>11. CASE l = l0
  <2>1. Holds(frames, Format(l)) /\ ~Holds(frames', Format(l))
    BY <1>4, <1>7, <1>8, <1>11
  <2>2. ~StructShown(l) /\ Reached(l)'
    BY <1>10, <2>1 DEF OnceAt
  <2>3. ShownAtMostOnce(l)'
    BY <1>3, <1>11, <2>2, AppendOnce DEF OnceAt
  <2>4. Format(l)' = Format(l)
    BY DEF Format
  <2> QED BY <1>8, <2>1, <2>2, <2>3, <2>4 DEF OnceAt
<1>12. CASE l # l0
  <2>1. Line("struct", l0) # Line("struct", l)
    BY <1>12 DEF Line
  <2>2. Silent(l)
    BY <1>3, <2>1, SilentSteps
  <2> QED BY <1>8, <1>9, <1>10, <2>2, OnceKept
<1> QED BY <1>11, <1>12

\* A step that is silent about structs, and leaves no more tasks.
LEMMA OnceRest ==
  ASSUME TypeOK, NEW l \in Loc, OnceAt(l),
         \/ out' = out
         \/ \E x : out' = Append(out, x) /\ x.tag # "struct"
         \/ TargetInvalid,
         Once(frames', Format(l)),
         Holds(frames', Format(l)) => Holds(frames, Format(l)),
         dict \subseteq dict', \A v \in Var : v < var => v < var'
  PROVE  OnceAt(l)'
<1>1. Reached(l) => Reached(l)'
  BY DEF Reached, Seen
<1>2. \A x : x.tag # "struct" => x # Line("struct", l)
  BY DEF Line
<1>3. Silent(l)
  BY <1>2, SilentSteps
<1> QED BY <1>1, <1>3, OnceKept

LEMMA OnceNext ==
  ASSUME TypeOK, OnceInv, [Next]_vars
  PROVE  OnceInv'
<1> USE DEF OnceInv
<1>1. Sound' /\ FilesInv' /\ UNCHANGED program
  BY SoundNext, FilesNext, ProgramUnchanged
<1>2. SUFFICES ASSUME NEW l \in Loc, ~Alone(l), OnceAt(l)
               PROVE  OnceAt(l)'
  <2>1. \A l \in Loc : Alone(l)' \/ OnceAt(l)'
    BY <1>1, <1>2, AloneKept
  <2>2. Loc' = Loc
    BY DEF Loc, HeapLoc
  <2> QED BY <1>1, <2>1, <2>2
<1>3. /\ \A v \in Var : v \in Nat /\ v <= NumVars
      /\ var \in Nat /\ NumVars \in Nat
  BY SizeAssumption DEF TypeOK, Var
<1>4. \A t : Once(<<>>, t) /\ ~Holds(<<>>, t)
  BY DEF Once, Holds
<1>5. Format(l)' = Format(l)
  BY DEF Format
<1>6. CASE NewDump
  <2>1. frames' = <<>> /\ out' = <<>>
    BY <1>6 DEF NewDump, FilesInv, Finished
  <2>2. ShownAtMostOnce(l)' /\ ~StructShown(l)'
    BY <2>1 DEF ShownAtMostOnce, StructShown, Shows, Items
  <2> QED BY <1>4, <1>5, <2>1, <2>2 DEF OnceAt
<1>7. CASE PrintVariable
  <2>1. /\ var \in Var /\ dict' = dict /\ var' = var + 1 /\ frames = <<>>
        /\ <<var, 1>> \in Elem
        /\ frames' = <<>> \/ \E k : Leading(var, k) /\ frames' = << <<Format(k)>> >>
        /\ out' = out \/ out' = Append(out, Line("variable", <<var, 1>>))
    BY <1>7, PrintFacts
  <2>2. 1 \in DOMAIN link[<<var, 1>>] /\ <<var, 1>>[1] = var
    BY <2>1, SizeAssumption DEF Sound, Field
  <2>3. Leading(var, l) => l = <<var, 1>>
    BY <1>2, <2>1, <2>2 DEF Alone, Leading
  <2>4. Silent(l)
    <3>1. Line("variable", <<var, 1>>) # Line("struct", l)
      BY DEF Line
    <3> QED BY <2>1, <3>1, SilentSteps
  <2>5. \A t, u : (Holds(<< <<t>> >>, u) => u = t) /\ Once(<< <<t>> >>, u)
    BY DEF Holds, Once
  <2>6. Once(frames', Format(l))
    BY <1>4, <2>1, <2>5
  <2>7. Holds(frames', Format(l)) => l = <<var, 1>>
    <3>1. \A k : Format(l) = Format(k) => l = k
      BY DEF Format
    <3>2. SUFFICES ASSUME Holds(frames', Format(l)) PROVE l = <<var, 1>>
      OBVIOUS
    <3>3. PICK k : Leading(var, k) /\ frames' = << <<Format(k)>> >>
      BY <1>4, <2>1, <3>2
    <3>4. l = k
      BY <2>5, <3>1, <3>2, <3>3
    <3> QED BY <2>3, <3>3, <3>4
  <2>8. l = <<var, 1>> => ~Reached(l) /\ Reached(l)'
    BY <1>3, <2>1 DEF Reached
  <2>9. Reached(l) => Reached(l)'
    <3>1. Seen(l[1])' = Seen(l[1])
      BY <2>1 DEF Seen
    <3>2. \A k \in Var : k < var => k < var'
      BY <1>3, <2>1
    <3> QED BY <3>1, <3>2 DEF Reached
  <2> QED BY <1>2, <2>4, <2>6, <2>7, <2>8, <2>9, OnceKept
<1>8. CASE FormatStruct
  BY <1>2, <1>8, OnceFormat
<1>9. ASSUME NEW a \in Area, FollowArray(a)
      PROVE  OnceAt(l)'
  <2> DEFINE l0 == Task1.val.to
  <2>1. /\ HasTask /\ Task1.do = "printer" /\ Task1.val.by = "ptr" /\ l0[1] = a
        /\ dict' = dict \cup {<<a, 1>>} /\ ReplaceBy(ArrayTasks(l0))
        /\ ~Seen(a) /\ var' = var /\ Emit("pointer", Task1.val.to)
    BY <1>9 DEF FollowArray, Follows, Mark
  <2>2. PICK S : S = Elem
    OBVIOUS
  <2>3. LinksTo(S) /\ FramesOn(S) /\ Elem \subseteq S
    BY <2>2, Zenon DEF Sound
  <2>4. l0 \in S
    BY <2>1, <2>3, TopFacts, TaskCases
  <2>5. ArrayTasks(l0) \in Seq(TasksOn(S))
    BY <2>1, <2>3, <2>4, ArrayTasksFacts
  <2>6. \A j \in DOMAIN ArrayTasks(l0) : ArrayTasks(l0)[j] = Format(l) => l[1] = a
    BY <1>2, <2>1, <2>2, <2>4, ArrayKnown
  <2>7. \A j, k \in DOMAIN ArrayTasks(l0) :
          ArrayTasks(l0)[j] = Format(l) /\ ArrayTasks(l0)[k] = Format(l) => j = k
    BY <1>2, <2>1, <2>2, <2>4, ArrayTasksOnce
  <2>8. ArrayTasks(l0) \in Seq(TasksOn(Elem))
    BY <2>2, <2>5, Zenon
  <2> QED BY <1>2, <2>1, <2>6, <2>7, <2>8, OnceEntered
<1>10. ASSUME NEW a \in Area, FollowSingle(a)
       PROVE  OnceAt(l)'
  <2> DEFINE l0 == Task1.val.to
  <2>1. /\ HasTask /\ Task1.do = "printer" /\ Task1.val.by = "ptr" /\ l0[1] = a
        /\ dict' = dict \cup {<<a, 1>>} /\ ReplaceBy(SingleTasks(l0))
        /\ ~Seen(a) /\ var' = var /\ Emit("pointer", Task1.val.to)
    BY <1>10 DEF FollowSingle, Follows, Mark
  <2>2. PICK S : S = Elem
    OBVIOUS
  <2>3. LinksTo(S) /\ FramesOn(S) /\ S \subseteq Loc
    BY <2>2, Zenon DEF Sound, Elem
  <2>4. l0 \in S
    BY <2>1, <2>3, TopFacts, TaskCases
  <2>5. SingleTasks(l0) \in Seq(TasksOn(S))
    BY <2>3, <2>4, SingleTasksFacts
  <2>6. \A j \in DOMAIN SingleTasks(l0) : SingleTasks(l0)[j] = Format(l) => l[1] = a
    BY <1>2, <2>1, <2>2, <2>4, SingleKnown
  <2>7. \A j, k \in DOMAIN SingleTasks(l0) :
          SingleTasks(l0)[j] = Format(l) /\ SingleTasks(l0)[k] = Format(l) => j = k
    BY <1>2, <2>2, <2>4, SingleTasksOnce
  <2>8. SingleTasks(l0) \in Seq(TasksOn(Elem))
    BY <2>2, <2>5, Zenon
  <2> QED BY <1>2, <2>1, <2>6, <2>7, <2>8, OnceEntered
<1>11. ASSUME NEW tag, NEW k, Emit(tag, k), tag # "struct"
       PROVE  \E x : out' = Append(out, x) /\ x.tag # "struct"
  <2> DEFINE x == Line(tag, k)
  <2>1. out' = Append(out, x) /\ x.tag # "struct"
    BY <1>11 DEF Emit, Line
  <2> QED BY <2>1
<1>12. CASE \/ FormatPointer
            \/ ShowPlain
            \/ EndOfLoop
            \/ \E a \in Area : FollowSeen(a) \/ FollowBinary(a) \/ FollowInvalid(a)
  <2>1. HasTask /\ ReplaceBy(<<>>) /\ dict \subseteq dict' /\ var' = var
    BY <1>12 DEF FormatPointer, ShowPlain, EndOfLoop, FollowSeen, FollowBinary,
                 FollowInvalid, Follows, Mark
  <2>2. out' = out \/ \E x : out' = Append(out, x) /\ x.tag # "struct"
    <3>1. CASE FormatPointer \/ ShowPlain \/ EndOfLoop
      BY <3>1 DEF FormatPointer, ShowPlain, EndOfLoop
    <3>2. ASSUME NEW a \in Area, FollowSeen(a)
          PROVE  \E x : out' = Append(out, x) /\ x.tag # "struct"
      BY <1>11, <3>2 DEF FollowSeen
    <3>3. ASSUME NEW a \in Area, FollowBinary(a)
          PROVE  \E x : out' = Append(out, x) /\ x.tag # "struct"
      BY <1>11, <3>3 DEF FollowBinary
    <3>4. ASSUME NEW a \in Area, FollowInvalid(a)
          PROVE  \E x : out' = Append(out, x) /\ x.tag # "struct"
      BY <1>11, <3>4 DEF FollowInvalid
    <3> QED BY <1>12, <3>1, <3>2, <3>3, <3>4
  <2>3. PICK T : T = TasksOn(Elem)
    OBVIOUS
  <2>4. IsGenerators(T, frames) /\ frames' = Replaced(frames, <<>>)
    <3>1. PICK S : S = Elem
      OBVIOUS
    <3>2. FramesOn(S)
      BY <3>1, Zenon DEF Sound
    <3> QED BY <2>1, <2>3, <3>1, <3>2, TopFacts
  <2>5. <<>> \in Seq(T) /\ DOMAIN <<>> = {}
    OBVIOUS
  <2>6. Once(frames', Format(l))
    <3>1. Once(frames, Format(l))
      BY <1>2 DEF OnceAt
    <3> QED BY <2>4, <2>5, <3>1, OnceReplaced
  <2>7. Holds(frames', Format(l)) => Holds(frames, Format(l))
    BY <2>4, <2>5, OnlyReplaced
  <2> QED BY <1>2, <2>1, <2>2, <2>6, <2>7, OnceRest
<1>13. CASE EndOfGenerator \/ FollowOpaque \/ MemberInvalid
  <2>1. frames # <<>> /\ frames' = Tail(frames) /\ dict' = dict /\ var' = var
    BY <1>13 DEF EndOfGenerator, FollowOpaque, MemberInvalid, HasTask
  <2>2. PICK T : T = TasksOn(Elem)
    OBVIOUS
  <2>3. frames \in Seq(Seq(T))
    BY <2>2, Zenon DEF Sound, FramesOn
  <2>4. out' = out \/ \E x : out' = Append(out, x) /\ x.tag # "struct"
    <3> DEFINE x == [tag |-> "error"]
    <3>1. EndOfGenerator => out' = out
      BY DEF EndOfGenerator
    <3>2. FollowOpaque \/ MemberInvalid => out' = Append(out, x) /\ x.tag # "struct"
      BY DEF FollowOpaque, MemberInvalid
    <3> QED BY <1>13, <3>1, <3>2
  <2>5. Once(frames', Format(l))
    BY <1>2, <2>1, <2>3, OncePopped DEF OnceAt
  <2>6. Holds(frames', Format(l)) => Holds(frames, Format(l))
    BY <2>1, <2>3, OnlyPopped
  <2> QED BY <1>2, <2>1, <2>4, <2>5, <2>6, OnceRest
<1>14. CASE VariableInvalid \/ TargetInvalid
  <2>1. frames' = frames /\ dict' = dict /\ var' = var + 1
    BY <1>14 DEF VariableInvalid, TargetInvalid
  <2>2. \A v \in Var : v < var => v < var'
    BY <1>3, <2>1
  <2>3. Once(frames', Format(l))
    BY <1>2, <2>1 DEF OnceAt
  <2>4. VariableInvalid => \E x : out' = Append(out, x) /\ x.tag # "struct"
    <3> DEFINE x == Line("<INVALID>", <<var, 1>>)
    <3>1. VariableInvalid => out' = Append(out, x) /\ x.tag # "struct"
      BY DEF VariableInvalid, Line
    <3> QED BY <3>1
  <2> QED BY <1>2, <1>14, <2>1, <2>2, <2>3, <2>4, OnceRest
<1>15. CASE GdbDies
  <2> DEFINE x == [tag |-> "crash"]
  <2>1. frames' = <<>> /\ dict' = dict /\ var' = NumVars + 1
        /\ out' = Append(out, x) /\ x.tag # "struct"
    BY <1>15 DEF GdbDies
  <2>2. \A v \in Var : v < var => v < var'
    BY <1>3, <2>1
  <2> HIDE DEF x
  <2> QED BY <1>2, <1>4, <2>1, <2>2, OnceRest
<1>16. CASE Ended \/ UNCHANGED vars
  <2>1. frames' = frames /\ dict' = dict /\ var' = var /\ out' = out
    BY <1>16 DEF Ended, vars
  <2>2. Once(frames', Format(l))
    BY <1>2, <2>1 DEF OnceAt
  <2> QED BY <1>2, <2>1, <2>2, OnceRest
<1>17. CASE ElementInvalid
  <2>1. PICK n \in DOMAIN Head(frames) :
          HasTask /\ frames' = Dropped(frames, n) /\ Emit("<INVALID>", Head(frames)[n].at)
    BY <1>17, Zenon DEF ElementInvalid, Dropped, Top
  <2>2. dict' = dict /\ var' = var
    BY <1>17 DEF ElementInvalid
  <2>3. \E x : out' = Append(out, x) /\ x.tag # "struct"
    BY <1>11, <2>1
  <2>4. PICK T : T = TasksOn(Elem)
    OBVIOUS
  <2>5. IsGenerators(T, frames)
    BY <2>1, <2>4, Zenon DEF Sound, FramesOn, IsGenerators, HasTask, Top
  <2>6. Once(frames', Format(l))
    <3>1. Once(frames, Format(l))
      BY <1>2 DEF OnceAt
    <3> QED BY <2>1, <2>5, <3>1, OnceDropped
  <2>7. Holds(frames', Format(l)) => Holds(frames, Format(l))
    BY <2>1, <2>5, OnlyDropped
  <2> QED BY <1>2, <2>2, <2>3, <2>6, <2>7, OnceRest
<1> QED BY <1>6, <1>7, <1>8, <1>9, <1>10, <1>12, <1>13, <1>14, <1>15, <1>16, <1>17
        DEF Next, PrintVariable

\* However many pointers lead to a struct, and over cycles and shared areas, it is
\* printed once in a dump: what address_dict is asked for in printer().  What gdb
\* formats by itself, for a reference or a variable that is a pointer, is the only
\* exception.
THEOREM NothingIsShownTwice == ~Behind /\ Spec => []ShownOnce
<1>1. ~Behind /\ Init => OnceInv
  <2> SUFFICES ASSUME ~Behind, Init PROVE OnceInv
    OBVIOUS
  <2>1. frames = <<>> /\ out = <<>> /\ dumps = 0
    BY DEF Init
  <2>2. <<>> \in Seq(Seq(TasksOn(Elem)))
    OBVIOUS
  <2>3. Sound
    BY <2>1, <2>2, InitLinks DEF Sound, FramesOn
  <2>4. \A l \in Loc : OnceAt(l)
    BY <2>1 DEF OnceAt, Once, Holds, ShownAtMostOnce, StructShown, Shows, Items
  <2> QED BY <2>1, <2>3, <2>4 DEF OnceInv, FilesInv
<1>2. TypeOK /\ OnceInv => ShownOnce
  <2> SUFFICES ASSUME TypeOK, OnceInv, NEW i \in DOMAIN out, NEW j \in DOMAIN out,
                      out[i].tag = "struct", out[j] = out[i], i # j
               PROVE  Alone(out[i].at)
    BY DEF ShownOnce
  <2>1. out[i] \in Item
    BY DEF TypeOK
  <2>2. out[i].at \in Loc /\ out[i] = Line("struct", out[i].at)
    BY <2>1 DEF Item, Remark, Line
  <2> QED BY <2>2 DEF OnceInv, OnceAt, ShownAtMostOnce
<1> QED BY <1>1, <1>2, TypeInit, TypeNext, OnceNext, PTL DEF Spec
============================================================================
