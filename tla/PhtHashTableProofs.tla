----------------------- MODULE PhtHashTableProofs -----------------------
(***************************************************************************)
(* PhtHashTable for any keys, entries and objects, whatever collides:      *)
(* every key can be found, entries are owned once, and the table is a map, *)
(* until the integer key that a tombstone passes for ends the process.     *)
(***************************************************************************)
EXTENDS PhtHashTable, FiniteSetTheorems, WellFoundedInduction, TLAPS

(* A set of numbers that has 0, and with each number the next, has all.    *)
LEMMA Induction ==
  ASSUME NEW S, 0 \in S, \A k \in Nat : k \in S => k + 1 \in S
  PROVE  \A k \in Nat : k \in S
<1> DEFINE R == {ss \in Nat \X Nat : ss[1] < ss[2]}  T == Nat \ S
<1>1. IsWellFoundedOn(R, Nat)  BY NatLessThanWellFounded DEF OpToRel
<1> SUFFICES ASSUME T # {} PROVE FALSE  OBVIOUS
<1>2. T \subseteq Nat  OBVIOUS
<1>3. PICK m \in T : \A k \in T : ~(<<k, m>> \in R)
  <2> HIDE DEF R, T
  <2> QED  BY <1>1, <1>2, WFMin
<1>4. m \in Nat /\ m # 0 /\ m - 1 \in Nat  OBVIOUS
<1>5. <<m - 1, m>> \in R  BY <1>4
<1>6. m - 1 \notin T  BY <1>3, <1>5
<1> QED  BY <1>4, <1>6

(* A set of numbers has a least one.                                       *)
LEMMA LeastNumber ==
  ASSUME NEW T, T \subseteq Nat, T # {}
  PROVE  \E m \in T : \A k \in T : m <= k
<1> DEFINE R == {ss \in Nat \X Nat : ss[1] < ss[2]}
<1>1. IsWellFoundedOn(R, Nat)  BY NatLessThanWellFounded DEF OpToRel
<1>2. PICK m \in T : \A k \in T : ~(<<k, m>> \in R)
  <2> HIDE DEF R
  <2> QED  BY <1>1, WFMin
<1>3. ASSUME NEW k \in T PROVE m <= k
  <2>1. k \in Nat /\ m \in Nat  OBVIOUS
  <2>2. k < m => <<k, m>> \in R  BY <2>1
  <2> QED  BY <1>2, <2>1, <2>2
<1> QED  BY <1>3

-----------------------------------------------------------------------------
(* The loop of pht_hashtable_insert_direct, one turn at a time.            *)
LEMMA TurnsUnfold ==
  ASSUME NEW vals, NEW item, NEW size \in Nat
  PROVE  /\ Turns(vals, item, size)[0] = [vals |-> vals, item |-> item, placed |-> FALSE]
         /\ \A d \in 0..size - 1 : Turns(vals, item, size)[d + 1]
               = Turn(Turns(vals, item, size)[d], After(Home(item.hash, size), d, size))
<1> DEFINE First == [vals |-> vals, item |-> item, placed |-> FALSE]
           At(d) == After(Home(item.hash, size), d, size)
           Step(f, d) == IF d = 0 THEN First ELSE Turn(f[d - 1], At(d - 1))
           Good(f, m) == f = [d \in 0..m |-> Step(f, d)]
           S == {m \in Nat : \E f : Good(f, m)}
           turns == Turns(vals, item, size)
<1>2. 0 \in S
  <2>1. Good([d \in 0..0 |-> First], 0)  OBVIOUS
  <2> QED  BY <2>1
<1>3. ASSUME NEW m \in Nat, m \in S PROVE m + 1 \in S
  <2>1. PICK f : Good(f, m)  BY <1>3
  <2> DEFINE g == [d \in 0..m + 1 |-> IF d <= m THEN f[d] ELSE Step(f, d)]
  <2>2. ASSUME NEW d \in 0..m + 1 PROVE g[d] = Step(g, d)
    <3>1. d # 0 => d - 1 \in 0..m  OBVIOUS
    <3> HIDE DEF First, At
    <3>2. d # 0 => g[d - 1] = f[d - 1]  BY <3>1
    <3>3. Step(g, d) = Step(f, d)  BY <3>2
    <3>4. d <= m => f[d] = Step(f, d)
      <4> HIDE DEF Step
      <4> QED  BY <2>1
    <3> QED  BY <3>3, <3>4
  <2>3. Good(g, m + 1)
    <3> HIDE DEF Step
    <3>1. g = [d \in 0..m + 1 |-> g[d]]  OBVIOUS
    <3> HIDE DEF g
    <3> QED  BY <2>2, <3>1
  <2> HIDE DEF Good
  <2> QED  BY <2>3
<1>4. size \in S
  <2> HIDE DEF S
  <2> QED  BY <1>2, <1>3, Induction
<1>5. \E f : Good(f, size)  BY <1>4
<1>6. Good(turns, size)
  <2>1. turns = CHOOSE f : Good(f, size)  BY DEF Turns
  <2> HIDE DEF Good, turns
  <2> QED  BY <1>5, <2>1
<1>7. \A d \in 0..size : turns[d] = Step(turns, d)
  <2> HIDE DEF Step, turns
  <2> QED  BY <1>6
<1> HIDE DEF turns, First, At
<1>8. turns[0] = First  BY <1>7
<1>9. ASSUME NEW d \in 0..size - 1 PROVE turns[d + 1] = Turn(turns[d], At(d))
  <2>1. d + 1 \in 0..size /\ d + 1 # 0 /\ (d + 1) - 1 = d  OBVIOUS
  <2> QED  BY <1>7, <2>1
<1> QED  BY <1>8, <1>9 DEF turns, First, At

-----------------------------------------------------------------------------
(* A table of n buckets that can be searched, and what it holds.           *)
LiveIn(vals) == {i \in DOMAIN vals : vals[i].value # Null}
Bucket == [key : {k.key : k \in Keys} \cup {Null}, hash : Int, value : Entries \cup {Null}, variance : Nat]
Known(b) == \E k \in Keys : Matches(b, k)
Spot(b, d, n) == After(Home(b.hash, n), d, n)
Placed(vals, i, b, n) ==
  /\ Known(b) /\ b.variance < n /\ i = Spot(b, b.variance, n)
  /\ \A d \in 0..n - 1 : d < b.variance => ~NeverUsed(vals[Spot(b, d, n)])
Apart(b, c) == ~Matches(b, c) /\ b.value # c.value
TableOK(vals, n) ==
  /\ vals \in [0..n - 1 -> Bucket]
  /\ \A i \in 0..n - 1 : vals[i].value = Null => vals[i] \in {Empty, Tombstone}
  /\ \A i \in LiveIn(vals) : Placed(vals, i, vals[i], n)
  /\ \A i, j \in LiveIn(vals) : i # j => Apart(vals[i], vals[j])
Pair(b) == <<b.key, b.hash, b.value>>
Pairs(vals) == {Pair(vals[i]) : i \in LiveIn(vals)}

(* Going round a table.                                                    *)
LEMMA Round ==
  ASSUME NEW n \in Nat \ {0}
  PROVE  /\ \A hash \in Int : Home(hash, n) \in 0..n - 1
         /\ \A h \in 0..n - 1, d \in 0..n : After(h, d, n) \in 0..n - 1
         /\ \A h \in 0..n - 1 : After(h, 0, n) = h
         /\ \A h, g \in 0..n - 1, c, d \in 0..n - 1 :
              After(h, c, n) = After(g, d, n) => After(h, c + 1, n) = After(g, d + 1, n)
         /\ \A h, i \in 0..n - 1 : \E d \in 0..n - 1 : After(h, d, n) = i
<1>1. \A hash \in Int : Home(hash, n) \in 0..n - 1  BY DEF Home
<1>2. \A h \in 0..n - 1, d \in 0..n : After(h, d, n) \in 0..n - 1  BY DEF After
<1>3. \A h \in 0..n - 1 : After(h, 0, n) = h  BY DEF After
<1>4. ASSUME NEW h \in 0..n - 1, NEW g \in 0..n - 1, NEW c \in 0..n - 1, NEW d \in 0..n - 1,
             After(h, c, n) = After(g, d, n)
      PROVE  After(h, c + 1, n) = After(g, d + 1, n)
  BY <1>4 DEF After
<1>5. ASSUME NEW h \in 0..n - 1, NEW i \in 0..n - 1 PROVE \E d \in 0..n - 1 : After(h, d, n) = i
  <2>1. CASE i >= h
    <3>1. i - h \in 0..n - 1 /\ After(h, i - h, n) = i  BY <2>1 DEF After
    <3> QED  BY <3>1
  <2>2. CASE i < h
    <3>1. i - h + n \in 0..n - 1 /\ After(h, i - h + n, n) = i  BY <2>2 DEF After
    <3> QED  BY <3>1
  <2> QED  BY <2>1, <2>2
<1> QED  BY <1>1, <1>2, <1>3, <1>4, <1>5

(* A bucket is filled, or its item replaced, where the new item may be.    *)
Puts(t, i, b, n, u) ==
  /\ TableOK(t, n) /\ i \in 0..n - 1 /\ b \in Bucket /\ b.value # Null /\ Placed(t, i, b, n)
  /\ \A j \in LiveIn(t) : j # i => Apart(t[j], b)
  /\ u = [t EXCEPT ![i] = b]
HasPut(t, i, b, n, u) ==
  /\ TableOK(u, n) /\ LiveIn(u) = LiveIn(t) \cup {i}
  /\ Pairs(u) = {Pair(t[j]) : j \in LiveIn(t) \ {i}} \cup {Pair(b)}
(* Filling it keeps the table, which then holds the new item besides.      *)
LEMMA PutOK ==
  ASSUME NEW n \in Nat \ {0}, NEW t, NEW i, NEW b, NEW u, Puts(t, i, b, n, u)
  PROVE  HasPut(t, i, b, n, u)
<1>0. /\ TableOK(t, n) /\ i \in 0..n - 1 /\ b \in Bucket /\ b.value # Null /\ Placed(t, i, b, n)
      /\ \A j \in LiveIn(t) : j # i => Apart(t[j], b)
      /\ u = [t EXCEPT ![i] = b]
  BY DEF Puts
<1>1. /\ t \in [0..n - 1 -> Bucket] /\ DOMAIN t = 0..n - 1
      /\ u \in [0..n - 1 -> Bucket] /\ DOMAIN u = 0..n - 1 /\ u[i] = b
      /\ \A j \in 0..n - 1 : j # i => u[j] = t[j]
  BY <1>0 DEF TableOK
<1>2. LiveIn(u) = LiveIn(t) \cup {i}  BY <1>0, <1>1 DEF LiveIn
<1>3. \A j \in 0..n - 1 : NeverUsed(u[j]) => NeverUsed(t[j])  BY <1>0, <1>1 DEF NeverUsed
<1>4. ASSUME NEW c \in Bucket, NEW j, Placed(t, j, c, n) PROVE Placed(u, j, c, n)
  <2>1. c.hash \in Int  BY DEF Bucket
  <2>2. Home(c.hash, n) \in 0..n - 1  BY <2>1, Round
  <2>3. \A d \in 0..n - 1 : Spot(c, d, n) \in 0..n - 1  BY <2>2 DEF Spot, After
  <2> QED  BY <1>3, <1>4, <2>3 DEF Placed
<1>5. ASSUME NEW j \in LiveIn(u) PROVE Placed(u, j, u[j], n)
  <2>1. CASE j = i  BY <1>0, <2>1, <1>1, <1>4
  <2>2. CASE j # i
    <3>1. j \in LiveIn(t) /\ j \in 0..n - 1 /\ u[j] = t[j]  BY <2>2, <1>1, <1>2 DEF LiveIn
    <3>2. t[j] \in Bucket /\ Placed(t, j, t[j], n)  BY <1>0, <3>1, <1>1 DEF TableOK
    <3> QED  BY <3>1, <3>2, <1>4
  <2> QED  BY <2>1, <2>2
<1>6. ASSUME NEW j \in LiveIn(u), NEW k \in LiveIn(u), j # k PROVE Apart(u[j], u[k])
  <2>1. \A m \in LiveIn(u) : m = i \/ (m \in LiveIn(t) /\ u[m] = t[m])  BY <1>0, <1>1, <1>2 DEF LiveIn
  <2>2. CASE j = i  BY <1>0, <2>1, <2>2, <1>1, <1>6 DEF Apart, Matches
  <2>3. CASE k = i  BY <1>0, <2>1, <2>3, <1>1, <1>6 DEF Apart, Matches
  <2>4. CASE j # i /\ k # i  BY <2>1, <2>4, <1>0, <1>6 DEF TableOK
  <2> QED  BY <2>2, <2>3, <2>4
<1>7. \A j \in 0..n - 1 : u[j].value = Null => u[j] \in {Empty, Tombstone}  BY <1>0, <1>1 DEF TableOK
<1>8. TableOK(u, n)  BY <1>1, <1>5, <1>6, <1>7 DEF TableOK
<1>9. Pairs(u) = {Pair(t[j]) : j \in LiveIn(t) \ {i}} \cup {Pair(b)}
  <2>1. \A j \in LiveIn(t) \ {i} : j \in LiveIn(u) /\ u[j] = t[j]  BY <1>0, <1>1, <1>2 DEF LiveIn
  <2>2. \A j \in LiveIn(u) : j = i \/ j \in LiveIn(t) \ {i}  BY <1>0, <1>2
  <2>3. i \in LiveIn(u)  BY <1>0, <1>2
  <2> QED  BY <2>1, <2>2, <2>3, <1>1 DEF Pairs
<1> QED  BY <1>2, <1>8, <1>9 DEF HasPut

-----------------------------------------------------------------------------
(* The loop of pht_hashtable_insert_direct, after d turns: the item in hand *)
(* is as far from its home as it says, and the table with it holds what it *)
(* held before and the new item.                                           *)
InHand(t, b, n, index, d) ==
  /\ b.value # Null /\ Known(b) /\ b.variance <= d
  /\ Spot(b, b.variance, n) = After(index, d, n)
  /\ \A c \in 0..n - 1 : c < b.variance => ~NeverUsed(t[Spot(b, c, n)])
  /\ \A i \in LiveIn(t) : Apart(t[i], b)
Turned(vals, item, n, d, s) ==
  /\ s \in [vals : [0..n - 1 -> Bucket], item : Bucket, placed : BOOLEAN]
  /\ TableOK(s.vals, n)
  /\ s.placed => Pairs(s.vals) = Pairs(vals) \cup {Pair(item)}
  /\ ~s.placed =>
       /\ LiveIn(s.vals) = LiveIn(vals)
       /\ \A c \in 0..n - 1 : c < d => After(Home(item.hash, n), c, n) \in LiveIn(vals)
       /\ InHand(s.vals, s.item, n, Home(item.hash, n), d)
       /\ Pairs(s.vals) \cup {Pair(s.item)} = Pairs(vals) \cup {Pair(item)}

(* One turn.                                                               *)
LEMMA TurnKeeps ==
  ASSUME NEW n \in Nat \ {0}, NEW vals, NEW item \in Bucket, NEW d \in 0..n - 1,
         NEW s, Turned(vals, item, n, d, s)
  PROVE  Turned(vals, item, n, d + 1, Turn(s, After(Home(item.hash, n), d, n)))
<1> DEFINE home == Home(item.hash, n)  t == s.vals  h == s.item  i == After(home, d, n)  b == t[i]
<1>1. item.hash \in Int /\ home \in 0..n - 1  BY Round DEF Bucket
<1>2. i \in 0..n - 1  BY <1>1, Round
<1>3. /\ s \in [vals : [0..n - 1 -> Bucket], item : Bucket, placed : BOOLEAN]
      /\ t \in [0..n - 1 -> Bucket] /\ DOMAIN t = 0..n - 1 /\ h \in Bucket /\ TableOK(t, n)
      /\ b \in Bucket
  BY <1>2 DEF Turned
<1> HIDE DEF home, i
<1>4. CASE s.placed
  <2>1. Turn(s, i) = s  BY <1>4 DEF Turn
  <2> QED  BY <1>4, <2>1 DEF Turned, home, i
<1>5. CASE ~s.placed
  <2>1. /\ LiveIn(t) = LiveIn(vals) /\ InHand(t, h, n, home, d)
        /\ Pairs(t) \cup {Pair(h)} = Pairs(vals) \cup {Pair(item)}
        /\ \A c \in 0..n - 1 : c < d => After(home, c, n) \in LiveIn(vals)
    BY <1>5 DEF Turned, home
  <2>2. Placed(t, i, h, n)  BY <2>1, <1>3 DEF InHand, Placed, Bucket, i
  <2>3. h.hash \in Int /\ h.variance \in 0..d  BY <2>1, <1>3 DEF InHand, Bucket
  <2> DEFINE u == [t EXCEPT ![i] = h]
  <2>4. \A j \in LiveIn(t) : j # i => Apart(t[j], h)  BY <2>1 DEF InHand
  <2>5. /\ TableOK(u, n) /\ LiveIn(u) = LiveIn(t) \cup {i}
        /\ Pairs(u) = {Pair(t[j]) : j \in LiveIn(t) \ {i}} \cup {Pair(h)}
    <3>1. h.value # Null  BY <2>1 DEF InHand
    <3>2. Puts(t, i, h, n, u)  BY <1>2, <1>3, <2>2, <2>4, <3>1 DEF Puts
    <3> HIDE DEF t, h, u
    <3> QED  BY <3>2, PutOK DEF HasPut
  <2>6. u \in [0..n - 1 -> Bucket] /\ u[i] = h /\ \A j \in 0..n - 1 : j # i => u[j] = t[j]
    BY <1>2, <1>3
  <2>7. CASE b.value = Null
    <3>1. Turn(s, i) = [s EXCEPT !.vals[i] = h, !.placed = TRUE]  BY <1>5, <2>7 DEF Turn
    <3>2. Turn(s, i) = [vals |-> u, item |-> h, placed |-> TRUE]  BY <3>1, <1>3
    <3>3. i \notin LiveIn(t)  BY <2>7 DEF LiveIn
    <3>4. Pairs(u) = Pairs(vals) \cup {Pair(item)}  BY <2>1, <2>5, <3>3 DEF Pairs
    <3> HIDE DEF u
    <3> QED  BY <1>3, <2>5, <2>6, <3>2, <3>4 DEF Turned, i, home
  <2>8. CASE b.value # Null
    <3>1. i \in LiveIn(t)  BY <1>2, <1>3, <2>8 DEF LiveIn
    <3>2. \A c \in 0..n - 1 : c < d + 1 => After(home, c, n) \in LiveIn(vals)
      <4>1. \A c \in 0..n - 1 : c < d + 1 => c < d \/ c = d  OBVIOUS
      <4> QED  BY <2>1, <3>1, <4>1 DEF i
    <3>3. ASSUME NEW c \in Bucket, c.variance \in 0..d, Spot(c, c.variance, n) = i
          PROVE  /\ Further(c) \in Bucket /\ Further(c).value = c.value /\ Pair(Further(c)) = Pair(c)
                 /\ Further(c).variance = c.variance + 1 /\ (Known(c) => Known(Further(c)))
                 /\ \A k \in 0..n - 1 : Spot(Further(c), k, n) = Spot(c, k, n)
                 /\ Spot(Further(c), c.variance + 1, n) = After(home, d + 1, n)
                 /\ \A e : Apart(e, c) => Apart(e, Further(c))
      <4>1. /\ Further(c) \in Bucket /\ Further(c).value = c.value /\ Further(c).key = c.key
            /\ Further(c).hash = c.hash /\ Further(c).variance = c.variance + 1
        BY DEF Further, Bucket
      <4>2. c.hash \in Int  BY DEF Bucket
      <4>3. Home(c.hash, n) \in 0..n - 1  BY <4>2, Round
      <4>4. After(Home(c.hash, n), c.variance + 1, n) = After(home, d + 1, n)
        BY <1>1, <3>3, <4>3, d \in 0..n - 1 DEF Spot, After, i
      <4> HIDE DEF home
      <4> QED  BY <4>1, <4>4 DEF Pair, Known, Matches, Spot, Apart
    <3>4. CASE Steals(h, b)
      <4>1. Turn(s, i) = [s EXCEPT !.vals[i] = h, !.item = Further(b)]  BY <1>5, <2>8, <3>4 DEF Turn
      <4>2. Turn(s, i) = [vals |-> u, item |-> Further(b), placed |-> FALSE]  BY <4>1, <1>3, <1>5
      <4>3. Placed(t, i, b, n)  BY <1>3, <3>1 DEF TableOK
      <4>4. b.variance \in 0..d /\ Spot(b, b.variance, n) = i
        BY <4>3, <1>3, <2>3, <3>4 DEF Steals, Bucket, Placed
      <4>5. LiveIn(u) = LiveIn(vals)  BY <2>1, <2>5, <3>1
      <4>6. \A j \in LiveIn(u) : Apart(u[j], b)
        <5>1. Apart(h, b)  BY <2>1, <3>1 DEF InHand, Apart, Matches
        <5>2. \A j \in LiveIn(t) : j # i => Apart(t[j], b) /\ u[j] = t[j]
          BY <1>3, <2>6, <3>1 DEF TableOK, LiveIn
        <5> QED  BY <2>1, <4>5, <2>6, <5>1, <5>2
      <4>7. \A c \in 0..n - 1 : c < b.variance + 1 => ~NeverUsed(u[Spot(b, c, n)])
        <5>1. ASSUME NEW c \in 0..n - 1, c < b.variance + 1 PROVE ~NeverUsed(u[Spot(b, c, n)])
          <6>1. c < b.variance \/ c = b.variance  BY <5>1, <4>4
          <6>2. CASE Spot(b, c, n) = i  BY <6>2, <2>6, <2>1 DEF InHand, NeverUsed
          <6>3. CASE Spot(b, c, n) # i /\ c < b.variance
            <7>1. b.hash \in Int  BY <1>3 DEF Bucket
            <7>2. Home(b.hash, n) \in 0..n - 1  BY <7>1, Round
            <7>3. Spot(b, c, n) \in 0..n - 1  BY <7>2 DEF Spot, After
            <7>4. ~NeverUsed(t[Spot(b, c, n)])  BY <6>3, <4>3 DEF Placed
            <7> QED  BY <6>3, <7>3, <7>4, <2>6
          <6> QED  BY <6>1, <6>2, <6>3, <4>4
        <5> QED  BY <5>1
      <4>8. /\ Further(b) \in Bucket /\ Further(b).value = b.value /\ Pair(Further(b)) = Pair(b)
            /\ Further(b).variance = b.variance + 1 /\ Known(Further(b))
            /\ \A k \in 0..n - 1 : Spot(Further(b), k, n) = Spot(b, k, n)
            /\ Spot(Further(b), b.variance + 1, n) = After(home, d + 1, n)
            /\ \A e : Apart(e, b) => Apart(e, Further(b))
        <5>1. Known(b)  BY <4>3 DEF Placed
        <5> HIDE DEF b
        <5> QED  BY <1>3, <3>3, <4>4, <5>1
      <4> HIDE DEF b, u
      <4>9. InHand(u, Further(b), n, home, d + 1)
        BY <2>8, <4>4, <4>6, <4>7, <4>8 DEF InHand
      <4>10. Pairs(u) \cup {Pair(Further(b))} = Pairs(vals) \cup {Pair(item)}
        <5>1. Pairs(t) = {Pair(t[j]) : j \in LiveIn(t) \ {i}} \cup {Pair(b)}
          BY <3>1 DEF Pairs, b
        <5> HIDE DEF t
        <5> QED  BY <2>1, <2>5, <4>8, <5>1
      <4>11. [vals |-> u, item |-> Further(b), placed |-> FALSE]
               \in [vals : [0..n - 1 -> Bucket], item : Bucket, placed : BOOLEAN]
        BY <2>6, <4>8
      <4>12. Turned(vals, item, n, d + 1, [vals |-> u, item |-> Further(b), placed |-> FALSE])
        BY <2>5, <3>2, <4>5, <4>9, <4>10, <4>11 DEF Turned, home
      <4> QED  BY <4>2, <4>12 DEF i, home
    <3>5. CASE ~Steals(h, b)
      <4>1. Turn(s, i) = [s EXCEPT !.item = Further(h)]  BY <1>5, <2>8, <3>5 DEF Turn
      <4>2. Turn(s, i) = [vals |-> t, item |-> Further(h), placed |-> FALSE]  BY <4>1, <1>3, <1>5
      <4>3. /\ Known(h) /\ Spot(h, h.variance, n) = i /\ \A j \in LiveIn(t) : Apart(t[j], h)
        BY <2>1 DEF InHand, i
      <4>4. /\ Further(h) \in Bucket /\ Further(h).value = h.value /\ Pair(Further(h)) = Pair(h)
            /\ Further(h).variance = h.variance + 1 /\ Known(Further(h))
            /\ \A k \in 0..n - 1 : Spot(Further(h), k, n) = Spot(h, k, n)
            /\ Spot(Further(h), h.variance + 1, n) = After(home, d + 1, n)
            /\ \A e : Apart(e, h) => Apart(e, Further(h))
        <5> HIDE DEF h
        <5> QED  BY <1>3, <2>3, <3>3, <4>3
      <4>5. \A c \in 0..n - 1 : c < h.variance + 1 => ~NeverUsed(t[Spot(h, c, n)])
        <5>1. \A c \in 0..n - 1 : c < h.variance + 1 => c < h.variance \/ c = h.variance  BY <2>3
        <5>2. ~NeverUsed(t[i])  BY <2>8 DEF NeverUsed
        <5> QED  BY <2>1, <4>3, <5>1, <5>2 DEF InHand
      <4>6. h.value # Null  BY <2>1 DEF InHand
      <4> HIDE DEF h, t
      <4>7. InHand(t, Further(h), n, home, d + 1)
        BY <2>3, <4>3, <4>4, <4>5, <4>6 DEF InHand
      <4> QED  BY <1>3, <2>1, <3>2, <4>2, <4>4, <4>7 DEF Turned, i, home
    <3> QED  BY <3>4, <3>5
  <2> QED  BY <2>7, <2>8
<1> QED  BY <1>3, <1>4, <1>5

(* An item whose key is not in the table, which has room.                  *)
Inserting(vals, item, n) ==
  /\ TableOK(vals, n) /\ item \in Bucket /\ item.value # Null /\ item.variance = 0 /\ Known(item)
  /\ \A i \in LiveIn(vals) : Apart(vals[i], item)
  /\ \E i \in 0..n - 1 : i \notin LiveIn(vals)
(* The whole loop: the table holds the new item besides, wherever its      *)
(* collisions have moved the others.                                       *)
LEMMA InsertOK ==
  ASSUME NEW n \in Nat \ {0}, NEW vals, NEW item, Inserting(vals, item, n)
  PROVE  /\ TableOK(Turns(vals, item, n)[n].vals, n)
         /\ Pairs(Turns(vals, item, n)[n].vals) = Pairs(vals) \cup {Pair(item)}
<1> DEFINE s(d) == Turns(vals, item, n)[d]  home == Home(item.hash, n)
           T == {d \in Nat : d <= n => Turned(vals, item, n, d, s(d))}
<1>1. /\ TableOK(vals, n) /\ item \in Bucket /\ item.value # Null /\ item.variance = 0 /\ Known(item)
      /\ \A i \in LiveIn(vals) : Apart(vals[i], item)
  BY DEF Inserting
<1>2. item.hash \in Int /\ home \in 0..n - 1  BY <1>1, Round DEF Bucket
<1>3. /\ s(0) = [vals |-> vals, item |-> item, placed |-> FALSE]
      /\ \A d \in 0..n - 1 : s(d + 1) = Turn(s(d), After(home, d, n))
  BY TurnsUnfold
<1>4. 0 \in T
  <2>1. vals \in [0..n - 1 -> Bucket]  BY <1>1 DEF TableOK
  <2>2. InHand(vals, item, n, home, 0)  BY <1>1, <1>2 DEF InHand, Spot
  <2>3. s(0) \in [vals : [0..n - 1 -> Bucket], item : Bucket, placed : BOOLEAN]  BY <1>1, <1>3, <2>1
  <2> HIDE DEF s
  <2>4. Turned(vals, item, n, 0, s(0))  BY <1>1, <1>3, <2>2, <2>3 DEF Turned, home
  <2> QED  BY <2>4
<1>5. ASSUME NEW d \in Nat, d \in T PROVE d + 1 \in T
  <2>1. CASE d + 1 <= n
    <3>1. d \in 0..n - 1 /\ Turned(vals, item, n, d, s(d))  BY <1>5, <2>1
    <3> HIDE DEF s
    <3>2. Turned(vals, item, n, d + 1, Turn(s(d), After(home, d, n)))  BY <1>1, <3>1, TurnKeeps DEF home
    <3> QED  BY <1>3, <3>1, <3>2
  <2>2. CASE ~(d + 1 <= n)  BY <2>2
  <2> QED  BY <2>1, <2>2
<1>6. \A d \in Nat : d \in T
  <2> HIDE DEF T
  <2> QED  BY <1>4, <1>5, Induction
<1>7. Turned(vals, item, n, n, s(n))  BY <1>6
<1>8. s(n).placed
  <2> SUFFICES ASSUME ~s(n).placed PROVE FALSE  OBVIOUS
  <2>1. PICK i \in 0..n - 1 : i \notin LiveIn(vals)  BY DEF Inserting
  <2>2. PICK d \in 0..n - 1 : After(home, d, n) = i  BY <1>2, Round
  <2> HIDE DEF s
  <2>3. After(home, d, n) \in LiveIn(vals)  BY <1>7 DEF Turned, home
  <2> QED  BY <2>1, <2>2, <2>3
<1> QED  BY <1>7, <1>8 DEF Turned

-----------------------------------------------------------------------------
RepopulateUnfolds ==
  /\ Repopulated[0] = [i \in 0..2 * Size - 1 |-> Empty]
  /\ \A m \in 0..Size - 1 : Repopulated[m + 1] =
       IF values[m].value = Null THEN Repopulated[m]
       ELSE Insert(Repopulated[m], values[m], values[m].value, 2 * Size)
(* pht_hashtable_repopulate, one bucket at a time.                         *)
LEMMA RepopulateUnfold == Size \in Nat => RepopulateUnfolds
<1> DEFINE N == Size
           First == [i \in 0..2 * N - 1 |-> Empty]
           Row(f, m) == LET b == values[m - 1]
                        IN IF b.value = Null THEN f[m - 1] ELSE Insert(f[m - 1], b, b.value, 2 * N)
           Step(f, m) == IF m = 0 THEN First ELSE Row(f, m)
           Good(f, m) == f = [d \in 0..m |-> Step(f, d)]
           S == {m \in Nat : \E f : Good(f, m)}
<1> SUFFICES ASSUME N \in Nat PROVE RepopulateUnfolds  OBVIOUS
<1>1. 0 \in S
  <2>1. Good([d \in 0..0 |-> First], 0)  OBVIOUS
  <2> QED  BY <2>1
<1>2. ASSUME NEW m \in Nat, m \in S PROVE m + 1 \in S
  <2>1. PICK f : Good(f, m)  BY <1>2
  <2> DEFINE g == [d \in 0..m + 1 |-> IF d <= m THEN f[d] ELSE Step(f, d)]
  <2>2. ASSUME NEW d \in 0..m + 1 PROVE g[d] = Step(g, d)
    <3>1. d # 0 => d - 1 \in 0..m  OBVIOUS
    <3>2. d # 0 => g[d - 1] = f[d - 1]
      <4> HIDE DEF Step
      <4> QED  BY <3>1
    <3>3. Step(g, d) = Step(f, d)
      <4> HIDE DEF First, g, N
      <4> QED  BY <3>2
    <3>4. d <= m => f[d] = Step(f, d)
      <4> HIDE DEF Step
      <4> QED  BY <2>1
    <3> HIDE DEF Step
    <3> QED  BY <3>3, <3>4
  <2>3. Good(g, m + 1)
    <3> HIDE DEF Step
    <3>1. g = [d \in 0..m + 1 |-> g[d]]  OBVIOUS
    <3> HIDE DEF g
    <3> QED  BY <2>2, <3>1
  <2> HIDE DEF Good
  <2> QED  BY <2>3
<1>3. N \in S
  <2> HIDE DEF S, N
  <2> QED  BY <1>1, <1>2, Induction
<1>4. \E f : Good(f, N)  BY <1>3
<1>5. Good(Repopulated, N)
  <2>1. Repopulated = CHOOSE f : Good(f, N)  BY DEF Repopulated
  <2> HIDE DEF Good
  <2> QED  BY <1>4, <2>1
<1>6. \A m \in 0..N : Repopulated[m] = Step(Repopulated, m)
  <2> HIDE DEF Step
  <2> QED  BY <1>5
<1>7. Repopulated[0] = First
  <2> HIDE DEF First, N
  <2> QED  BY <1>6
<1>8. ASSUME NEW m \in 0..N - 1 PROVE Repopulated[m + 1] = Row(Repopulated, m + 1)
  <2>1. m + 1 \in 0..N /\ m + 1 # 0  BY DEF N
  <2> HIDE DEF Row, N
  <2> QED  BY <1>6, <2>1
<1>9. ASSUME NEW m \in 0..N - 1
      PROVE  Row(Repopulated, m + 1) = IF values[m].value = Null THEN Repopulated[m]
                                       ELSE Insert(Repopulated[m], values[m], values[m].value, 2 * Size)
  <2>1. (m + 1) - 1 = m  OBVIOUS
  <2> QED  BY <2>1
<1> HIDE DEF Row
<1> QED  BY <1>7, <1>8, <1>9 DEF RepopulateUnfolds

-----------------------------------------------------------------------------
(* A table has as many live buckets as it holds items.                     *)
LEMMA CountItems ==
  ASSUME NEW n \in Nat, NEW t, TableOK(t, n)
  PROVE  /\ IsFiniteSet(LiveIn(t)) /\ Cardinality(LiveIn(t)) \in 0..n
         /\ IsFiniteSet(Pairs(t)) /\ Cardinality(Pairs(t)) = Cardinality(LiveIn(t))
         /\ (Cardinality(Pairs(t)) < n => \E i \in 0..n - 1 : i \notin LiveIn(t))
<1>1. IsFiniteSet(0..n - 1) /\ Cardinality(0..n - 1) = n  BY FS_Interval
<1>2. LiveIn(t) \subseteq 0..n - 1  BY DEF LiveIn, TableOK
<1>3. IsFiniteSet(LiveIn(t)) /\ Cardinality(LiveIn(t)) <= n  BY <1>1, <1>2, FS_Subset
<1>4. Cardinality(LiveIn(t)) \in Nat  BY <1>3, FS_CardinalityType
<1> DEFINE f == [i \in LiveIn(t) |-> Pair(t[i])]
<1>5. f \in Surjection(LiveIn(t), Pairs(t))  BY DEF Surjection, Pairs
<1>6. f \in Injection(LiveIn(t), Pairs(t))
  <2>1. ASSUME NEW i \in LiveIn(t), NEW j \in LiveIn(t), f[i] = f[j] PROVE i = j
    <3>1. t[i].value = t[j].value  BY <2>1 DEF Pair
    <3> QED  BY <3>1 DEF TableOK, Apart
  <2>2. f \in [LiveIn(t) -> Pairs(t)]  BY DEF Pairs
  <2> HIDE DEF f
  <2> QED  BY <2>1, <2>2 DEF Injection, IsInjective
<1>7. IsFiniteSet(Pairs(t)) /\ Cardinality(Pairs(t)) = Cardinality(LiveIn(t))
  <2> HIDE DEF f
  <2> QED  BY <1>3, <1>5, <1>6, FS_Surjection
<1>8. Cardinality(Pairs(t)) < n => \E i \in 0..n - 1 : i \notin LiveIn(t)
  <2>1. (\A i \in 0..n - 1 : i \in LiveIn(t)) => LiveIn(t) = 0..n - 1  BY <1>2
  <2> QED  BY <1>1, <1>7, <2>1
<1> QED  BY <1>3, <1>4, <1>7, <1>8

(* An item that is to be inserted.                                         *)
LEMMA NewItem ==
  ASSUME NEW b, b.key \in {k.key : k \in Keys} \cup {Null}, b.hash \in Int, Known(b), NEW e \in Entries
  PROVE  /\ Item(b, e) \in Bucket /\ Item(b, e).value # Null /\ Item(b, e).variance = 0
         /\ Known(Item(b, e)) /\ Pair(Item(b, e)) = <<b.key, b.hash, e>>
         /\ \A c : (~Matches(c, b) /\ c.value # e) <=> Apart(c, Item(b, e))
BY HabitsAssumption DEF Item, Bucket, Known, Matches, Apart, Pair

(* The table of a resize has the items of the old one.                     *)
LEMMA RepopulateOK ==
  ASSUME Size \in Nat, Size >= 2, TableOK(values, Size)
  PROVE  TableOK(Repopulated[Size], 2 * Size) /\ Pairs(Repopulated[Size]) = Pairs(values)
<1> DEFINE N == Size  M == 2 * Size
           Before(m) == {Pair(values[i]) : i \in {j \in LiveIn(values) : j < m}}
           OK(t, m) == TableOK(t, M) /\ Pairs(t) = Before(m)
           T == {m \in Nat : m <= N => OK(Repopulated[m], m)}
<1>1. RepopulateUnfolds  BY RepopulateUnfold
<1>2. N \in Nat /\ N >= 2 /\ M \in Nat \ {0} /\ N < M  OBVIOUS
<1>3. /\ values \in [0..N - 1 -> Bucket] /\ LiveIn(values) \subseteq 0..N - 1
      /\ \A i \in LiveIn(values) : Known(values[i])
      /\ \A i, j \in LiveIn(values) : i # j => Apart(values[i], values[j])
  BY DEF TableOK, LiveIn, Placed
<1>4. 0 \in T
  <2> DEFINE t == [i \in 0..M - 1 |-> Empty]
  <2>1. Empty \in Bucket /\ Empty.value = Null  BY DEF Empty, Bucket
  <2>2. t \in [0..M - 1 -> Bucket] /\ LiveIn(t) = {}  BY <2>1 DEF LiveIn
  <2>3. \A i \in 0..M - 1 : t[i] = Empty  OBVIOUS
  <2> HIDE DEF t, M
  <2>4. TableOK(t, M)  BY <2>2, <2>3 DEF TableOK
  <2>5. Pairs(t) = {}  BY <2>2 DEF Pairs
  <2>6. Before(0) = {}  BY <1>2, <1>3
  <2>7. Repopulated[0] = t  BY <1>1 DEF RepopulateUnfolds, t, M
  <2> QED  BY <2>4, <2>5, <2>6, <2>7
<1>5. ASSUME NEW m \in Nat, m \in T, m + 1 <= N PROVE OK(Repopulated[m + 1], m + 1)
  <2>1. m \in 0..N - 1 /\ OK(Repopulated[m], m)  BY <1>2, <1>5
  <2> DEFINE t == Repopulated[m]  b == values[m]
  <2>2. b \in Bucket  BY <1>3, <2>1
  <2>3. \A j \in LiveIn(values) : j < m + 1 <=> j < m \/ j = m  BY <1>2, <1>3
  <2>4. CASE b.value = Null
    <3>1. Repopulated[m + 1] = t  BY <1>1, <2>1, <2>4 DEF RepopulateUnfolds
    <3>2. m \notin LiveIn(values)  BY <2>4 DEF LiveIn
    <3>3. Before(m + 1) = Before(m)  BY <2>3, <3>2
    <3> QED  BY <2>1, <3>1, <3>3
  <2>5. CASE b.value # Null
    <3> DEFINE item == Item(b, b.value)
    <3>1. Repopulated[m + 1] = Turns(t, item, M)[M].vals
      BY <1>1, <2>1, <2>5 DEF RepopulateUnfolds, Insert
    <3>2. m \in LiveIn(values)  BY <1>3, <2>1, <2>5 DEF LiveIn
    <3>3. Before(m + 1) = Before(m) \cup {Pair(b)}  BY <2>3, <3>2
    <3>4. /\ b.value \in Entries /\ b.key \in {k.key : k \in Keys} \cup {Null} /\ b.hash \in Int /\ Known(b)
      BY <1>3, <2>2, <2>5, <3>2 DEF Bucket
    <3>5. /\ item \in Bucket /\ item.value # Null /\ item.variance = 0
          /\ Known(item) /\ Pair(item) = Pair(b)
          /\ \A c : Apart(c, b) => Apart(c, item)
      <4> HIDE DEF b
      <4>1. Pair(item) = <<b.key, b.hash, b.value>>  BY <3>4, NewItem
      <4> QED  BY <3>4, <4>1, NewItem DEF Pair, Apart
    <3>6. ASSUME NEW i \in LiveIn(t) PROVE Apart(t[i], item)
      <4>1. Pair(t[i]) \in Before(m)  BY <2>1 DEF Pairs
      <4>2. PICK j \in LiveIn(values) : j < m /\ Pair(t[i]) = Pair(values[j])  BY <4>1
      <4>3. Apart(values[j], b)  BY <1>2, <1>3, <3>2, <4>2
      <4>4. Apart(t[i], b)  BY <4>2, <4>3 DEF Pair, Apart, Matches
      <4> HIDE DEF b, item
      <4> QED  BY <3>5, <4>4
    <3>7. \E i \in 0..M - 1 : i \notin LiveIn(t)
      <4>1. Before(m) \subseteq Pairs(values)  BY DEF Pairs
      <4>2. IsFiniteSet(Pairs(values)) /\ Cardinality(Pairs(values)) <= N /\ Cardinality(Pairs(values)) \in Nat
        BY <1>2, CountItems
      <4>3. Cardinality(Pairs(t)) <= Cardinality(Pairs(values)) /\ IsFiniteSet(Pairs(t))
        <5> HIDE DEF Before
        <5> QED  BY <2>1, <4>1, <4>2, FS_Subset
      <4>4. Cardinality(Pairs(t)) \in Nat  BY <4>3, FS_CardinalityType
      <4>5. Cardinality(Pairs(t)) < M  BY <1>2, <4>2, <4>3, <4>4
      <4> HIDE DEF t, M
      <4> QED  BY <1>2, <2>1, <4>5, CountItems DEF t
    <3>8. Inserting(t, item, M)
      <4> HIDE DEF item, t, M
      <4> QED  BY <2>1, <3>5, <3>6, <3>7 DEF Inserting, t
    <3> HIDE DEF item, t, M, Before
    <3>9. TableOK(Turns(t, item, M)[M].vals, M) /\ Pairs(Turns(t, item, M)[M].vals) = Pairs(t) \cup {Pair(item)}
      BY <1>2, <3>8, InsertOK
    <3> QED  BY <2>1, <3>1, <3>3, <3>5, <3>9 DEF t
  <2> QED  BY <2>4, <2>5
<1>6. \A m \in Nat : m \in T => m + 1 \in T
  <2> HIDE DEF OK
  <2> QED  BY <1>5
<1>7. \A m \in Nat : m \in T
  <2> HIDE DEF T
  <2> QED  BY <1>4, <1>6, Induction
<1>8. OK(Repopulated[N], N)
  <2> HIDE DEF OK
  <2> QED  BY <1>2, <1>7
<1>9. Before(N) = Pairs(values)  BY <1>2, <1>3 DEF Pairs
<1> QED  BY <1>8, <1>9

-----------------------------------------------------------------------------
(* The inductive invariant.                                                *)
BucketsOK == /\ Size \in Nat /\ Size >= 2 /\ TableOK(values, Size)
             /\ used = Cardinality(Live) /\ used <= Size - (Size \div 4)
EntriesOK == /\ NothingLost /\ lost \subseteq entries /\ entries \subseteq Entries
             /\ out \in Entries \cup {Nothing, Error}
CrashOK == /\ crashed \in BOOLEAN
           /\ crashed => MarkKey \in Keys /\ \E i \in ToUpdate(MarkKey) : values[i] = Tombstone
IInv == BucketsOK /\ EntriesOK /\ TableTrue /\ CrashOK

(* The size of a table is its length.                                      *)
LEMMA TableSize ==
  ASSUME NEW t, NEW n \in Nat, DOMAIN t = 0..n - 1
  PROVE  Cardinality(DOMAIN t) = n
BY FS_Interval

(* A probe finds the first bucket that stops it.                           *)
LEMMA ProbeFirst ==
  ASSUME Size \in Nat, NEW k, NEW stops
  PROVE  \/ Probe(k, stops) = {} /\ \A d \in 0..Size - 1 : Spot(k, d, Size) \notin stops
         \/ \E m \in 0..Size - 1 :
              /\ Probe(k, stops) = {Spot(k, m, Size)} /\ Spot(k, m, Size) \in stops
              /\ \A d \in 0..Size - 1 : Spot(k, d, Size) \in stops => m <= d
<1> DEFINE N == Size  D == {d \in 0..N - 1 : Spot(k, d, N) \in stops}
<1>1. Probe(k, stops) = IF D = {} THEN {} ELSE {Spot(k, Min(D), N)}  BY DEF Probe, Spot
<1>2. CASE D = {}  BY <1>1, <1>2
<1>3. CASE D # {}
  <2>1. D \subseteq Nat  OBVIOUS
  <2>2. \E m \in D : \A d \in D : m <= d
    <3> HIDE DEF D
    <3> QED  BY <1>3, <2>1, LeastNumber
  <2>3. Min(D) \in D /\ \A d \in D : Min(D) <= d
    <3> HIDE DEF D
    <3> QED  BY <2>2 DEF Min
  <2> DEFINE m == Min(D)
  <2>4. m \in 0..N - 1 /\ Spot(k, m, N) \in stops /\ \A d \in 0..N - 1 : Spot(k, d, N) \in stops => m <= d
    <3> HIDE DEF m
    <3> QED  BY <2>3 DEF m
  <2>5. Probe(k, stops) = {Spot(k, m, N)}  BY <1>1, <1>3
  <2> HIDE DEF m
  <2> QED  BY <2>4, <2>5
<1> QED  BY <1>2, <1>3

With(k) == {i \in Live : Matches(values[i], k)}
(* Searching finds the bucket of a key, and only that.                     *)
LEMMA SearchFinds ==
  ASSUME BucketsOK, NEW k \in Keys
  PROVE  /\ Found(k) = With(k)
         /\ \A i \in With(k) : With(k) = {i} /\ (k # MarkKey => ToUpdate(k) = {i})
         /\ \A j \in ToUpdate(k) : j \in With(k) \/ (j \in Hits(k) /\ values[j].value = Null)
<1> DEFINE N == Size  unused == {i \in DOMAIN values : NeverUsed(values[i])}
<1>1. /\ N \in Nat /\ values \in [0..N - 1 -> Bucket] /\ DOMAIN values = 0..N - 1
      /\ \A i \in Live : Placed(values, i, values[i], N) /\ i \in 0..N - 1
      /\ \A i, j \in Live : i # j => Apart(values[i], values[j])
      /\ \A i \in 0..N - 1 : i \notin Live => values[i] \in {Empty, Tombstone}
  BY DEF BucketsOK, TableOK, Live, LiveIn
<1> HIDE DEF N
<1>2. Found(k) = Live \cap Probe(k, (Hits(k) \cap Live) \cup unused)  BY DEF Found
<1>3. Hits(k) \cap Live = With(k)  BY DEF Hits, With, Live
<1>4. unused \cap Live = {}  BY DEF NeverUsed, Live
<1>5. ASSUME NEW i \in With(k)
      PROVE  Found(k) = {i} /\ With(k) = {i} /\ (k # MarkKey => ToUpdate(k) = {i})
  <2> DEFINE v == values[i].variance
  <2>1. i \in Live /\ Matches(values[i], k) /\ i \in 0..N - 1  BY <1>1 DEF With
  <2>2. With(k) = {i}  BY <1>1, <2>1 DEF With, Apart, Matches
  <2>3. v \in 0..N - 1 /\ i = Spot(k, v, N)
        /\ \A d \in 0..N - 1 : d <= v => ~NeverUsed(values[Spot(k, d, N)])
    <3>1. values[i].hash = k.hash /\ values[i] \in Bucket  BY <1>1, <2>1 DEF Matches
    <3>2. v \in Nat  BY <3>1 DEF Bucket
    <3>3. Placed(values, i, values[i], N)  BY <1>1, <2>1
    <3>4. \A d : Spot(values[i], d, N) = Spot(k, d, N)  BY <3>1 DEF Spot
    <3>5. v < N /\ i = Spot(k, v, N) /\ \A d \in 0..N - 1 : d < v => ~NeverUsed(values[Spot(k, d, N)])
      BY <3>3, <3>4 DEF Placed
    <3>6. ~NeverUsed(values[i])  BY <2>1 DEF NeverUsed, Live
    <3>7. \A d \in 0..N - 1 : d <= v => d < v \/ d = v  BY <3>2
    <3> HIDE DEF v
    <3> QED  BY <1>1, <3>2, <3>5, <3>6, <3>7
  <2> HIDE DEF v
  <2>4. ASSUME NEW stops, i \in stops,
               \A j \in stops : j = i \/ (j \in 0..N - 1 /\ NeverUsed(values[j]))
        PROVE  Probe(k, stops) = {i}
    <3>1. PICK m \in 0..N - 1 : /\ Probe(k, stops) = {Spot(k, m, N)} /\ Spot(k, m, N) \in stops
                                /\ \A d \in 0..N - 1 : Spot(k, d, N) \in stops => m <= d
      BY <1>1, <2>3, <2>4, ProbeFirst DEF N
    <3>2. m <= v  BY <2>3, <2>4, <3>1
    <3>3. ~NeverUsed(values[Spot(k, m, N)])  BY <2>3, <3>1, <3>2
    <3> QED  BY <2>4, <3>1, <3>3
  <2>5. Found(k) = {i}
    <3> DEFINE stops == (Hits(k) \cap Live) \cup unused
    <3>1. i \in stops /\ \A j \in stops : j = i \/ (j \in 0..N - 1 /\ NeverUsed(values[j]))
      BY <1>1, <1>3, <2>2
    <3> HIDE DEF stops
    <3>2. Probe(k, stops) = {i}  BY <2>4, <3>1
    <3> QED  BY <1>2, <2>1, <3>2 DEF stops
  <2>6. ASSUME k # MarkKey PROVE ToUpdate(k) = {i}
    <3>1. i \in Hits(k)  BY <1>1, <2>1 DEF Hits
    <3>2. ASSUME NEW j \in Hits(k), j # i PROVE j \in 0..N - 1 /\ NeverUsed(values[j])
      <4>1. j \in 0..N - 1 /\ Matches(values[j], k)  BY <1>1, <3>2 DEF Hits
      <4>2. j \notin Live  BY <2>2, <3>2, <4>1 DEF With
      <4>3. values[j] # Tombstone
        <5>1. k.key # Null \/ k.hash # 1  BY <2>6, KeysAssumption DEF MarkKey
        <5> QED  BY <4>1, <5>1 DEF Matches, Tombstone, Empty
      <4>4. values[j] = Empty  BY <1>1, <4>1, <4>2, <4>3
      <4>5. NeverUsed(Empty)  BY DEF NeverUsed, Empty
      <4> QED  BY <4>1, <4>4, <4>5
    <3> QED  BY <2>4, <3>1, <3>2 DEF ToUpdate
  <2> QED  BY <2>2, <2>5, <2>6
<1>6. ASSUME With(k) = {} PROVE Found(k) = {}
  <2>1. \A i \in Probe(k, unused) : i \in unused  BY <1>1, ProbeFirst DEF N
  <2> QED  BY <1>2, <1>3, <1>4, <1>6, <2>1
<1>7. ASSUME NEW j \in ToUpdate(k) PROVE j \in With(k) \/ (j \in Hits(k) /\ values[j].value = Null)
  <2>1. j \in Hits(k)  BY <1>1, <1>7, ProbeFirst DEF ToUpdate, N
  <2> QED  BY <1>3, <2>1 DEF Hits, Live
<1> QED  BY <1>5, <1>6, <1>7

-----------------------------------------------------------------------------
(* What the calls do to the table and to the entries that are allocated.   *)
Holds(t, k, e) == <<k.key, k.hash, e>> \in Pairs(t)
Writes(k, e) == \A j \in Keys : \A x : Holds(values, j, x)' <=> IF j = k THEN x = e ELSE Holds(values, j, x)
Removes(k) == \A j \in Keys : \A x : Holds(values, j, x)' <=> j # k /\ Holds(values, j, x)

(* Different keys have different strings or hashes.                        *)
LEMMA KeysDiffer ==
  ASSUME NEW j \in Keys, NEW k \in Keys, j.key = k.key, j.hash = k.hash
  PROVE  j = k
BY KeysAssumption

(* The entries of a table are those of its items.                          *)
LEMMA ValuesOfPairs ==
  ASSUME NEW t, NEW x
  PROVE  (\E j \in LiveIn(t) : x = t[j].value) <=> \E p \in Pairs(t) : x = p[3]
<1>1. \A b : Pair(b)[3] = b.value  BY DEF Pair
<1>2. ASSUME NEW j \in LiveIn(t), x = t[j].value PROVE \E p \in Pairs(t) : x = p[3]
  <2>1. Pair(t[j]) \in Pairs(t)  BY DEF Pairs
  <2> QED  BY <1>1, <1>2, <2>1
<1>3. ASSUME NEW p \in Pairs(t), x = p[3] PROVE \E j \in LiveIn(t) : x = t[j].value
  <2>1. PICK j \in LiveIn(t) : p = Pair(t[j])  BY DEF Pairs
  <2> QED  BY <1>1, <1>3, <2>1
<1> QED  BY <1>2, <1>3

(* The entries a table owns.                                               *)
LEMMA OwnedEntries ==
  ASSUME NothingLost, lost \subseteq entries
  PROVE  \A e : e \in entries \ lost <=> \E i \in Live : e = values[i].value
BY DEF NothingLost

(* $ht[k] = e where k has an entry, which is dropped.                      *)
LEMMA UpdateStep ==
  ASSUME BucketsOK, EntriesOK, NEW k \in Keys, NEW e \in Entries, e \notin entries, Update(k, e)
  PROVE  BucketsOK' /\ EntriesOK' /\ Writes(k, e)
<1>1. PICK i \in ToUpdate(k) :
        /\ values[i].value # Null /\ values' = [values EXCEPT ![i].value = e]
        /\ entries' = (entries \ {values[i].value}) \cup {e}
  BY DEF Update
<1>2. i \in With(k) /\ With(k) = {i}  BY <1>1, SearchFinds
<1>3. /\ values' = [values EXCEPT ![i].value = e] /\ entries' = (entries \ {values[i].value}) \cup {e}
      /\ used' = used /\ lost' = lost /\ out' = Nothing
  BY <1>1 DEF Update
<1>4. /\ Size \in Nat \ {0} /\ TableOK(values, Size) /\ values \in [0..Size - 1 -> Bucket]
      /\ DOMAIN values = 0..Size - 1 /\ i \in Live /\ i \in 0..Size - 1 /\ Matches(values[i], k)
      /\ \A j, m \in Live : j # m => Apart(values[j], values[m])
  BY <1>2 DEF BucketsOK, TableOK, With, Live, LiveIn
<1> DEFINE b == [values[i] EXCEPT !.value = e]
<1>5. /\ b \in Bucket /\ b.key = values[i].key /\ b.hash = values[i].hash
      /\ b.variance = values[i].variance /\ b.value = e
  BY <1>4 DEF Bucket
<1>6. values' = [values EXCEPT ![i] = b]  BY <1>3
<1> HIDE DEF b
<1>7. \A j \in Live : values[j].value \in entries \ lost  BY OwnedEntries DEF EntriesOK
<1>8. Puts(values, i, b, Size, values')
  <2>1. Placed(values, i, values[i], Size)  BY <1>4 DEF TableOK, Live, LiveIn
  <2>2. Placed(values, i, b, Size)  BY <1>5, <2>1 DEF Placed, Spot, Known, Matches
  <2>3. \A j \in LiveIn(values) : j # i => Apart(values[j], b)
    BY <1>4, <1>5, <1>7 DEF Apart, Matches, Live, LiveIn
  <2>4. b.value # Null  BY <1>5, HabitsAssumption
  <2> QED  BY <1>4, <1>5, <1>6, <2>2, <2>3, <2>4 DEF Puts
<1>9. /\ TableOK(values', Size) /\ LiveIn(values') = LiveIn(values)
      /\ Pairs(values') = {Pair(values[j]) : j \in LiveIn(values) \ {i}} \cup {Pair(b)}
  <2>1. HasPut(values, i, b, Size, values')  BY <1>4, <1>8, PutOK
  <2>2. i \in LiveIn(values)  BY <1>4 DEF Live, LiveIn
  <2> QED  BY <2>1, <2>2 DEF HasPut
<1>10. Size' = Size /\ Live' = Live
  BY <1>4, <1>6, <1>9 DEF Size, Live, LiveIn
<1>11. BucketsOK'  BY <1>3, <1>9, <1>10 DEF BucketsOK
<1>12. NothingLost'
  <2>1. \A j \in Live : values'[j].value = IF j = i THEN e ELSE values[j].value
    BY <1>4, <1>5, <1>6 DEF Live
  <2>2. \A j \in Live : j # i => values[j].value # values[i].value  BY <1>4 DEF Apart
  <2>3. lost' = lost /\ lost \subseteq entries  BY <1>3 DEF EntriesOK
  <2>4. ASSUME NEW x \in entries' \ lost' PROVE \E j \in Live : x = values'[j].value
    <3>1. CASE x = e  BY <3>1, <1>4, <2>1
    <3>2. CASE x # e
      <4>1. x \in entries \ lost /\ x # values[i].value  BY <1>3, <2>3, <2>4, <3>2
      <4>2. PICK j \in Live : x = values[j].value  BY <4>1, OwnedEntries DEF EntriesOK
      <4> QED  BY <2>1, <4>1, <4>2
    <3> QED  BY <3>1, <3>2
  <2>5. ASSUME NEW j \in Live PROVE values'[j].value \in entries' \ lost'
    <3>1. values[j].value \in entries \ lost  BY <1>7
    <3>2. e \notin lost  BY <2>3
    <3> QED  BY <1>3, <2>1, <2>2, <2>3, <3>1, <3>2
  <2> QED  BY <1>10, <2>4, <2>5 DEF NothingLost
<1>13. EntriesOK'
  <2>1. values[i].value # Null  BY <1>4 DEF Live
  <2>2. lost' \subseteq entries'  BY <1>3, <1>4, <1>7 DEF EntriesOK
  <2> QED  BY <1>3, <1>12, <2>1, <2>2 DEF EntriesOK
<1>14. Writes(k, e)
  <2> SUFFICES ASSUME NEW j \in Keys, NEW x
               PROVE  <<j.key, j.hash, x>> \in Pairs(values') <=>
                        IF j = k THEN x = e ELSE <<j.key, j.hash, x>> \in Pairs(values)
    BY DEF Writes, Holds
  <2>1. Pairs(values) = {Pair(values[m]) : m \in LiveIn(values) \ {i}} \cup {Pair(values[i])}
    BY <1>4 DEF Pairs, Live, LiveIn
  <2>2. Pair(b) = <<k.key, k.hash, e>> /\ Pair(values[i]) = <<k.key, k.hash, values[i].value>>
    BY <1>4, <1>5 DEF Pair, Matches
  <2>3. \A m \in LiveIn(values) \ {i} : Pair(values[m])[1] # k.key \/ Pair(values[m])[2] # k.hash
    BY <1>4 DEF Pair, Apart, Matches, Live, LiveIn
  <2>4. CASE j = k  BY <1>9, <2>2, <2>3, <2>4
  <2>5. CASE j # k
    <3>1. j.key # k.key \/ j.hash # k.hash  BY <2>5, KeysDiffer
    <3> QED  BY <1>9, <2>1, <2>2, <2>5, <3>1
  <2> QED  BY <2>4, <2>5
<1> QED  BY <1>11, <1>13, <1>14

(* $ht[k] = e where k has no entry, into the table or into one of twice    *)
(* the room.                                                               *)
LEMMA InsertStep ==
  ASSUME BucketsOK, EntriesOK, NEW k \in Keys, NEW e \in Entries, e \notin entries, InsertNew(k, e)
  PROVE  BucketsOK' /\ EntriesOK' /\ Writes(k, e)
<1> DEFINE item == Item(k, e)
           t == IF Full THEN Repopulated[Size] ELSE values
           n == IF Full THEN 2 * Size ELSE Size
           u == Turns(t, item, n)[n].vals
<1>1. /\ values' = u /\ used' = used + 1 /\ entries' = entries \cup {e} /\ out' = Nothing
      /\ crashed' = crashed /\ lost' = lost
  BY DEF InsertNew, Inserted, Insert
<1>2. With(k) = {}  BY SearchFinds DEF InsertNew
<1>3. /\ k.key \in {j.key : j \in Keys} \cup {Null} /\ k.hash \in Int /\ Known(k)
  BY KeysAssumption DEF Known, Matches
<1>4. /\ item \in Bucket /\ item.value # Null /\ item.variance = 0 /\ Known(item)
      /\ Pair(item) = <<k.key, k.hash, e>> /\ \A c : (~Matches(c, k) /\ c.value # e) => Apart(c, item)
  <2> HIDE DEF item
  <2> QED  BY <1>3, NewItem DEF item
<1>5. /\ Size \in Nat /\ Size >= 2 /\ used \in Nat /\ TableOK(values, Size)
      /\ used = Cardinality(Pairs(values)) /\ IsFiniteSet(Pairs(values))
  <2>1. Live = LiveIn(values)  BY DEF Live, LiveIn
  <2> QED  BY <2>1, CountItems DEF BucketsOK
<1>6. /\ n \in Nat \ {0} /\ n >= 2 /\ used < n /\ used + 1 <= n - (n \div 4)
      /\ TableOK(t, n) /\ Pairs(t) = Pairs(values)
  <2>1. CASE Full
    <3>1. used = Size - (Size \div 4)  BY <2>1 DEF Full
    <3>2. 2 * Size - ((2 * Size) \div 4) >= Size - (Size \div 4) + 1  BY <1>5
    <3>3. TableOK(t, n) /\ Pairs(t) = Pairs(values)  BY <1>5, <2>1, RepopulateOK
    <3>4. n = 2 * Size  BY <2>1
    <3> HIDE DEF t, n
    <3> QED  BY <1>5, <3>1, <3>2, <3>3, <3>4
  <2>2. CASE ~Full
    <3>1. used < Size - (Size \div 4)  BY <1>5, <2>2 DEF Full, BucketsOK
    <3> QED  BY <1>5, <2>2, <3>1
  <2> QED  BY <2>1, <2>2
<1> HIDE DEF t, n, item
<1>7. ASSUME NEW i \in LiveIn(t) PROVE Apart(t[i], item)
  <2>1. Pair(t[i]) \in Pairs(values)  BY <1>6 DEF Pairs
  <2>2. PICK j \in LiveIn(values) : Pair(t[i]) = Pair(values[j])  BY <2>1 DEF Pairs
  <2>3. j \in Live /\ ~Matches(values[j], k)  BY <1>2, <2>2 DEF With, Live, LiveIn
  <2>4. values[j].value # e  BY <2>3, OwnedEntries DEF EntriesOK
  <2>5. ~Matches(t[i], k) /\ t[i].value # e  BY <2>2, <2>3, <2>4 DEF Pair, Matches
  <2> QED  BY <1>4, <2>5
<1>8. Inserting(t, item, n)
  <2>1. \E i \in 0..n - 1 : i \notin LiveIn(t)  BY <1>5, <1>6, CountItems
  <2> QED  BY <1>4, <1>6, <1>7, <2>1 DEF Inserting
<1>9. TableOK(u, n) /\ Pairs(u) = Pairs(values) \cup {Pair(item)}  BY <1>6, <1>8, InsertOK
<1> HIDE DEF u
<1>10. DOMAIN values' = 0..n - 1 /\ Size' = n /\ Live' = LiveIn(u)
  <2>1. DOMAIN u = 0..n - 1  BY <1>9 DEF TableOK
  <2> QED  BY <1>1, <1>6, <2>1, TableSize DEF Size, Live, LiveIn
<1>11. Pair(item) \notin Pairs(values)
  <2> SUFFICES ASSUME Pair(item) \in Pairs(values) PROVE FALSE  OBVIOUS
  <2>1. PICK j \in LiveIn(values) : Pair(item) = Pair(values[j])  BY DEF Pairs
  <2>2. j \in With(k)  BY <1>4, <2>1 DEF Pair, Matches, With, Live, LiveIn
  <2> QED  BY <1>2, <2>2
<1>12. BucketsOK'
  <2>1. Cardinality(Pairs(u)) = used + 1  BY <1>5, <1>9, <1>11, FS_AddElement
  <2>2. Cardinality(LiveIn(u)) = used + 1  BY <1>6, <1>9, <2>1, CountItems
  <2> QED  BY <1>1, <1>6, <1>9, <1>10, <2>2 DEF BucketsOK
<1>13. NothingLost'
  <2>1. \A x : (\E j \in LiveIn(u) : x = u[j].value) <=> \E p \in Pairs(u) : x = p[3]
    BY ValuesOfPairs
  <2>2. \A x : (\E j \in Live : x = values[j].value) <=> \E p \in Pairs(values) : x = p[3]
    BY ValuesOfPairs DEF Live, LiveIn
  <2>3. \A x : (\E p \in Pairs(u) : x = p[3]) <=> (\E p \in Pairs(values) : x = p[3]) \/ x = e
    BY <1>4, <1>9
  <2>4. \A x : x \in entries' \ lost' <=> x \in entries \ lost \/ x = e  BY <1>1 DEF EntriesOK
  <2>5. \A x : x \in entries' \ lost' <=> \E j \in LiveIn(u) : x = u[j].value
    BY <2>1, <2>2, <2>3, <2>4, OwnedEntries DEF EntriesOK
  <2> QED  BY <1>1, <1>10, <2>5 DEF NothingLost
<1>14. EntriesOK'  BY <1>1, <1>13 DEF EntriesOK
<1>15. Writes(k, e)
  <2> SUFFICES ASSUME NEW j \in Keys, NEW x
               PROVE  <<j.key, j.hash, x>> \in Pairs(values') <=>
                        IF j = k THEN x = e ELSE <<j.key, j.hash, x>> \in Pairs(values)
    BY DEF Writes, Holds
  <2>1. Pairs(values') = Pairs(values) \cup {<<k.key, k.hash, e>>}  BY <1>1, <1>4, <1>9
  <2>2. CASE j = k
    <3>1. <<k.key, k.hash, x>> \notin Pairs(values)  BY <1>2 DEF Pairs, Pair, With, Matches, Live, LiveIn
    <3> QED  BY <2>1, <2>2, <3>1
  <2>3. CASE j # k
    <3>1. j.key # k.key \/ j.hash # k.hash  BY <2>3, KeysDiffer
    <3> QED  BY <2>1, <2>3, <3>1
  <2> QED  BY <2>2, <2>3
<1> QED  BY <1>12, <1>14, <1>15

(* unset($ht[k]): a tombstone stops no search.                             *)
LEMMA UnsetStep ==
  ASSUME BucketsOK, EntriesOK, NEW k \in Keys, Unset(k)
  PROVE  BucketsOK' /\ EntriesOK' /\ Removes(k)
<1> DEFINE F == With(k)
<1>1. /\ values' = [i \in DOMAIN values |-> IF i \in F THEN Tombstone ELSE values[i]]
      /\ entries' = entries \ UNION {{values[i].value} : i \in F} /\ used' = used - Cardinality(F)
      /\ out' = Nothing /\ crashed' = crashed /\ lost' = lost
  BY SearchFinds DEF Unset, Deleted, Dropped
<1>2. /\ Size \in Nat \ {0} /\ Size >= 2 /\ TableOK(values, Size) /\ values \in [0..Size - 1 -> Bucket]
      /\ DOMAIN values = 0..Size - 1 /\ F \subseteq Live /\ Live = LiveIn(values) /\ Live \subseteq 0..Size - 1
      /\ \A j, m \in Live : j # m => Apart(values[j], values[m])
  BY DEF BucketsOK, TableOK, With, Live, LiveIn
<1>3. \A i \in F : F = {i}  BY SearchFinds
<1>4. \A i \in Live : i \in F <=> Matches(values[i], k)  BY DEF With
<1> HIDE DEF F
<1>5. Tombstone \in Bucket /\ Tombstone.value = Null /\ ~NeverUsed(Tombstone)
  BY DEF Tombstone, Empty, Bucket, NeverUsed
<1>6. /\ DOMAIN values' = 0..Size - 1 /\ values' \in [0..Size - 1 -> Bucket]
      /\ \A i \in 0..Size - 1 : values'[i] = IF i \in F THEN Tombstone ELSE values[i]
  BY <1>1, <1>2, <1>5
<1>7. Size' = Size /\ Live' = Live \ F /\ Live' = LiveIn(values') /\ \A i \in Live' : values'[i] = values[i]
  BY <1>2, <1>5, <1>6 DEF Size, Live, LiveIn
<1>8. TableOK(values', Size)
  <2>1. ASSUME NEW i \in 0..Size - 1, values'[i].value = Null PROVE values'[i] \in {Empty, Tombstone}
    BY <1>2, <1>6, <2>1 DEF TableOK
  <2>2. \A i \in 0..Size - 1 : NeverUsed(values'[i]) => NeverUsed(values[i])  BY <1>5, <1>6
  <2>3. ASSUME NEW i \in Live' PROVE Placed(values', i, values'[i], Size)
    <3>1. i \in Live /\ values'[i] = values[i] /\ values[i] \in Bucket  BY <1>2, <1>7
    <3>2. Placed(values, i, values[i], Size)  BY <1>2, <3>1 DEF TableOK
    <3>3. values[i].hash \in Int  BY <3>1 DEF Bucket
    <3>4. Home(values[i].hash, Size) \in 0..Size - 1  BY <1>2, <3>3, Round
    <3>5. \A d \in 0..Size - 1 : Spot(values[i], d, Size) \in 0..Size - 1  BY <1>2, <3>4 DEF Spot, After
    <3> QED  BY <2>2, <3>1, <3>2, <3>5 DEF Placed
  <2>4. \A i, j \in Live' : i # j => Apart(values'[i], values'[j])  BY <1>2, <1>7
  <2> QED  BY <1>6, <1>7, <2>1, <2>3, <2>4 DEF TableOK
<1>9. BucketsOK'
  <2>1. IsFiniteSet(Live)  BY <1>2, CountItems
  <2>2. used \in Nat /\ used = Cardinality(Live)  BY <1>2, CountItems DEF BucketsOK
  <2>3. used' = Cardinality(Live') /\ used' \in Int /\ used' <= used
    <3>1. CASE F = {}
      <4>1. Live' = Live /\ used' = used  BY <1>1, <1>7, <2>2, <3>1, FS_EmptySet
      <4> QED  BY <2>2, <4>1
    <3>2. ASSUME NEW i \in F PROVE used' = Cardinality(Live') /\ used' \in Int /\ used' <= used
      <4>1. F = {i} /\ i \in Live  BY <1>2, <1>3
      <4>2. Cardinality(F) = 1  BY <4>1, FS_Singleton
      <4>3. Live' = Live \ {i}  BY <1>7, <4>1
      <4>4. Cardinality(Live \ {i}) = Cardinality(Live) - 1  BY <2>1, <4>1, FS_RemoveElement
      <4> QED  BY <1>1, <2>2, <4>2, <4>3, <4>4
    <3> QED  BY <3>1, <3>2
  <2>4. used' <= Size - (Size \div 4)  BY <1>2, <2>2, <2>3 DEF BucketsOK
  <2> QED  BY <1>2, <1>7, <1>8, <2>3, <2>4 DEF BucketsOK
<1>10. \A i, j \in Live : i \in F /\ j \notin F => values[i].value # values[j].value
  BY <1>2 DEF Apart
<1>11. NothingLost'
  <2>1. \A x : x \in entries' \ lost' <=> x \in entries \ lost /\ \A i \in F : x # values[i].value  BY <1>1
  <2>2. ASSUME NEW x \in entries' \ lost' PROVE \E j \in Live' : x = values'[j].value
    <3>1. PICK j \in Live : x = values[j].value  BY <2>1, OwnedEntries DEF EntriesOK
    <3> QED  BY <1>7, <2>1, <3>1
  <2>3. ASSUME NEW j \in Live' PROVE values'[j].value \in entries' \ lost'
    <3>1. j \in Live /\ j \notin F /\ values'[j].value = values[j].value  BY <1>7
    <3>2. values[j].value \in entries \ lost  BY <3>1, OwnedEntries DEF EntriesOK
    <3> QED  BY <1>2, <1>10, <2>1, <3>1, <3>2
  <2> QED  BY <2>2, <2>3 DEF NothingLost
<1>12. EntriesOK'
  <2>1. \A i \in F : values[i].value \notin lost  BY <1>2, OwnedEntries DEF EntriesOK
  <2>2. lost' \subseteq entries' /\ entries' \subseteq Entries  BY <1>1, <2>1 DEF EntriesOK
  <2> QED  BY <1>1, <1>11, <2>2 DEF EntriesOK
<1>13. Removes(k)
  <2> SUFFICES ASSUME NEW j \in Keys, NEW x
               PROVE  <<j.key, j.hash, x>> \in Pairs(values') <=>
                        j # k /\ <<j.key, j.hash, x>> \in Pairs(values)
    BY DEF Removes, Holds
  <2>1. Pairs(values') = {Pair(values[i]) : i \in Live \ F}  BY <1>7 DEF Pairs
  <2>2. Pairs(values) = {Pair(values[i]) : i \in Live}  BY <1>2 DEF Pairs
  <2>3. CASE j = k  BY <1>4, <2>1, <2>3 DEF Pair, Matches
  <2>4. CASE j # k
    <3>1. j.key # k.key \/ j.hash # k.hash  BY <2>4, KeysDiffer
    <3> QED  BY <1>4, <2>1, <2>2, <2>4, <3>1 DEF Pair, Matches
  <2> QED  BY <2>3, <2>4
<1> QED  BY <1>9, <1>12, <1>13

-----------------------------------------------------------------------------
(* What a call leaves of the table of an object is true: a call that       *)
(* changes the content also changes vn.                                    *)
LEMMA MethodTables ==
  ASSUME TableTrue, Methods, Changes(Content), built' = built
  PROVE  TableTrue'
<1>1. current' = {} \/ (current' = current /\ values' = values)
  BY DEF Methods, Unset, Read, Write, Update, InsertNew, WriteBadOffset, Fails, Bump
<1>2. values' = values => Content' = Content  BY DEF Content, Live, KeyOf
<1> QED  BY <1>1, <1>2 DEF TableTrue, UpToDate, Changes

(* get_properties makes its own table current and leaves the others.       *)
LEMMA FillTables ==
  ASSUME TableTrue, NEW o \in Objects, GetProperties(o)
  PROVE  TableTrue'
BY DEF TableTrue, UpToDate, GetProperties, tableVars

(* $ht[k] returns the one entry of its key, if there is one.               *)
LEMMA ReadFinds ==
  ASSUME BucketsOK, NEW k \in Keys, Read(k)
  PROVE  \/ With(k) = {} /\ out' = Error
         \/ \E i \in With(k) : out' = values[i].value
<1>1. out' = IF With(k) = {} THEN Error ELSE values[CHOOSE i \in With(k) : TRUE].value
  BY SearchFinds DEF Read
<1> QED  BY <1>1

(* Only the integer key 1 meets a bucket without a value, and that bucket  *)
(* is a tombstone.                                                         *)
LEMMA CrashStep ==
  ASSUME BucketsOK, NEW k \in Keys, UpdateCrashes(k)
  PROVE  k = MarkKey /\ \E i \in ToUpdate(MarkKey) : values[i] = Tombstone
<1>1. PICK i : i \in With(k)  BY SearchFinds DEF UpdateCrashes
<1>2. PICK j \in ToUpdate(k) : values[j].value = Null  BY DEF UpdateCrashes
<1>3. k = MarkKey
  <2>1. i \in Live  BY <1>1 DEF With
  <2> QED  BY <1>1, <1>2, <2>1, SearchFinds DEF Live
<1>4. j \in DOMAIN values /\ Matches(values[j], k)
  <2>1. j \in Hits(k)  BY <1>2, SearchFinds DEF With, Hits, Live
  <2> QED  BY <2>1 DEF Hits
<1>5. values[j] \in {Empty, Tombstone}  BY <1>2, <1>4 DEF BucketsOK, TableOK
<1>6. values[j] # Empty  BY <1>3, <1>4 DEF Matches, MarkKey, Empty
<1> QED  BY <1>2, <1>3, <1>5, <1>6

(* One call, whatever it is.                                               *)
LEMMA MethodStep ==
  ASSUME BucketsOK, EntriesOK, Methods
  PROVE  BucketsOK' /\ EntriesOK'
<1>1. ASSUME values' = values, used' = used PROVE BucketsOK' /\ Live' = Live
  BY <1>1 DEF BucketsOK, Size, Live
<1>2. ASSUME NEW k \in Keys, Read(k) PROVE BucketsOK' /\ EntriesOK'
  <2>1. out' \in Entries \cup {Nothing, Error}
    <3>1. ASSUME NEW i \in With(k) PROVE values[i].value \in Entries
      BY OwnedEntries DEF With, EntriesOK
    <3> QED  BY <1>2, <3>1, ReadFinds
  <2>2. UNCHANGED <<values, used, entries, crashed, lost>>  BY <1>2 DEF Read
  <2> QED  BY <1>1, <2>1, <2>2 DEF EntriesOK, NothingLost
<1>3. CASE Fails
  BY <1>1, <1>3 DEF Fails, EntriesOK, NothingLost
<1>4. ASSUME NEW e \in Entries, WriteBadOffset(e) PROVE BucketsOK' /\ EntriesOK'
  <2>1. /\ e \notin entries /\ entries' = entries \cup {e} /\ lost' = lost \cup {e} /\ out' = Error
        /\ UNCHANGED <<values, used, crashed>>
    BY <1>4 DEF WriteBadOffset
  <2>2. entries' \ lost' = entries \ lost  BY <2>1
  <2> QED  BY <1>1, <2>1, <2>2 DEF EntriesOK, NothingLost
<1>5. ASSUME NEW k \in Keys, NEW e \in Entries, Write(k, e) PROVE BucketsOK' /\ EntriesOK'
  BY <1>5, UpdateStep, InsertStep DEF Write
<1>6. ASSUME NEW k \in Keys, Unset(k) PROVE BucketsOK' /\ EntriesOK'
  BY <1>6, UnsetStep
<1> QED  BY <1>2, <1>3, <1>4, <1>5, <1>6 DEF Methods

(* An empty table of two buckets.                                          *)
LEMMA Start == Init => IInv
<1> SUFFICES ASSUME Init PROVE IInv  OBVIOUS
<1>1. /\ DOMAIN values = 0..2 - 1 /\ \A i \in 0..2 - 1 : values[i] = Empty
      /\ values = [i \in 0..2 - 1 |-> values[i]]
  BY DEF Init, Cleared
<1>2. Size = 2  BY <1>1, TableSize DEF Size
<1>3. Empty \in Bucket /\ Empty.value = Null  BY DEF Empty, Bucket
<1>4. Live = {} /\ LiveIn(values) = {}  BY <1>1, <1>3 DEF Live, LiveIn
<1>5. values \in [0..2 - 1 -> Bucket]  BY <1>1, <1>3
<1>6. TableOK(values, 2)  BY <1>1, <1>4, <1>5 DEF TableOK
<1>7. Cardinality(Live) = 0  BY <1>4, FS_EmptySet
<1>8. used = 0  BY DEF Init
<1>9. BucketsOK  BY <1>2, <1>6, <1>7, <1>8 DEF BucketsOK
<1>10. EntriesOK  BY <1>4 DEF Init, EntriesOK, NothingLost
<1>11. TableTrue  BY DEF Init, TableInit, TableTrue
<1>12. CrashOK  BY DEF Init, CrashOK
<1> QED  BY <1>9, <1>10, <1>11, <1>12 DEF IInv

(* Spec keeps the invariant.                                               *)
LEMMA Invariant == Spec => []IInv
<1>1. IInv /\ [Next]_vars => IInv'
  <2> SUFFICES ASSUME IInv, [Next]_vars PROVE IInv'  OBVIOUS
  <2>1. CASE ~crashed /\ Methods /\ Changes(Content) /\ UNCHANGED built
    <3>1. crashed' = crashed
      BY <2>1 DEF Methods, Unset, Read, Write, Update, InsertNew, WriteBadOffset, Fails
    <3>2. CrashOK'  BY <2>1, <3>1 DEF IInv, CrashOK
    <3> QED  BY <2>1, <3>2, MethodStep, MethodTables DEF IInv
  <2>2. ASSUME UNCHANGED <<values, used, entries, out, lost>> PROVE BucketsOK' /\ EntriesOK'
    BY <2>2 DEF IInv, BucketsOK, EntriesOK, NothingLost, Live, Size
  <2>3. ASSUME UNCHANGED values PROVE ToUpdate(MarkKey)' = ToUpdate(MarkKey)
    BY <2>3 DEF ToUpdate, Probe, Hits, Size
  <2>4. ASSUME NEW o \in Objects, HtoGetProperties(o) PROVE IInv'
    BY <2>2, <2>3, <2>4, FillTables DEF IInv, CrashOK, HtoGetProperties, bucketVars
  <2>5. ASSUME NEW k \in Keys, UpdateCrashes(k) PROVE IInv'
    <3>1. UNCHANGED <<values, used, entries, out, lost, tableVars>> /\ crashed' = TRUE
      BY <2>5 DEF UpdateCrashes
    <3>2. CrashOK'  BY <2>3, <2>5, <3>1, CrashStep DEF IInv, CrashOK
    <3>3. TableTrue'
      BY <3>1 DEF IInv, TableTrue, UpToDate, tableVars, Content, Live, KeyOf
    <3> QED  BY <2>2, <3>1, <3>2, <3>3 DEF IInv
  <2>6. CASE UNCHANGED vars
    BY <2>2, <2>3, <2>6 DEF vars, bucketVars, tableVars, IInv, TableTrue, UpToDate, CrashOK
  <2> QED  BY <2>1, <2>4, <2>5, <2>6 DEF Next
<1> QED  BY <1>1, Start, PTL DEF Spec

(* Every key of the table can be found: its bucket is where its variance   *)
(* says and no never-used bucket ends the probe before it, whatever        *)
(* inserts, tombstones and resizes came in between.                        *)
THEOREM TableSearchable == Spec => []Searchable
<1>1. ASSUME IInv PROVE Searchable
  <2>1. /\ Size \in Nat /\ Size >= 2 /\ values \in [0..Size - 1 -> Bucket] /\ DOMAIN values = 0..Size - 1
        /\ \A i \in 0..Size - 1 : values[i].value = Null => values[i] \in {Empty, Tombstone}
        /\ \A i \in Live : i \in 0..Size - 1 /\ Placed(values, i, values[i], Size)
        /\ \A i, j \in Live : i # j => Apart(values[i], values[j])
    BY <1>1 DEF IInv, BucketsOK, TableOK, Live, LiveIn
  <2>2. used \in 0..Size /\ used = Cardinality(Live) /\ used <= Size - (Size \div 4)
    <3>1. Live = LiveIn(values)  BY DEF Live, LiveIn
    <3> QED  BY <1>1, <3>1, CountItems DEF IInv, BucketsOK
  <2>3. ASSUME NEW i \in 0..Size - 1
        PROVE  /\ values[i].value \in Entries \cup {Null} /\ values[i].hash \in Int
               /\ values[i].variance \in 0..Size - 1
    <3>1. values[i] \in Bucket  BY <2>1
    <3>2. values[i].variance \in Nat  BY <3>1 DEF Bucket
    <3>3. values[i].variance < Size
      <4>1. CASE values[i].value = Null  BY <2>1, <4>1 DEF Empty, Tombstone
      <4>2. CASE values[i].value # Null  BY <2>1, <4>2 DEF Live, Placed
      <4> QED  BY <4>1, <4>2
    <3> QED  BY <2>1, <3>1, <3>2, <3>3 DEF Bucket
  <2>4. TypeOK  BY <1>1, <2>1, <2>2, <2>3 DEF TypeOK, IInv, EntriesOK, CrashOK
  <2>5. ASSUME NEW i \in Live
        PROVE  /\ i = From(values[i], values[i].variance)
               /\ \A d \in 0..values[i].variance : ~NeverUsed(values[From(values[i], d)])
    <3>1. \A d : From(values[i], d) = Spot(values[i], d, Size)  BY DEF From, Spot
    <3>2. values[i].variance \in 0..Size - 1  BY <2>1, <2>3
    <3>3. /\ i = From(values[i], values[i].variance)
          /\ \A d \in 0..Size - 1 : d < values[i].variance => ~NeverUsed(values[From(values[i], d)])
      BY <2>1, <3>1 DEF Placed
    <3>4. ~NeverUsed(values[i])  BY DEF NeverUsed, Live
    <3>5. \A d \in 0..values[i].variance : d \in 0..Size - 1 /\ (d < values[i].variance \/ d = values[i].variance)
      BY <2>1, <3>2
    <3> QED  BY <3>3, <3>4, <3>5
  <2>6. \A i, j \in Live : Matches(values[i], values[j]) => i = j  BY <2>1 DEF Apart
  <2> QED  BY <2>2, <2>4, <2>5, <2>6 DEF Searchable
<1> QED  BY <1>1, Invariant, PTL

(* pht_hashtable_destroy deletes all that is allocated, and nothing twice. *)
THEOREM TableKeeps == Spec => []NothingLost
<1>1. IInv => NothingLost  BY DEF IInv, EntriesOK
<1> QED  BY <1>1, Invariant, PTL

(* A write to a key of the table overwrites its own bucket, and only the   *)
(* integer key 1, at a tombstone, calls the destructor with NULL.          *)
THEOREM TableUpdatesOwn == Spec => []UpdatesOwnBucket
<1>1. ASSUME IInv PROVE UpdatesOwnBucket
  <2>1. ASSUME NEW k \in Keys \ {MarkKey}, Found(k) # {} PROVE ToUpdate(k) = Found(k)
    <3>1. BucketsOK /\ k \in Keys /\ k # MarkKey  BY <1>1 DEF IInv
    <3>2. Found(k) = With(k)  BY <3>1, SearchFinds
    <3>3. PICK i : i \in With(k)  BY <2>1, <3>2
    <3> QED  BY <3>1, <3>2, <3>3, SearchFinds
  <2> QED  BY <1>1, <2>1 DEF IInv, CrashOK, UpdatesOwnBucket
<1> QED  BY <1>1, Invariant, PTL

(* A table that get_properties hands out as it is shows the entries.       *)
THEOREM TableTables == Spec => []TableTrue
<1>1. IInv => TableTrue  BY DEF IInv
<1> QED  BY <1>1, Invariant, PTL

-----------------------------------------------------------------------------
(* The content of a table is the map of its items.                         *)
IsMapOf(t, m) ==
  /\ DOMAIN m \subseteq Keys /\ m = [k \in DOMAIN m |-> m[k]]
  /\ \A k \in Keys : \A x : Holds(t, k, x) <=> k \in DOMAIN m /\ x = m[k]

(* Two maps of the same items are the same.                                *)
LEMMA SameMap ==
  ASSUME NEW t, NEW m, NEW u, IsMapOf(t, m), IsMapOf(t, u)
  PROVE  m = u
<1>1. ASSUME NEW k \in Keys PROVE (k \in DOMAIN m <=> k \in DOMAIN u) /\ (k \in DOMAIN m => m[k] = u[k])
  BY DEF IsMapOf
<1>2. DOMAIN m = DOMAIN u  BY <1>1 DEF IsMapOf
<1>3. \A k \in DOMAIN m : m[k] = u[k]  BY <1>1 DEF IsMapOf
<1> QED  BY <1>2, <1>3 DEF IsMapOf

(* A key has the entry of its bucket.                                      *)
LEMMA ContentIsMap == BucketsOK => IsMapOf(values, Content)
<1> SUFFICES ASSUME BucketsOK PROVE IsMapOf(values, Content)  OBVIOUS
<1>1. /\ \A i \in Live : Known(values[i])
      /\ Live = LiveIn(values)
  BY DEF BucketsOK, TableOK, Live, LiveIn, Placed
<1>2. ASSUME NEW i \in Live PROVE KeyOf(i) \in Keys /\ Matches(values[i], KeyOf(i))
  BY <1>1 DEF Known, KeyOf
<1>3. ASSUME NEW i \in Live, NEW k \in Keys, Matches(values[i], k) PROVE KeyOf(i) = k
  <2>1. KeyOf(i) \in Keys /\ KeyOf(i).key = k.key /\ KeyOf(i).hash = k.hash  BY <1>2, <1>3 DEF Matches
  <2> QED  BY <2>1, KeysDiffer
<1>4. /\ DOMAIN Content = {KeyOf(i) : i \in Live}
      /\ \A k \in DOMAIN Content : Content[k] = values[CHOOSE i \in Live : Matches(values[i], k)].value
      /\ Content = [k \in DOMAIN Content |-> Content[k]]
  BY DEF Content
<1>5. ASSUME NEW k \in Keys, NEW i \in With(k)
      PROVE  k \in DOMAIN Content /\ Content[k] = values[i].value
  <2>1. i \in Live /\ Matches(values[i], k) /\ KeyOf(i) = k  BY <1>3 DEF With
  <2>2. \A j \in Live : Matches(values[j], k) => j = i  BY SearchFinds DEF With
  <2>3. (CHOOSE j \in Live : Matches(values[j], k)) = i  BY <2>1, <2>2
  <2> QED  BY <1>4, <2>1, <2>3
<1>6. ASSUME NEW k \in Keys, NEW x
      PROVE  Holds(values, k, x) <=> \E i \in With(k) : x = values[i].value
  <2>1. \A b : <<k.key, k.hash, x>> = Pair(b) <=> Matches(b, k) /\ x = b.value  BY DEF Pair, Matches
  <2> QED  BY <1>1, <2>1 DEF Holds, Pairs, With
<1>7. ASSUME NEW k \in Keys, k \in DOMAIN Content PROVE \E i \in With(k) : TRUE
  <2>1. PICK i \in Live : k = KeyOf(i)  BY <1>4, <1>7
  <2> QED  BY <1>2, <2>1 DEF With
<1>8. DOMAIN Content \subseteq Keys  BY <1>2, <1>4
<1>9. ASSUME NEW k \in Keys, NEW x PROVE Holds(values, k, x) <=> k \in DOMAIN Content /\ x = Content[k]
  BY <1>5, <1>6, <1>7
<1> HIDE DEF Content
<1> QED  BY <1>4, <1>8, <1>9 DEF IsMapOf

(* A write sets the entry of its key, and of no other.                     *)
LEMMA MapOfWrite ==
  ASSUME BucketsOK, BucketsOK', NEW k \in Keys, NEW e, Writes(k, e)
  PROVE  Content' = [j \in DOMAIN Content \cup {k} |-> IF j = k THEN e ELSE Content[j]]
<1> DEFINE m == [j \in DOMAIN Content \cup {k} |-> IF j = k THEN e ELSE Content[j]]
<1>1. IsMapOf(values, Content)  BY ContentIsMap
<1>2. IsMapOf(values', Content')
  <2>1. (BucketsOK => IsMapOf(values, Content))'  BY ContentIsMap, PTL
  <2> QED  BY <2>1
<1> HIDE DEF Content
<1>3. /\ DOMAIN m = DOMAIN Content \cup {k} /\ m = [j \in DOMAIN m |-> m[j]]
      /\ \A j \in DOMAIN m : m[j] = IF j = k THEN e ELSE Content[j]
  OBVIOUS
<1> HIDE DEF m
<1>4. ASSUME NEW j \in Keys, NEW x PROVE Holds(values', j, x) <=> j \in DOMAIN m /\ x = m[j]
  <2>1. Holds(values', j, x) <=> IF j = k THEN x = e ELSE Holds(values, j, x)  BY DEF Writes
  <2> QED  BY <1>1, <1>3, <2>1 DEF IsMapOf
<1>5. IsMapOf(values', m)  BY <1>1, <1>3, <1>4 DEF IsMapOf
<1> QED  BY <1>2, <1>5, SameMap DEF m

(* unset() takes its key out, and no other.                                *)
LEMMA MapOfUnset ==
  ASSUME BucketsOK, BucketsOK', NEW k \in Keys, Removes(k)
  PROVE  Content' = [j \in DOMAIN Content \ {k} |-> Content[j]]
<1> DEFINE m == [j \in DOMAIN Content \ {k} |-> Content[j]]
<1>1. IsMapOf(values, Content)  BY ContentIsMap
<1>2. IsMapOf(values', Content')
  <2>1. (BucketsOK => IsMapOf(values, Content))'  BY ContentIsMap, PTL
  <2> QED  BY <2>1
<1> HIDE DEF Content
<1>3. /\ DOMAIN m = DOMAIN Content \ {k} /\ m = [j \in DOMAIN m |-> m[j]]
      /\ \A j \in DOMAIN m : m[j] = Content[j]
  OBVIOUS
<1> HIDE DEF m
<1>4. ASSUME NEW j \in Keys, NEW x PROVE Holds(values', j, x) <=> j \in DOMAIN m /\ x = m[j]
  <2>1. Holds(values', j, x) <=> j # k /\ Holds(values, j, x)  BY DEF Removes
  <2> QED  BY <1>1, <1>3, <2>1 DEF IsMapOf
<1>5. IsMapOf(values', m)  BY <1>1, <1>3, <1>4 DEF IsMapOf
<1> QED  BY <1>2, <1>5, SameMap DEF m

(* Every call is one of EntryMap.                                          *)
LEMMA MethodImplements ==
  ASSUME IInv, IInv', Methods
  PROVE  Map!Next
<1>1. BucketsOK /\ EntriesOK /\ BucketsOK' /\ IsMapOf(values, Content)
  BY ContentIsMap DEF IInv
<1>2. values' = values => Content' = Content  BY DEF Content, Live, KeyOf
<1> HIDE DEF Content
<1>3. ASSUME NEW k \in Keys, NEW e \in Entries, Write(k, e) PROVE Map!Write(k, e)
  <2>1. e \notin entries /\ Writes(k, e) /\ out' = Nothing
    <3>1. CASE Update(k, e)  BY <1>1, <1>3, <3>1, UpdateStep DEF Write, Update
    <3>2. CASE InsertNew(k, e)  BY <1>1, <1>3, <3>2, InsertStep DEF Write, InsertNew
    <3> QED  BY <1>3, <3>1, <3>2 DEF Write
  <2>2. Content' = [j \in DOMAIN Content \cup {k} |-> IF j = k THEN e ELSE Content[j]]
    BY <1>1, <2>1, MapOfWrite
  <2>3. ASSUME NEW j \in DOMAIN Content PROVE Content[j] # e
    <3>1. j \in Keys /\ Holds(values, j, Content[j])  BY <1>1 DEF IsMapOf
    <3>2. <<j.key, j.hash, Content[j]>> \in Pairs(values)  BY <3>1 DEF Holds
    <3>3. \E i \in LiveIn(values) : Content[j] = values[i].value  BY <3>2 DEF Pairs, Pair
    <3>4. Content[j] \in entries \ lost
      BY <1>1, <3>3, OwnedEntries DEF EntriesOK, Live, LiveIn
    <3> QED  BY <2>1, <3>4
  <2>4. e \notin Map!Range(Content)  BY <2>3 DEF Map!Range
  <2> QED  BY <2>1, <2>2, <2>4 DEF Map!Write
<1>4. ASSUME NEW k \in Keys, Unset(k) PROVE Map!Unset(k)
  <2>1. Removes(k) /\ out' = Nothing  BY <1>1, <1>4, UnsetStep DEF Unset
  <2>2. Content' = [j \in DOMAIN Content \ {k} |-> Content[j]]  BY <1>1, <2>1, MapOfUnset
  <2> QED  BY <2>1, <2>2 DEF Map!Unset, Map!Restrict
<1>5. ASSUME NEW k \in Keys, Read(k) PROVE Map!Read(k)
  <2>1. values' = values  BY <1>5 DEF Read
  <2>2. CASE With(k) = {} /\ out' = Error
    <3>1. \A x : ~Holds(values, k, x)  BY <2>2 DEF Holds, Pairs, Pair, With, Matches, Live, LiveIn
    <3>2. k \notin DOMAIN Content  BY <1>1, <3>1 DEF IsMapOf
    <3> QED  BY <1>2, <2>1, <2>2, <3>2 DEF Map!Read
  <2>3. ASSUME NEW i \in With(k), out' = values[i].value PROVE Map!Read(k)
    <3>1. i \in LiveIn(values) /\ Pair(values[i]) = <<k.key, k.hash, values[i].value>>
      BY DEF With, Matches, Pair, Live, LiveIn
    <3>2. Holds(values, k, values[i].value)  BY <3>1 DEF Holds, Pairs
    <3>3. k \in DOMAIN Content /\ Content[k] = values[i].value  BY <1>1, <3>2 DEF IsMapOf
    <3> QED  BY <1>2, <2>1, <2>3, <3>3 DEF Map!Read
  <2> QED  BY <1>1, <1>5, <2>2, <2>3, ReadFinds
<1>6. CASE Fails \/ \E e \in Entries : WriteBadOffset(e)
  <2>1. out' = Error /\ values' = values  BY <1>6 DEF Fails, WriteBadOffset
  <2> QED  BY <1>2, <2>1 DEF Map!Next, Map!Fail
<1> QED  BY <1>3, <1>4, <1>5, <1>6 DEF Methods, Map!Next

(* The table is a map: a read returns the entry written last under its     *)
(* key, whatever collisions, tombstones and resizes came in between.       *)
THEOREM TableIsMap == Spec => IsMap
<1>1. Init => Map!Init
  <2> SUFFICES ASSUME Init PROVE Map!Init  OBVIOUS
  <2>1. Live = {}  BY DEF Init, Live, Cleared, Empty
  <2>2. Content = [k \in {} |-> Nothing]  BY <2>1 DEF Content
  <2> QED  BY <2>2 DEF Init, Map!Init
<1>2. IInv /\ IInv' /\ [Next]_vars => [Map!Next]_<<Content, out>>
  <2> SUFFICES ASSUME IInv, IInv', [Next]_vars PROVE [Map!Next]_<<Content, out>>  OBVIOUS
  <2>1. CASE Methods  BY <2>1, MethodImplements
  <2>2. CASE UNCHANGED <<values, out>>  BY <2>2 DEF Content, Live, KeyOf
  <2> QED  BY <2>1, <2>2 DEF Next, HtoGetProperties, UpdateCrashes, vars, bucketVars
<1> QED  BY <1>1, <1>2, Invariant, PTL DEF Spec, IsMap, Map!Spec, Map!vars
=============================================================================
