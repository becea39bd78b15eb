--------------------------- MODULE PhtQueueProofs ---------------------------
(***************************************************************************)
(* PhtQueue for every set of nodes, entries and objects: the linked list   *)
(* is a list, it holds what is allocated, and it is first in, first out.   *)
(***************************************************************************)
EXTENDS PhtQueue, FiniteSetTheorems, SequenceTheorems, WellFoundedInduction, TLAPS

(* A set of numbers that has 0, and with each number the next, has all.    *)
LEMMA Induction ==
  ASSUME NEW S, 0 \in S, \A k \in Nat : k \in S => k + 1 \in S
  PROVE  \A k \in Nat : k \in S
<1> DEFINE R == {ss \in Nat \X Nat : ss[1] < ss[2]}  T == Nat \ S
<1>1. IsWellFoundedOn(R, Nat)  BY NatLessThanWellFounded DEF OpToRel
<1> SUFFICES ASSUME T # {} PROVE FALSE  OBVIOUS
<1>2. T \subseteq Nat  OBVIOUS
<1>3. PICK m \in T : \A k \in T : ~(<<k, m>> \in R)
  <2> HIDE DEF R, T
  <2> QED  BY <1>1, <1>2, WFMin
<1>4. m \in Nat /\ m # 0 /\ m - 1 \in Nat  OBVIOUS
<1>5. <<m - 1, m>> \in R  BY <1>4
<1>6. m - 1 \notin T  BY <1>3, <1>5
<1> QED  BY <1>4, <1>6
-----------------------------------------------------------------------------
(* Reachable, one step at a time.                                          *)
Unfolds ==
  \A k \in 0..Cardinality(Nodes) : \A n \in Nodes \cup {Null} :
    Reachable[k][n] = IF n = Null \/ k = 0 THEN <<>> ELSE <<n>> \o Reachable[k - 1][heap[n].next]
(* The recursive definition is well founded, whatever Nodes is.            *)
LEMMA ReachableUnfolds == Unfolds
<1> DEFINE N == Cardinality(Nodes)
           D == Nodes \cup {Null}
           Row(f, k) == [n \in D |-> IF n = Null \/ k = 0 THEN <<>> ELSE <<n>> \o f[k - 1][heap[n].next]]
           Good(f, m) == f = [k \in 0..m |-> Row(f, k)]
           S == {m \in Nat : \E f : Good(f, m)}
<1>1. N \in Nat  BY NodesAssumption, FS_CardinalityType
<1>2. 0 \in S
  <2> DEFINE f == [k \in 0..0 |-> [n \in D |-> <<>>]]
  <2>1. Good(f, 0)  OBVIOUS
  <2> QED  BY <2>1
<1>3. ASSUME NEW m \in Nat, m \in S PROVE m + 1 \in S
  <2>1. PICK f : Good(f, m)  BY <1>3
  <2> DEFINE g == [k \in 0..m + 1 |-> IF k <= m THEN f[k] ELSE Row(f, k)]
  <2>2. ASSUME NEW k \in 0..m + 1 PROVE g[k] = Row(g, k)
    <3>1. k # 0 => k - 1 \in 0..m  OBVIOUS
    <3>2. k # 0 => g[k - 1] = f[k - 1]  BY <3>1
    <3>3. Row(g, k) = Row(f, k)  BY <3>2
    <3>4. k <= m => f[k] = Row(f, k)
      <4> HIDE DEF Row
      <4> QED  BY <2>1
    <3> QED  BY <3>3, <3>4
  <2>3. Good(g, m + 1)
    <3> HIDE DEF Row
    <3>1. g = [k \in 0..m + 1 |-> g[k]]  OBVIOUS
    <3> HIDE DEF g
    <3> QED  BY <2>2, <3>1
  <2> HIDE DEF Good
  <2> QED  BY <2>3
<1>4. N \in S
  <2> HIDE DEF S, N
  <2> QED  BY <1>1, <1>2, <1>3, Induction
<1>5. \E f : Good(f, N)  BY <1>4
<1>6. Reachable = [k \in 0..N |-> Row(Reachable, k)]
  <2>1. Reachable = CHOOSE f : Good(f, N)  BY DEF Reachable
  <2> HIDE DEF Good
  <2>2. Good(Reachable, N)  BY <1>5, <2>1
  <2> QED  BY <2>2 DEF Good
<1> HIDE DEF N
<1>7. \A k \in 0..N : Reachable[k] = Row(Reachable, k)  BY <1>6
<1> QED  BY <1>7 DEF Unfolds, N
-----------------------------------------------------------------------------
(* The chain s: its nodes are those of the heap, once each, linked in its  *)
(* order from elements to last.                                            *)
HeapOK == heap \in [DOMAIN heap -> [element : Entries, next : Nodes \cup {Null}]]
ChainOn(s) ==
  /\ s \in Seq(Nodes) /\ size = Len(s)
  /\ \A i \in 1..Len(s) : s[i] \in DOMAIN heap
  /\ \A n \in DOMAIN heap : \E i \in 1..Len(s) : n = s[i]
  /\ \A i, j \in 1..Len(s) : s[i] = s[j] => i = j
LinkedOn(s) ==
  /\ elements = IF Len(s) = 0 THEN Null ELSE s[1]
  /\ last = IF Len(s) = 0 THEN Null ELSE s[Len(s)]
  /\ \A i \in 1..Len(s) : heap[s[i]].next = IF i = Len(s) THEN Null ELSE s[i + 1]
Chain(s) == ChainOn(s) /\ LinkedOn(s)

(* Every entry is in one node.                                             *)
EntriesOK == /\ entries = {heap[n].element : n \in DOMAIN heap}
             /\ \A m, n \in DOMAIN heap : heap[m].element = heap[n].element => m = n

IInv == TypeOK /\ HeapOK /\ (\E s : Chain(s)) /\ EntriesOK /\ TableTrue

(* A chain is no longer than there are nodes.                              *)
LEMMA ChainFits ==
  ASSUME NEW s, ChainOn(s)
  PROVE  Len(s) \in 0..Cardinality(Nodes)
<1>1. s \in [1..Len(s) -> Nodes] /\ Len(s) \in Nat  BY DEF ChainOn
<1>2. s \in Injection(1..Len(s), Nodes)
  BY <1>1 DEF ChainOn, Injection, IsInjective
<1>3. Cardinality(1..Len(s)) <= Cardinality(Nodes)
  BY <1>2, NodesAssumption, FS_Injection
<1> QED  BY <1>1, <1>3, FS_Interval, NodesAssumption, FS_CardinalityType

(* Walk is the chain.                                                      *)
LEMMA WalkIsChain ==
  ASSUME HeapOK, NEW s, Chain(s)
  PROVE  Walk = s
<1> DEFINE N == Cardinality(Nodes)
           Node(i) == IF i = Len(s) + 1 THEN Null ELSE s[i]
           Done(k) == \A i \in 1..Len(s) + 1 :
                        Len(s) + 1 - i <= k => Reachable[k][Node(i)] = SubSeq(s, i, Len(s))
           S == {k \in Nat : k > N \/ Done(k)}
<1>1. Len(s) \in 0..N /\ N \in Nat
  BY ChainFits, NodesAssumption, FS_CardinalityType DEF Chain
<1>2. s \in Seq(Nodes)  BY DEF Chain, ChainOn
<1>3. ASSUME NEW k \in 0..N, NEW i \in 1..Len(s) + 1
      PROVE  Reachable[k][Node(i)] = IF i = Len(s) + 1 \/ k = 0 THEN <<>>
                                     ELSE <<s[i]>> \o Reachable[k - 1][Node(i + 1)]
  <2>1. Node(i) \in Nodes \cup {Null}  BY <1>1, <1>2
  <2>2. Node(i) = Null <=> i = Len(s) + 1  BY <1>1, <1>2, NodesAssumption
  <2>3. i # Len(s) + 1 => heap[s[i]].next = Node(i + 1)
    BY <1>1, <1>2 DEF Chain, LinkedOn
  <2> QED  BY <2>1, <2>2, <2>3, ReachableUnfolds DEF Unfolds
<1> HIDE DEF N, Node
<1>4. Done(0)
  <2> SUFFICES ASSUME NEW i \in 1..Len(s) + 1, Len(s) + 1 - i <= 0
               PROVE Reachable[0][Node(i)] = SubSeq(s, i, Len(s))  OBVIOUS
  <2>1. i = Len(s) + 1  BY <1>1
  <2>2. SubSeq(s, i, Len(s)) = <<>>  BY <1>1, <1>2, <2>1
  <2>3. 0 \in 0..N  BY <1>1
  <2>4. Reachable[0][Node(i)] = <<>>  BY <1>3, <2>3
  <2> QED  BY <2>2, <2>4
<1>5. ASSUME NEW k \in Nat, k + 1 <= N, Done(k) PROVE Done(k + 1)
  <2> SUFFICES ASSUME NEW i \in 1..Len(s) + 1, Len(s) + 1 - i <= k + 1
               PROVE Reachable[k + 1][Node(i)] = SubSeq(s, i, Len(s))  OBVIOUS
  <2>1. CASE i = Len(s) + 1
    <3>1. SubSeq(s, i, Len(s)) = <<>>  BY <1>1, <1>2, <2>1
    <3>2. k + 1 \in 0..N  BY <1>1, <1>5
    <3>3. Reachable[k + 1][Node(i)] = <<>>  BY <1>3, <2>1, <3>2
    <3> QED  BY <3>1, <3>3
  <2>2. CASE i \in 1..Len(s)
    <3>1. i + 1 \in 1..Len(s) + 1 /\ Len(s) + 1 - (i + 1) <= k  BY <1>1, <2>2
    <3>2. Reachable[k][Node(i + 1)] = SubSeq(s, i + 1, Len(s))  BY <1>5, <3>1
    <3>3. k + 1 \in 0..N /\ (k + 1) - 1 = k /\ k + 1 # 0 /\ i # Len(s) + 1  BY <1>1, <1>5, <2>2
    <3>4. Reachable[k + 1][Node(i)] = <<s[i]>> \o Reachable[k][Node(i + 1)]
      <4> HIDE DEF Done
      <4> QED  BY <1>3, <3>3
    <3>5. Len(s) \in i..Len(s)  BY <1>1, <2>2
    <3>6. SubSeq(s, i, Len(s)) = <<s[i]>> \o SubSeq(s, i + 1, Len(s))
      BY <1>2, <2>2, <3>5, SubSeqRecursiveFirst
    <3> QED  BY <3>2, <3>4, <3>6
  <2> QED  BY <1>1, <2>1, <2>2
<1>6. \A k \in Nat : k \in S
  <2>1. 0 \in S  BY <1>4
  <2>2. \A k \in Nat : k \in S => k + 1 \in S
    <3> HIDE DEF Done
    <3> QED  BY <1>1, <1>5
  <2> HIDE DEF S
  <2> QED  BY <2>1, <2>2, Induction
<1>7. Done(N)  BY <1>1, <1>6
<1>8. Reachable[N][Node(1)] = SubSeq(s, 1, Len(s))  BY <1>1, <1>7
<1>9. SubSeq(s, 1, Len(s)) = s  BY <1>2, SubSeqFull
<1>10. Node(1) = elements  BY <1>1, <1>2 DEF Node, Chain, LinkedOn
<1> QED  BY <1>8, <1>9, <1>10 DEF Walk, N
-----------------------------------------------------------------------------
(* push() links the new node after the last.                               *)
LEMMA PushChain ==
  ASSUME IInv, NEW s, Chain(s), NEW e \in Entries, NEW n \in Nodes, Push(e, n)
  PROVE  /\ HeapOK' /\ Chain(Append(s, n))'
         /\ \A m \in DOMAIN heap : heap'[m].element = heap[m].element
         /\ DOMAIN heap' = DOMAIN heap \cup {n} /\ heap'[n].element = e
<1> DEFINE t == Append(s, n)
<1>1. s \in Seq(Nodes) /\ Len(s) \in Nat  BY DEF Chain, ChainOn
<1>2. t \in Seq(Nodes) /\ Len(t) = Len(s) + 1 /\ t[Len(s) + 1] = n /\ \A i \in 1..Len(s) : t[i] = s[i]
  BY <1>1
<1> HIDE DEF t
<1>3. n \notin DOMAIN heap /\ n # Null  BY NodesAssumption DEF Push
<1>4. /\ \A i \in 1..Len(s) : s[i] \in DOMAIN heap /\ s[i] # n
      /\ \A m \in DOMAIN heap : \E i \in 1..Len(s) : m = s[i]
      /\ \A i, j \in 1..Len(s) : s[i] = s[j] => i = j
  BY <1>3 DEF Chain, ChainOn
<1>5. elements # Null <=> Len(s) # 0
  BY <1>1, NodesAssumption DEF Chain, LinkedOn
<1>6. /\ DOMAIN heap' = DOMAIN heap \cup {n} /\ heap'[n] = [element |-> e, next |-> Null]
      /\ \A m \in DOMAIN heap : heap'[m] = IF elements # Null /\ m = last THEN [heap[m] EXCEPT !.next = n]
                                            ELSE heap[m]
      /\ heap' = [m \in DOMAIN heap' |-> heap'[m]]
  BY <1>3 DEF Push, Linked, LinkTo
<1>7. ASSUME NEW m \in DOMAIN heap
      PROVE  heap[m] \in [element : Entries, next : Nodes \cup {Null}]
  BY DEF IInv, HeapOK
<1>8. ASSUME NEW m \in DOMAIN heap
      PROVE  /\ heap'[m].element = heap[m].element
             /\ heap'[m].next = IF elements # Null /\ m = last THEN n ELSE heap[m].next
             /\ heap'[m] \in [element : Entries, next : Nodes \cup {Null}]
  BY <1>6, <1>7
<1>9. HeapOK'
  <2>1. heap'[n] \in [element : Entries, next : Nodes \cup {Null}]  BY <1>6
  <2> QED  BY <1>6, <1>8, <2>1 DEF HeapOK
<1>10. ChainOn(t)'
  <2>1. size' = Len(t)  BY <1>2 DEF Push, Chain, ChainOn
  <2>2. \A i \in 1..Len(t) : t[i] \in DOMAIN heap'  BY <1>1, <1>2, <1>4, <1>6
  <2>3. \A m \in DOMAIN heap' : \E i \in 1..Len(t) : m = t[i]
    <3>1. Len(s) + 1 \in 1..Len(t) /\ \A i \in 1..Len(s) : i \in 1..Len(t)  BY <1>1, <1>2
    <3> QED  BY <1>2, <1>4, <1>6, <3>1
  <2>4. \A i, j \in 1..Len(t) : t[i] = t[j] => i = j
    <3>1. \A i \in 1..Len(t) : i \in 1..Len(s) \/ i = Len(s) + 1  BY <1>1, <1>2
    <3>2. \A i \in 1..Len(s) : t[i] = s[i] /\ t[i] # t[Len(s) + 1]  BY <1>1, <1>2, <1>4
    <3> QED  BY <1>4, <3>1, <3>2
  <2> QED  BY <1>2, <2>1, <2>2, <2>3, <2>4 DEF ChainOn
<1>11. LinkedOn(t)'
  <2>1. elements' = IF Len(t) = 0 THEN Null ELSE t[1]
    <3>1. elements' = IF elements = Null THEN n ELSE elements  BY DEF Push
    <3>2. Len(s) # 0 => elements = s[1] /\ t[1] = s[1]  BY <1>1, <1>2 DEF Chain, LinkedOn
    <3> QED  BY <1>1, <1>2, <1>5, <3>1, <3>2
  <2>2. last' = IF Len(t) = 0 THEN Null ELSE t[Len(t)]  BY <1>1, <1>2 DEF Push
  <2>3. ASSUME NEW i \in 1..Len(t)
        PROVE  heap'[t[i]].next = IF i = Len(t) THEN Null ELSE t[i + 1]
    <3>1. CASE i = Len(s) + 1  BY <1>2, <1>6, <3>1
    <3>2. CASE i = Len(s)
      <4>1. i \in 1..Len(s) /\ s[i] = last /\ elements # Null /\ t[i] = s[i]
        BY <1>1, <1>2, <1>5, <3>2 DEF Chain, LinkedOn
      <4> QED  BY <1>1, <1>2, <1>4, <1>8, <3>2, <4>1
    <3>3. CASE i < Len(s)
      <4>1. i \in 1..Len(s) /\ i + 1 \in 1..Len(s) /\ Len(s) \in 1..Len(s) /\ i # Len(s)  BY <1>1, <3>3
      <4>5. last = s[Len(s)] /\ heap[s[i]].next = s[i + 1]
        BY <1>1, <4>1 DEF Chain, LinkedOn
      <4>2. s[i] # last /\ heap[s[i]].next = s[i + 1]
        BY <1>4, <4>1, <4>5
      <4>3. heap'[s[i]].next = heap[s[i]].next  BY <1>4, <1>8, <4>1, <4>2
      <4>4. i # Len(t)  BY <1>1, <1>2, <3>3
      <4> QED  BY <1>2, <4>1, <4>2, <4>3, <4>4
    <3> QED  BY <1>1, <1>2, <3>1, <3>2, <3>3
  <2> QED  BY <2>1, <2>2, <2>3 DEF LinkedOn
<1> QED  BY <1>6, <1>8, <1>9, <1>10, <1>11 DEF Chain, t

(* pop() unlinks the first node.                                           *)
LEMMA PopChain ==
  ASSUME IInv, NEW s, Chain(s), Pop
  PROVE  /\ HeapOK' /\ Chain(Tail(s))' /\ Len(s) \in Nat \ {0} /\ elements = s[1]
         /\ DOMAIN heap' = DOMAIN heap \ {s[1]}
         /\ \A m \in DOMAIN heap' : heap'[m] = heap[m]
<1> DEFINE t == Tail(s)
<1>1. s \in Seq(Nodes) /\ Len(s) \in Nat  BY DEF Chain, ChainOn
<1>2. Len(s) # 0 /\ elements = s[1]  BY DEF Pop, Chain, LinkedOn
<1>3. t \in Seq(Nodes) /\ Len(t) = Len(s) - 1 /\ \A i \in 1..Len(s) - 1 : t[i] = s[i + 1]
  BY <1>1, <1>2
<1> HIDE DEF t
<1>4. /\ \A i \in 1..Len(s) : s[i] \in DOMAIN heap
      /\ \A m \in DOMAIN heap : \E i \in 1..Len(s) : m = s[i]
      /\ \A i, j \in 1..Len(s) : s[i] = s[j] => i = j
  BY DEF Chain, ChainOn
<1>5. /\ DOMAIN heap' = DOMAIN heap \ {s[1]} /\ \A m \in DOMAIN heap' : heap'[m] = heap[m]
      /\ heap' = [m \in DOMAIN heap' |-> heap'[m]]
  BY <1>2 DEF Pop, Unlinked
<1>6. ASSUME NEW i \in 1..Len(t) PROVE t[i] = s[i + 1] /\ i + 1 \in 1..Len(s) /\ t[i] \in DOMAIN heap'
  <2>1. t[i] = s[i + 1] /\ i + 1 \in 1..Len(s) /\ 1 \in 1..Len(s) /\ i + 1 # 1  BY <1>1, <1>2, <1>3
  <2>2. s[i + 1] # s[1] /\ s[i + 1] \in DOMAIN heap  BY <2>1, <1>4
  <2> QED  BY <2>1, <2>2, <1>5
<1>7. HeapOK'  BY <1>5 DEF IInv, HeapOK
<1>8. ChainOn(t)'
  <2>1. size' = Len(t)  BY <1>3 DEF Pop, Chain, ChainOn
  <2>2. ASSUME NEW m \in DOMAIN heap' PROVE \E i \in 1..Len(t) : m = t[i]
    <3>1. PICK i \in 1..Len(s) : m = s[i]  BY <1>4, <1>5
    <3>2. i - 1 \in 1..Len(t)  BY <1>1, <1>3, <1>5, <3>1
    <3>3. (i - 1) + 1 = i  OBVIOUS
    <3> QED  BY <1>6, <3>1, <3>2, <3>3
  <2>3. \A i, j \in 1..Len(t) : t[i] = t[j] => i = j
    <3> SUFFICES ASSUME NEW i \in 1..Len(t), NEW j \in 1..Len(t), t[i] = t[j] PROVE i = j  OBVIOUS
    <3>1. i + 1 = j + 1  BY <1>4, <1>6
    <3> QED  BY <1>3, <3>1
  <2> QED  BY <1>3, <1>6, <2>1, <2>2, <2>3 DEF ChainOn
<1>9. LinkedOn(t)'
  <2>1. heap[s[1]].next = IF Len(s) = 1 THEN Null ELSE s[2]
    <3>1. 1 \in 1..Len(s) /\ 1 + 1 = 2  BY <1>1, <1>2
    <3> QED  BY <3>1 DEF Chain, LinkedOn
  <2>2. elements' = heap[s[1]].next /\ last' = IF heap[s[1]].next = Null THEN Null ELSE last
    BY <1>2 DEF Pop, LastAfterPop
  <2>3. elements' = IF Len(t) = 0 THEN Null ELSE t[1]
    BY <1>1, <1>2, <1>3, <2>1, <2>2
  <2>4. last' = IF Len(t) = 0 THEN Null ELSE t[Len(t)]
    <3>1. CASE Len(s) = 1  BY <1>3, <2>1, <2>2, <3>1
    <3>2. CASE Len(s) > 1
      <4>1. 2 \in 1..Len(s) /\ Len(s) - 1 \in 1..Len(s) - 1 /\ Len(t) # 0  BY <1>1, <1>3, <3>2
      <4>2. s[2] # Null  BY <1>1, <4>1, NodesAssumption
      <4>3. last = s[Len(s)]  BY <1>2 DEF Chain, LinkedOn
      <4>4. t[Len(t)] = s[(Len(s) - 1) + 1]  BY <1>3, <4>1
      <4>5. (Len(s) - 1) + 1 = Len(s)  BY <1>1
      <4> QED  BY <2>1, <2>2, <3>2, <4>1, <4>2, <4>3, <4>4, <4>5
    <3>3. Len(s) = 1 \/ Len(s) > 1
      <4>1. \A k \in Nat : k = 0 \/ k = 1 \/ k > 1  OBVIOUS
      <4> QED  BY <1>1, <1>2, <4>1
    <3> QED  BY <3>1, <3>2, <3>3
  <2>5. ASSUME NEW i \in 1..Len(t)
        PROVE  heap'[t[i]].next = IF i = Len(t) THEN Null ELSE t[i + 1]
    <3>1. heap'[t[i]] = heap[s[i + 1]] /\ i + 1 \in 1..Len(s)  BY <1>5, <1>6
    <3>2. heap[s[i + 1]].next = IF i + 1 = Len(s) THEN Null ELSE s[(i + 1) + 1]
      BY <3>1 DEF Chain, LinkedOn
    <3>3. i # Len(t) => t[i + 1] = s[(i + 1) + 1]
      <4>1. i # Len(t) => i + 1 \in 1..Len(t)  BY <1>1, <1>3
      <4> QED  BY <1>6, <4>1
    <3>4. i + 1 = Len(s) <=> i = Len(t)  BY <1>1, <1>3
    <3> QED  BY <3>1, <3>2, <3>3, <3>4
  <2> QED  BY <2>3, <2>4, <2>5 DEF LinkedOn
<1> QED  BY <1>1, <1>2, <1>5, <1>7, <1>8, <1>9 DEF Chain, t
-----------------------------------------------------------------------------
(* A method keeps the chain and the entries on it.                         *)
LEMMA MethodStep ==
  ASSUME IInv, Methods
  PROVE  TypeOK' /\ HeapOK' /\ (\E s : Chain(s))' /\ EntriesOK'
<1> PICK s : Chain(s)  BY DEF IInv
<1>0. ASSUME HeapOK', NEW t, Chain(t)', entries' \subseteq Entries, out' \in Entries \cup {Nothing, Error}
      PROVE  TypeOK' /\ (\E u : Chain(u))'
  <2>1. t \in Seq(Nodes) /\ Len(t) \in Nat /\ size' = Len(t)  BY <1>0 DEF Chain, ChainOn
  <2>2. \A i \in 1..Len(t) : t[i] \in DOMAIN heap'  BY <1>0 DEF Chain, ChainOn
  <2>3. DOMAIN heap' \subseteq Nodes
    <3> SUFFICES ASSUME NEW m \in DOMAIN heap' PROVE m \in Nodes  OBVIOUS
    <3>1. PICK i \in 1..Len(t) : m = t[i]  BY <1>0 DEF Chain, ChainOn
    <3> QED  BY <2>1, <3>1
  <2>4. {elements', last'} \subseteq DOMAIN heap' \cup {Null}
    <3>1. Len(t) # 0 => 1 \in 1..Len(t) /\ Len(t) \in 1..Len(t)  BY <2>1
    <3> QED  BY <1>0, <2>2, <3>1 DEF Chain, LinkedOn
  <2>5. \A n \in DOMAIN heap' : heap'[n].element \in Entries /\ heap'[n].next \in Nodes \cup {Null}
    BY <1>0 DEF HeapOK
  <2> QED  BY <1>0, <2>1, <2>3, <2>4, <2>5 DEF TypeOK
<1>1. ASSUME NEW e \in Entries, NEW n \in Nodes, Push(e, n)
      PROVE  TypeOK' /\ HeapOK' /\ (\E u : Chain(u))' /\ EntriesOK'
  <2>1. /\ HeapOK' /\ Chain(Append(s, n))'
        /\ \A m \in DOMAIN heap : heap'[m].element = heap[m].element
        /\ DOMAIN heap' = DOMAIN heap \cup {n} /\ heap'[n].element = e
    BY <1>1, PushChain
  <2>2. entries' = entries \cup {e} /\ e \notin entries /\ out' = Nothing  BY <1>1 DEF Push
  <2>3. EntriesOK'
    <3>1. entries = {heap[m].element : m \in DOMAIN heap}  BY DEF IInv, EntriesOK
    <3>2. entries' = {heap'[m].element : m \in DOMAIN heap'}  BY <2>1, <2>2, <3>1
    <3>3. \A m, k \in DOMAIN heap' : heap'[m].element = heap'[k].element => m = k
      BY <2>1, <2>2, <3>1 DEF IInv, EntriesOK
    <3> QED  BY <3>2, <3>3 DEF EntriesOK
  <2>4. entries' \subseteq Entries  BY <2>2 DEF IInv, TypeOK
  <2> QED  BY <1>0, <2>1, <2>2, <2>3, <2>4
<1>2. CASE Pop
  <2>1. /\ HeapOK' /\ Chain(Tail(s))' /\ Len(s) \in Nat \ {0} /\ elements = s[1]
        /\ DOMAIN heap' = DOMAIN heap \ {s[1]}
        /\ \A m \in DOMAIN heap' : heap'[m] = heap[m]
    BY <1>2, PopChain
  <2>2. /\ entries' = entries \ {heap[elements].element} /\ out' = heap[elements].element
        /\ elements \in DOMAIN heap
    BY <1>2 DEF Pop, IInv, TypeOK
  <2>3. EntriesOK'
    <3>1. /\ entries = {heap[m].element : m \in DOMAIN heap}
          /\ \A m, k \in DOMAIN heap : heap[m].element = heap[k].element => m = k
      BY DEF IInv, EntriesOK
    <3>2. entries' = {heap'[m].element : m \in DOMAIN heap'}  BY <2>1, <2>2, <3>1
    <3> QED  BY <2>1, <3>1, <3>2 DEF EntriesOK
  <2>4. entries' \subseteq Entries /\ out' \in Entries  BY <2>2 DEF IInv, TypeOK
  <2> QED  BY <1>0, <2>1, <2>3, <2>4
<1>3. CASE PushFails \/ Peek \/ EmptyFails
  <2>1. UNCHANGED <<heap, elements, last, size, entries>> /\ out' \in Entries \cup {Error}
    BY <1>3 DEF PushFails, Peek, EmptyFails, IInv, TypeOK
  <2>2. HeapOK'  BY <2>1 DEF IInv, HeapOK
  <2>3. EntriesOK'  BY <2>1 DEF IInv, EntriesOK
  <2>4. Chain(s)'  BY <2>1 DEF Chain, ChainOn, LinkedOn
  <2>5. entries' \subseteq Entries  BY <2>1 DEF IInv, TypeOK
  <2> QED  BY <1>0, <2>1, <2>2, <2>3, <2>4, <2>5
<1> QED  BY <1>1, <1>2, <1>3 DEF Methods

(* The content is the list of the elements along the chain.                *)
ContentOn(s) == Content = [i \in 1..Len(s) |-> heap[s[i]].element]
ContentOnChain == \A s : Chain(s) => ContentOn(s)
(* pht_queue_to_zend_hashtable shows the elements along the chain.         *)
LEMMA ContentIsChain == IInv => ContentOnChain
BY WalkIsChain DEF IInv, Content, ContentOn, ContentOnChain

(* A method that leaves the version as it is leaves the content.           *)
LEMMA MethodTables ==
  ASSUME IInv, Methods, Changes(Content), UNCHANGED built
  PROVE  TableTrue'
<1>1. CASE current' = {}
  BY <1>1 DEF TableTrue, UpToDate
<1>2. CASE UNCHANGED <<heap, elements, current>>
  <2>1. UNCHANGED Content
    <3>1. UNCHANGED Reachable  BY <1>2 DEF Reachable
    <3> QED  BY <1>2, <3>1 DEF Content, Walk
  <2>2. stale' = stale  BY <2>1 DEF Changes
  <2> QED  BY <1>2, <2>2 DEF IInv, TableTrue, UpToDate
<1> QED  BY <1>1, <1>2 DEF Methods, Push, PushFails, Pop, Peek, EmptyFails, Bump

(* Spec keeps the invariant.                                               *)
LEMMA Invariant == Spec => []IInv
<1>1. Init => IInv
  <2> SUFFICES ASSUME Init PROVE IInv  OBVIOUS
  <2>1. Chain(<<>>)  BY DEF Init, Chain, ChainOn, LinkedOn
  <2>2. HeapOK /\ EntriesOK  BY DEF Init, HeapOK, EntriesOK
  <2>3. TypeOK  BY DEF Init, TypeOK
  <2>4. TableTrue  BY DEF Init, TableInit, TableTrue
  <2> QED  BY <2>1, <2>2, <2>3, <2>4 DEF IInv
<1>2. IInv /\ [Next]_vars => IInv'
  <2> SUFFICES ASSUME IInv, [Next]_vars PROVE IInv'  OBVIOUS
  <2>1. CASE Methods /\ Changes(Content) /\ UNCHANGED built
    BY <2>1, MethodStep, MethodTables DEF IInv
  <2>2. ASSUME UNCHANGED listVars
        PROVE  TypeOK' /\ HeapOK' /\ (\E s : Chain(s))' /\ EntriesOK'
    <3>1. TypeOK' /\ HeapOK' /\ EntriesOK'
      BY <2>2 DEF listVars, IInv, TypeOK, HeapOK, EntriesOK
    <3>2. PICK s : Chain(s)  BY DEF IInv
    <3>3. Chain(s)'  BY <2>2, <3>2 DEF listVars, Chain, ChainOn, LinkedOn
    <3> QED  BY <3>1, <3>3
  <2>3. ASSUME NEW o \in Objects, QoGetProperties(o) PROVE IInv'
    <3>1. TableTrue'  BY <2>3 DEF QoGetProperties, GetProperties, IInv, TableTrue, UpToDate, tableVars
    <3> QED  BY <2>2, <2>3, <3>1 DEF IInv, QoGetProperties
  <2>4. CASE UNCHANGED vars
    BY <2>2, <2>4 DEF vars, tableVars, IInv, TableTrue, UpToDate
  <2> QED  BY <2>1, <2>3, <2>4 DEF Next
<1> QED  BY <1>1, <1>2, PTL DEF Spec

(* size, last and the chain agree: a worker counts down by one of them and *)
(* pops by the other.                                                      *)
THEOREM QueueAgrees == Spec => []ChainAgrees
<1>1. IInv => ChainAgrees
  <2> SUFFICES ASSUME IInv PROVE ChainAgrees  OBVIOUS
  <2>1. PICK s : Chain(s)  BY DEF IInv
  <2>2. Walk = s  BY <2>1, WalkIsChain DEF IInv
  <2>3. size = Len(s) /\ last = IF Len(s) = 0 THEN Null ELSE s[Len(s)]
    BY <2>1 DEF Chain, ChainOn, LinkedOn
  <2> QED  BY <2>2, <2>3 DEF IInv, ChainAgrees
<1> QED  BY <1>1, Invariant, PTL

(* pht_queue_destroy, which walks the chain, frees every node and entry.   *)
THEOREM QueueKeeps == Spec => []NothingLost
<1>1. IInv => NothingLost
  <2> SUFFICES ASSUME IInv PROVE NothingLost  OBVIOUS
  <2>1. PICK s : Chain(s)  BY DEF IInv
  <2>2. Walk = s  BY <2>1, WalkIsChain DEF IInv
  <2>3. DOMAIN heap = ToSet(s)
    <3>1. DOMAIN s = 1..Len(s)  BY <2>1 DEF Chain, ChainOn
    <3>2. /\ \A i \in 1..Len(s) : s[i] \in DOMAIN heap
          /\ \A n \in DOMAIN heap : \E i \in 1..Len(s) : n = s[i]
      BY <2>1 DEF Chain, ChainOn
    <3> QED  BY <3>1, <3>2 DEF ToSet
  <2> QED  BY <2>2, <2>3 DEF IInv, EntriesOK, NothingLost
<1> QED  BY <1>1, Invariant, PTL

(* A table that get_properties hands out as it is shows the entries.       *)
THEOREM QueueTables == Spec => []TableTrue
<1>1. IInv => TableTrue  BY DEF IInv
<1> QED  BY <1>1, Invariant, PTL
-----------------------------------------------------------------------------
(* A sequence is the function of its elements.                             *)
LEMMA SeqIsFunction ==
  ASSUME NEW S, NEW t \in Seq(S)
  PROVE  t = [i \in 1..Len(t) |-> t[i]]
OBVIOUS

(* InsertAt at the end and RemoveAt at the front.                          *)
LEMMA InsertAtEnd ==
  ASSUME NEW S, NEW c \in Seq(S), NEW e \in S
  PROVE  List!InsertAt(c, Len(c) + 1, e) = Append(c, e)
<1>1. SubSeq(c, 1, (Len(c) + 1) - 1) = c
  <2>1. (Len(c) + 1) - 1 = Len(c)  OBVIOUS
  <2> QED  BY <2>1, SubSeqFull
<1>2. SubSeq(c, Len(c) + 1, Len(c)) = <<>>  OBVIOUS
<1>3. c \o <<e>> = Append(c, e) /\ Append(c, e) \in Seq(S)  BY AppendIsConcat
<1>4. Append(c, e) \o <<>> = Append(c, e)  BY <1>3, ConcatEmptySeq
<1> QED  BY <1>1, <1>2, <1>3, <1>4 DEF List!InsertAt
(* Removing the first element leaves the tail.                             *)
LEMMA RemoveAtFront ==
  ASSUME NEW S, NEW c \in Seq(S), Len(c) > 0
  PROVE  List!RemoveAt(c, 1) = Tail(c)
<1> DEFINE a == SubSeq(c, 1, 1 - 1)  b == SubSeq(c, 1 + 1, Len(c))
<1>1. a = <<>>
  <2>1. 1 - 1 = 0  OBVIOUS
  <2> QED  BY <2>1, SubSeqEmpty
<1>2. b = Tail(c) /\ Tail(c) \in Seq(S)  OBVIOUS
<1>3. List!RemoveAt(c, 1) = a \o b  BY DEF List!RemoveAt
<1> HIDE DEF a, b
<1>4. <<>> \o Tail(c) = Tail(c)  BY <1>2, ConcatEmptySeq
<1> QED  BY <1>1, <1>2, <1>3, <1>4

(* Every call is one of EntryList.                                         *)
LEMMA MethodImplements ==
  ASSUME IInv, IInv', Methods
  PROVE  List!QueueNext
<1>1. PICK s : Chain(s)  BY DEF IInv
<1>2. /\ s \in Seq(Nodes) /\ Len(s) \in Nat /\ \A i \in 1..Len(s) : s[i] \in DOMAIN heap
  BY <1>1 DEF Chain, ChainOn
<1>3. Content = [i \in 1..Len(s) |-> heap[s[i]].element]
  BY <1>1, ContentIsChain DEF ContentOn, ContentOnChain
<1>4. \A i \in 1..Len(s) : heap[s[i]].element \in entries /\ heap[s[i]].element \in Entries
  BY <1>2 DEF IInv, EntriesOK, TypeOK
<1>5. /\ Content \in Seq(Entries) /\ Len(Content) = Len(s) /\ DOMAIN Content = 1..Len(s)
      /\ \A i \in 1..Len(s) : Content[i] = heap[s[i]].element /\ Content[i] \in entries
  BY <1>2, <1>3, <1>4
<1>6. \A t : Chain(t)' => ContentOn(t)'
  <2>1. (IInv => ContentOnChain)'  BY ContentIsChain, PTL
  <2> QED  BY <2>1 DEF ContentOnChain
<1>7. ASSUME NEW e \in Entries, NEW n \in Nodes, Push(e, n)
      PROVE  List!Insert(Len(Content) + 1, e)
  <2> DEFINE t == Append(s, n)
  <2>1. /\ Chain(t)' /\ \A m \in DOMAIN heap : heap'[m].element = heap[m].element
        /\ heap'[n].element = e
    BY <1>1, <1>7, PushChain
  <2>2. Len(t) = Len(s) + 1 /\ t[Len(s) + 1] = n /\ \A i \in 1..Len(s) : t[i] = s[i]
    BY <1>2
  <2>3. Content' = [i \in 1..Len(t) |-> heap'[t[i]].element]
    BY <1>6, <2>1 DEF ContentOn
  <2> HIDE DEF t
  <2>4. /\ Append(Content, e) \in Seq(Entries) /\ Len(Append(Content, e)) = Len(s) + 1
        /\ \A i \in 1..Len(s) + 1 :
             Append(Content, e)[i] = IF i = Len(s) + 1 THEN e ELSE Content[i]
    BY <1>2, <1>5, AppendProperties
  <2>5. ASSUME NEW i \in 1..Len(s) + 1
        PROVE  heap'[t[i]].element = IF i = Len(s) + 1 THEN e ELSE Content[i]
    <3>1. CASE i = Len(s) + 1  BY <2>1, <2>2, <3>1
    <3>2. CASE i \in 1..Len(s)
      <4>1. heap'[t[i]].element = heap[s[i]].element  BY <1>2, <2>1, <2>2, <3>2
      <4> QED  BY <1>2, <1>5, <3>2, <4>1
    <3> QED  BY <1>2, <3>1, <3>2
  <2>6. Content' = Append(Content, e)
    <3>1. Append(Content, e) = [i \in 1..Len(s) + 1 |-> Append(Content, e)[i]]
      BY <2>4, SeqIsFunction
    <3> QED  BY <2>2, <2>3, <2>4, <2>5, <3>1
  <2>7. Content' = List!InsertAt(Content, Len(Content) + 1, e)  BY <1>5, <2>6, InsertAtEnd
  <2>8. e \notin entries /\ out' = Nothing  BY <1>7 DEF Push
  <2>9. List!Fresh(e)  BY <1>5, <2>8 DEF List!Fresh, List!ToSet
  <2> QED  BY <1>2, <1>5, <2>7, <2>8, <2>9 DEF List!Insert
<1>8. CASE Pop
  <2> DEFINE t == Tail(s)
  <2>1. /\ Chain(t)' /\ Len(s) \in Nat \ {0} /\ elements = s[1]
        /\ DOMAIN heap' = DOMAIN heap \ {s[1]}
        /\ \A m \in DOMAIN heap' : heap'[m] = heap[m]
    BY <1>1, <1>8, PopChain
  <2>2. Len(t) = Len(s) - 1 /\ \A i \in 1..Len(s) - 1 : t[i] = s[i + 1]
    BY <1>2, <2>1
  <2>3. Content' = [i \in 1..Len(t) |-> heap'[t[i]].element] /\ \A i \in 1..Len(t) : t[i] \in DOMAIN heap'
    BY <1>6, <2>1 DEF ContentOn, Chain, ChainOn
  <2> HIDE DEF t
  <2>4. /\ Tail(Content) \in Seq(Entries) /\ Len(Tail(Content)) = Len(s) - 1
        /\ \A i \in 1..Len(s) - 1 : Tail(Content)[i] = Content[i + 1]
    <3>1. Content # <<>>  BY <1>5, <2>1
    <3> QED  BY <1>5, <3>1, HeadTailProperties
  <2>5. ASSUME NEW i \in 1..Len(s) - 1 PROVE heap'[t[i]].element = Content[i + 1]
    <3>1. heap'[t[i]].element = heap[s[i + 1]].element  BY <2>1, <2>2, <2>3
    <3>2. i + 1 \in 1..Len(s)  BY <1>2
    <3> QED  BY <1>5, <3>1, <3>2
  <2>6. Content' = Tail(Content)
    <3>1. Tail(Content) = [i \in 1..Len(s) - 1 |-> Tail(Content)[i]]
      BY <2>4, SeqIsFunction
    <3> QED  BY <2>2, <2>3, <2>4, <2>5, <3>1
  <2>7. Content' = List!RemoveAt(Content, 1)
    <3>1. Len(Content) > 0
      <4>1. \A k \in Nat \ {0} : k > 0  OBVIOUS
      <4> QED  BY <1>5, <2>1, <4>1
    <3>2. Content \in Seq(Entries)  BY <1>5
    <3>3. List!RemoveAt(Content, 1) = Tail(Content)  BY <3>1, <3>2, RemoveAtFront
    <3> QED  BY <2>6, <3>3
  <2>8. 1 \in DOMAIN Content /\ out' = Content[1]
    <3>1. 1 \in 1..Len(s)  BY <2>1
    <3> QED  BY <1>5, <1>8, <2>1, <3>1 DEF Pop
  <2>9. List!Take(1)  BY <2>7, <2>8 DEF List!Take
  <2> QED  BY <2>9 DEF List!QueueNext
<1>9. UNCHANGED heap /\ UNCHANGED elements => Content' = Content
  <2> SUFFICES ASSUME UNCHANGED <<heap, elements>> PROVE Content' = Content  OBVIOUS
  <2>1. UNCHANGED Reachable  BY DEF Reachable
  <2> QED  BY <2>1 DEF Content, Walk
<1>10. CASE Peek
  <2>1. elements = s[1] /\ Len(s) # 0  BY <1>1, <1>10 DEF Peek, Chain, LinkedOn
  <2>2. 1 \in DOMAIN Content /\ Content[1] = heap[elements].element  BY <1>2, <1>5, <2>1
  <2>3. List!Read(1)  BY <1>9, <1>10, <2>2 DEF Peek, List!Read
  <2> QED  BY <2>3 DEF List!QueueNext
<1>11. CASE PushFails \/ EmptyFails
  <2>1. List!Fail  BY <1>9, <1>11 DEF PushFails, EmptyFails, List!Fail
  <2> QED  BY <2>1 DEF List!QueueNext
<1> QED  BY <1>7, <1>8, <1>10, <1>11 DEF Methods, List!QueueNext

(* The queue is first in, first out: front() and pop() give the entry that *)
(* was pushed first of those that are in it.                               *)
THEOREM QueueIsFifo == Spec => Fifo
<1>1. Init => List!Init
  <2> SUFFICES ASSUME Init PROVE List!Init  OBVIOUS
  <2>1. Chain(<<>>) /\ HeapOK  BY DEF Init, Chain, ChainOn, LinkedOn, HeapOK
  <2>2. Walk = <<>>  BY <2>1, WalkIsChain
  <2> QED  BY <2>2 DEF Init, Content, List!Init
<1>2. IInv /\ IInv' /\ [Next]_vars => [List!QueueNext]_<<Content, out>>
  <2> SUFFICES ASSUME IInv, IInv', [Next]_vars PROVE [List!QueueNext]_<<Content, out>>  OBVIOUS
  <2>1. CASE Methods  BY <2>1, MethodImplements
  <2>2. CASE UNCHANGED listVars
    <3>1. UNCHANGED Reachable /\ UNCHANGED <<elements, heap, out>>
      BY <2>2 DEF listVars, Reachable
    <3> QED  BY <3>1 DEF Content, Walk
  <2> QED  BY <2>1, <2>2 DEF Next, QoGetProperties, vars
<1> QED  BY <1>1, <1>2, Invariant, PTL DEF Spec, Fifo, List!QueueSpec, List!vars
=============================================================================
