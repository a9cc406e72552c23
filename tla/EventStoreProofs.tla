-------------------------- MODULE EventStoreProofs --------------------------
(***************************************************************************)
(* Proofs about the event store, for any calls, events and bounds. That    *)
(* the roots agree needs only that the root is a function of the log; what *)
(* the root tells of the log, and what getProof can prove, needs the tree. *)
(* Its lemmas come second: the recursive functions of the model are taken  *)
(* apart by the least place where they would break, in numbers alone.      *)
(***************************************************************************)
EXTENDS EventStore, SequenceTheorems, WellFoundedInduction, TLAPS

-----------------------------------------------------------------------------
(* The inductive invariant.                                                *)

\* The tree in memory is the one of the log it was built from.
MemoryBuilt == memory = Root(built)

\* As long as nothing has overlapped, one call or one clearStore is under way.
Alone ==
    ~overlap => /\ \A c, d \in Busy : c = d
                /\ clearing # "no" => Busy = {}

\* A call that is about to save a root has just built the tree in memory; one
\* that nothing came between holds the log as it is.
CallCurrent ==
    ~overlap => \A c \in Call :
        /\ pc[c] = "save" => built = snap[c]
        /\ pc[c] \in {"root", "save"} /\ ~stale => snap[c] = log

\* What clearStore has emptied stays empty until it ends.
Emptied ==
    ~overlap => /\ clearing # "no" => log = <<>>
                /\ clearing \in {"memory", "blank"} => saved = <<>>
                /\ clearing = "blank" => built = <<>>

IInv == TypeOK /\ MemoryBuilt /\ Alone /\ CallCurrent /\ Emptied /\ RootCurrent

-----------------------------------------------------------------------------
(* What the steps do to the log.                                           *)

Entry == Event \X {0, 1}

\* An empty log has the empty root.
LEMMA RootOfNone == Root(<<>>) = <<>>
  BY DEF Root

\* No guid is in the log twice.
Distinct(s) == \A i, j \in DOMAIN s : s[i][1] = s[j][1] => i = j

\* The injectivity that TypeOK asks for, between two positions.
LEMMA Distinctness ==
  ASSUME NEW s
  PROVE  Distinct(s) <=> IsInjective([i \in DOMAIN s |-> s[i][1]])
  BY DEF Distinct, IsInjective

\* A new event keeps the guids apart,
LEMMA AppendDistinct ==
  ASSUME NEW s \in Seq(Entry), Distinct(s),
         NEW e \in Event, NEW level \in {0, 1}, \A i \in DOMAIN s : s[i][1] # e
  PROVE  /\ Append(s, <<e, level>>) \in Seq(Entry)
         /\ Distinct(Append(s, <<e, level>>))
<1> DEFINE t == Append(s, <<e, level>>)
<1>1. <<e, level>> \in Entry
  BY DEF Entry
<1>2. t \in Seq(Entry) /\ Len(t) = Len(s) + 1 /\ DOMAIN t = 1 .. Len(s) + 1
  BY <1>1
<1>3. t[Len(s) + 1] = <<e, level>> /\ \A i \in 1 .. Len(s) : t[i] = s[i]
  BY <1>1
<1>4. DOMAIN s = 1 .. Len(s) /\ Len(s) \in Nat
  OBVIOUS
<1> HIDE DEF t
<1>5. ASSUME NEW i \in DOMAIN t, NEW j \in DOMAIN t, t[i][1] = t[j][1] PROVE i = j
  <2>1. CASE i \in DOMAIN s /\ j \in DOMAIN s
    BY <2>1, <1>3, <1>4, <1>5 DEF Distinct
  <2>2. CASE i = Len(s) + 1 /\ j \in DOMAIN s
    BY <2>2, <1>3, <1>4, <1>5
  <2>3. CASE j = Len(s) + 1 /\ i \in DOMAIN s
    BY <2>3, <1>3, <1>4, <1>5
  <2>4. QED
    BY <2>1, <2>2, <2>3, <1>2, <1>4
<1>6. Distinct(t)
  BY <1>5 DEF Distinct
<1>7. QED
  BY <1>2, <1>6 DEF t

\* and so does a mark, which changes the sync level of one.
LEMMA MarkDistinct ==
  ASSUME NEW s \in Seq(Entry), Distinct(s),
         NEW e \in Event, NEW k \in DOMAIN s, s[k] = <<e, 0>>
  PROVE  /\ [s EXCEPT ![k] = <<e, 1>>] \in Seq(Entry)
         /\ Distinct([s EXCEPT ![k] = <<e, 1>>])
<1> DEFINE t == [s EXCEPT ![k] = <<e, 1>>]
<1>1. <<e, 1>> \in Entry
  BY DEF Entry
<1>2. t \in Seq(Entry) /\ DOMAIN t = DOMAIN s
  BY <1>1
<1>3. \A i \in DOMAIN s : t[i][1] = s[i][1]
  OBVIOUS
<1> HIDE DEF t
<1>4. Distinct(t)
  BY <1>2, <1>3 DEF Distinct
<1>5. QED
  BY <1>2, <1>4 DEF t

-----------------------------------------------------------------------------
(* The tree.                                                               *)

\* A set of numbers has a least one.
LEMMA Least ==
  ASSUME NEW S \in SUBSET Nat, S # {}
  PROVE  \E m \in S : \A n \in S : m <= n
<1>1. PICK m \in S : \A n \in S : ~ (<<n, m>> \in OpToRel(<, Nat))
  BY NatLessThanWellFounded, WFMin
<1>2. \A n \in S : ~(n < m)
  BY <1>1 DEF OpToRel
<1> QED
  BY <1>2

\* The layers are there, one above the other.
LEMMA LayersRise ==
  ASSUME NEW nodes, Len(nodes) \in Nat
  PROVE  /\ Layers(nodes)[0] = nodes
         /\ \A k \in 1 .. Len(nodes) : Layers(nodes)[k] = Above(Layers(nodes)[k - 1])
<1> DEFINE Rises(n, g) == g = [k \in 0 .. n |-> IF k = 0 THEN nodes ELSE Above(g[k - 1])]
           None == {n \in Nat : ~ \E g : Rises(n, g)}
<1>1. None = {}
  <2> SUFFICES ASSUME None # {} PROVE FALSE
    OBVIOUS
  <2>1. PICK m \in None : \A n \in None : m <= n
    BY Least
  <2>2. m # 0
    <3>1. Rises(0, [k \in 0 .. 0 |-> nodes])
      OBVIOUS
    <3> QED
      BY <2>1, <3>1
  <2>3. m - 1 \in Nat /\ m - 1 \notin None /\ m \in Nat
    <3>1. m \in Nat /\ m - 1 \in Nat /\ ~(m <= m - 1)
      BY <2>1, <2>2
    <3> HIDE DEF None
    <3> QED
      BY <2>1, <3>1
  <2>4. PICK g : Rises(m - 1, g)
    BY <2>3
  <2> DEFINE h == [k \in 0 .. m |-> IF k < m THEN g[k] ELSE Above(g[m - 1])]
  <2>5. \A k \in 0 .. m - 1 : g[k] = IF k = 0 THEN nodes ELSE Above(g[k - 1])
    BY <2>4
  <2>6. \A k \in 0 .. m : h[k] = IF k = 0 THEN nodes ELSE Above(h[k - 1])
    <3> TAKE k \in 0 .. m
    <3>1. CASE k = 0
      BY <2>2, <2>3, <2>5, <3>1
    <3>2. CASE k # 0 /\ k < m
      <4>1. h[k] = g[k] /\ h[k - 1] = g[k - 1] /\ k \in 0 .. m - 1
        BY <2>3, <3>2
      <4> QED
        BY <2>5, <3>2, <4>1
    <3>3. CASE k = m
      <4>1. h[k] = Above(g[m - 1]) /\ h[k - 1] = g[m - 1]
        BY <2>2, <2>3, <3>3
      <4> QED
        BY <2>2, <3>3, <4>1
    <3> QED
      BY <2>3, <3>1, <3>2, <3>3
  <2>7. Rises(m, h)
    BY <2>6
  <2> QED
    BY <2>1, <2>7
<1>2. \E g : Rises(Len(nodes), g)
  BY <1>1
<1>3. Layers(nodes) = CHOOSE g : Rises(Len(nodes), g)
  BY DEF Layers
<1>4. Rises(Len(nodes), Layers(nodes))
  <2> HIDE DEF Rises
  <2> QED
    BY <1>2, <1>3
<1>5. ASSUME NEW g, Rises(Len(nodes), g)
      PROVE  /\ g[0] = nodes
             /\ \A k \in 1 .. Len(nodes) : g[k] = Above(g[k - 1])
  <2>1. \A k \in 0 .. Len(nodes) : g[k] = IF k = 0 THEN nodes ELSE Above(g[k - 1])
    BY <1>5
  <2> QED
    BY <2>1
<1> QED
  <2> HIDE DEF Rises
  <2> QED
    BY <1>4, <1>5

\* The hashes a proof leads to, level by level, as Computed chooses them.
Hashes(x, proof) ==
    CHOOSE g : g = [k \in 0 .. Len(proof) |-> IF k = 0 THEN {Leaf(x)} ELSE Paired(g[k - 1], proof[k])]

\* The hashes that a proof leads to are there, one after the other.
LEMMA HashesRise ==
  ASSUME NEW x, NEW proof, Len(proof) \in Nat
  PROVE  /\ Computed(x, proof) = Hashes(x, proof)[Len(proof)]
         /\ Hashes(x, proof)[0] = {Leaf(x)}
         /\ \A k \in 1 .. Len(proof) :
               Hashes(x, proof)[k] = Paired(Hashes(x, proof)[k - 1], proof[k])
<1> DEFINE Rises(n, g) ==
              g = [k \in 0 .. n |-> IF k = 0 THEN {Leaf(x)} ELSE Paired(g[k - 1], proof[k])]
           None == {n \in Nat : ~ \E g : Rises(n, g)}
<1>1. None = {}
  <2> SUFFICES ASSUME None # {} PROVE FALSE
    OBVIOUS
  <2>1. PICK m \in None : \A n \in None : m <= n
    BY Least
  <2>2. m # 0
    <3>1. Rises(0, [k \in 0 .. 0 |-> {Leaf(x)}])
      OBVIOUS
    <3> QED
      BY <2>1, <3>1
  <2>3. m - 1 \in Nat /\ m - 1 \notin None /\ m \in Nat
    <3>1. m \in Nat /\ m - 1 \in Nat /\ ~(m <= m - 1)
      BY <2>1, <2>2
    <3> HIDE DEF None
    <3> QED
      BY <2>1, <3>1
  <2>4. PICK g : Rises(m - 1, g)
    BY <2>3
  <2> DEFINE h == [k \in 0 .. m |-> IF k < m THEN g[k] ELSE Paired(g[m - 1], proof[m])]
  <2>5. \A k \in 0 .. m - 1 : g[k] = IF k = 0 THEN {Leaf(x)} ELSE Paired(g[k - 1], proof[k])
    BY <2>4
  <2>6. \A k \in 0 .. m : h[k] = IF k = 0 THEN {Leaf(x)} ELSE Paired(h[k - 1], proof[k])
    <3> TAKE k \in 0 .. m
    <3>1. CASE k = 0
      BY <2>2, <2>3, <2>5, <3>1
    <3>2. CASE k # 0 /\ k < m
      <4>1. h[k] = g[k] /\ h[k - 1] = g[k - 1] /\ k \in 0 .. m - 1
        BY <2>3, <3>2
      <4> QED
        BY <2>5, <3>2, <4>1
    <3>3. CASE k = m
      <4>1. h[k] = Paired(g[m - 1], proof[m]) /\ h[k - 1] = g[m - 1]
        BY <2>2, <2>3, <3>3
      <4> QED
        BY <2>2, <3>3, <4>1
    <3> QED
      BY <2>3, <3>1, <3>2, <3>3
  <2>7. Rises(m, h)
    BY <2>6
  <2> QED
    BY <2>1, <2>7
<1> DEFINE hash == Hashes(x, proof)
<1>2. Rises(Len(proof), hash)
  <2>1. \E g : Rises(Len(proof), g)
    BY <1>1
  <2>2. hash = CHOOSE g : Rises(Len(proof), g)
    BY DEF Hashes
  <2> HIDE DEF Rises, hash
  <2> QED
    BY <2>1, <2>2
<1>3. Computed(x, proof) = hash[Len(proof)]
  BY DEF Computed, Hashes
<1>4. ASSUME NEW g, Rises(Len(proof), g)
      PROVE  /\ g[0] = {Leaf(x)}
             /\ \A k \in 1 .. Len(proof) : g[k] = Paired(g[k - 1], proof[k])
  <2>1. \A k \in 0 .. Len(proof) : g[k] = IF k = 0 THEN {Leaf(x)} ELSE Paired(g[k - 1], proof[k])
    BY <1>4
  <2> QED
    BY <2>1
<1>5. hash[0] = {Leaf(x)} /\ \A k \in 1 .. Len(proof) : hash[k] = Paired(hash[k - 1], proof[k])
  <2> HIDE DEF hash, Rises
  <2> QED
    BY <1>2, <1>4
<1> QED
  BY <1>3, <1>5

\* A function on 1 .. n is a sequence of that length.
LEMMA Listed ==
  ASSUME NEW n \in Nat, NEW f, f = [i \in 1 .. n |-> f[i]]
  PROVE  Len(f) = n /\ DOMAIN f = 1 .. n
<1> DEFINE S == {f[i] : i \in 1 .. n}
<1>1. f \in [1 .. n -> S]
  <2>1. \A i \in 1 .. n : f[i] \in S
    OBVIOUS
  <2> HIDE DEF S
  <2>2. [i \in 1 .. n |-> f[i]] \in [1 .. n -> S]
    BY <2>1
  <2> QED
    BY <2>2
<1>2. f \in Seq(S)
  BY <1>1, SeqDef
<1>3. Len(f) \in Nat /\ DOMAIN f = 1 .. Len(f) /\ DOMAIN f = 1 .. n
  BY <1>1, <1>2, LenProperties
<1> QED
  BY <1>3

\* A level has half the nodes of the one below it, rounded up.
LEMMA HalvesType ==
  ASSUME NEW n \in Nat, n >= 1
  PROVE  /\ Halves(n) \in Nat /\ Halves(n) >= 1
         /\ n >= 2 => Halves(n) < n
         /\ Halves(n) = 1 => n <= 2
  BY DEF Halves

IsLayer(v) == Len(v) \in Nat /\ Len(v) >= 1 /\ DOMAIN v = 1 .. Len(v)

\* What a turn of buildMerkleTree makes of the nodes of a layer.
LEMMA ParentsListed ==
  ASSUME NEW v, IsLayer(v)
  PROVE  /\ IsLayer(Parents(v)) /\ Len(Parents(v)) = Halves(Len(v))
         /\ \A i \in 1 .. Len(Parents(v)) :
               Parents(v)[i] = IF 2 * i <= Len(v) THEN <<v[2 * i - 1], v[2 * i]>> ELSE <<v[2 * i - 1]>>
<1>1. Halves(Len(v)) \in Nat /\ Halves(Len(v)) >= 1
  BY HalvesType DEF IsLayer
<1>2. Parents(v) = [i \in 1 .. Halves(Len(v)) |-> Parents(v)[i]]
  BY DEF Parents
<1>3. Len(Parents(v)) = Halves(Len(v)) /\ DOMAIN Parents(v) = 1 .. Halves(Len(v))
  BY <1>1, <1>2, Listed
<1>4. \A i \in 1 .. Halves(Len(v)) :
         Parents(v)[i] = IF 2 * i <= Len(v) THEN <<v[2 * i - 1], v[2 * i]>> ELSE <<v[2 * i - 1]>>
  BY DEF Parents
<1> QED
  BY <1>1, <1>3, <1>4 DEF IsLayer

\* The layer above is a shorter one, except at the top.
LEMMA AboveListed ==
  ASSUME NEW v, IsLayer(v)
  PROVE  /\ IsLayer(Above(v))
         /\ Len(v) > 1 => Above(v) = Parents(v) /\ Len(Above(v)) < Len(v)
         /\ Len(v) <= 1 => Above(v) = v
<1>1. CASE Len(v) > 1
  BY <1>1, ParentsListed, HalvesType DEF Above, IsLayer
<1>2. CASE Len(v) <= 1
  BY <1>2 DEF Above, IsLayer
<1> QED
  BY <1>1, <1>2 DEF IsLayer

\* The leaves of a log that is not empty.
LEMMA LeavesListed ==
  ASSUME NEW s \in Seq(Entry), s # <<>>
  PROVE  /\ IsLayer(Leaves(s)) /\ Len(Leaves(s)) = Len(s)
         /\ \A i \in 1 .. Len(s) : Leaves(s)[i] = Leaf(s[i])
<1>1. Len(s) \in Nat /\ Len(s) >= 1 /\ DOMAIN s = 1 .. Len(s)
  BY EmptySeq, LenProperties
<1>2. Leaves(s) = [i \in 1 .. Len(s) |-> Leaves(s)[i]] /\ \A i \in 1 .. Len(s) : Leaves(s)[i] = Leaf(s[i])
  BY <1>1 DEF Leaves
<1>3. Len(Leaves(s)) = Len(s) /\ DOMAIN Leaves(s) = 1 .. Len(s)
  BY <1>1, <1>2, Listed
<1> QED
  BY <1>1, <1>2, <1>3 DEF IsLayer

\* Every layer is one, and by the last there is a single node.
LEMMA LayersListed ==
  ASSUME NEW nodes, IsLayer(nodes)
  PROVE  \A k \in 0 .. Len(nodes) :
            /\ IsLayer(Layers(nodes)[k])
            /\ Len(Layers(nodes)[k]) = 1 \/ Len(Layers(nodes)[k]) + k <= Len(nodes)
<1> DEFINE L == Layers(nodes)
           N == Len(nodes)
           Fine(k) == IsLayer(L[k]) /\ (Len(L[k]) = 1 \/ Len(L[k]) + k <= N)
           Bad == {k \in 0 .. N : ~Fine(k)}
<1>0. N \in Nat /\ N >= 1 /\ L[0] = nodes /\ \A k \in 1 .. N : L[k] = Above(L[k - 1])
  BY LayersRise DEF IsLayer
<1>1. Bad = {}
  <2> SUFFICES ASSUME Bad # {} PROVE FALSE
    OBVIOUS
  <2> HIDE DEF L, N
  <2>1. Bad \subseteq Nat
    BY <1>0
  <2>2. PICK m \in Bad : \A n \in Bad : m <= n
    <3> HIDE DEF Bad
    <3> QED
      BY <2>1, Least
  <2>3. m # 0
    <3>1. Fine(0)
      BY <1>0 DEF L, N
    <3> QED
      BY <2>2, <3>1
  <2>4. m \in 1 .. N /\ m - 1 \in 0 .. N /\ m - 1 \notin Bad
    BY <1>0, <2>2, <2>3
  <2>5. Fine(m - 1)
    BY <2>4
  <2>6. L[m] = Above(L[m - 1])
    BY <1>0, <2>4
  <2> DEFINE b == Len(L[m - 1])
             a == Len(L[m])
  <2>7. b \in Nat /\ b >= 1 /\ (b = 1 \/ b + (m - 1) <= N)
    BY <2>5 DEF IsLayer
  <2>8. IsLayer(L[m]) /\ a \in Nat /\ (b > 1 => a < b) /\ (b <= 1 => a = b)
    BY <2>5, <2>6, AboveListed DEF IsLayer
  <2>9. m \in Nat /\ N \in Nat
    BY <1>0, <2>4
  <2>10. a = 1 \/ a + m <= N
    <3> HIDE DEF a, b
    <3> QED
      BY <2>7, <2>8, <2>9
  <2>11. Fine(m)
    BY <2>8, <2>10
  <2> QED
    BY <2>2, <2>11
<1> QED
  BY <1>1

IsLeaf(t) == t = <<t[1], t[2], "leaf">>

\* Leaves, and hashes of one or two nodes, are never the same.
LEMMA LeafShape ==
  ASSUME NEW x
  PROVE  IsLeaf(Leaf(x))
<1>1. Leaf(x) = <<x[1], x[2], "leaf">>
  BY DEF Leaf
<1> QED
  BY <1>1 DEF IsLeaf

\* The hash of two nodes is no leaf,
LEMMA PairShape ==
  ASSUME NEW u, NEW v
  PROVE  ~IsLeaf(<<u, v>>)
<1>1. Len(<<u, v>>) = 2
  OBVIOUS
<1>2. \A a, b : Len(<<a, b, "leaf">>) = 3
  OBVIOUS
<1> QED
  BY <1>1, <1>2 DEF IsLeaf

\* nor is that of a lone one, which is not that of two either.
LEMMA LoneShape ==
  ASSUME NEW u, NEW a, NEW b
  PROVE  ~IsLeaf(<<u>>) /\ <<u>> # <<a, b>>
<1>1. Len(<<u>>) = 1 /\ Len(<<a, b>>) = 2
  OBVIOUS
<1>2. \A c, d : Len(<<c, d, "leaf">>) = 3
  OBVIOUS
<1> QED
  BY <1>1, <1>2 DEF IsLeaf

\* The nodes of the tree over s.
Node(s, t) == \E k \in 0 .. Len(s) : \E j \in 1 .. Len(Layers(Leaves(s))[k]) : t = Layers(Leaves(s))[k][j]

\* A node is a leaf, or the hash of one or two nodes.
LEMMA NodeCases ==
  ASSUME NEW s \in Seq(Entry), s # <<>>, NEW t, Node(s, t)
  PROVE  \/ \E j \in DOMAIN s : t = Leaf(s[j])
         \/ \E u : Node(s, u) /\ t = <<u>>
         \/ \E u, v : Node(s, u) /\ Node(s, v) /\ t = <<u, v>>
<1> DEFINE L == Layers(Leaves(s))
           N == Len(s)
           At == {k \in 0 .. N : \E j \in 1 .. Len(L[k]) : t = L[k][j]}
<1>0. /\ N \in Nat /\ DOMAIN s = 1 .. N
      /\ L[0] = Leaves(s) /\ Len(Leaves(s)) = N
      /\ \A i \in 1 .. N : Leaves(s)[i] = Leaf(s[i])
      /\ \A k \in 1 .. N : L[k] = Above(L[k - 1])
      /\ \A k \in 0 .. N : IsLayer(L[k])
  <2>1. IsLayer(Leaves(s)) /\ Len(Leaves(s)) = N /\ \A i \in 1 .. N : Leaves(s)[i] = Leaf(s[i])
    BY LeavesListed
  <2>2. N \in Nat /\ DOMAIN s = 1 .. N
    BY LenProperties
  <2>3. L[0] = Leaves(s) /\ \A k \in 1 .. Len(Leaves(s)) : L[k] = Above(L[k - 1])
    BY <2>1, LayersRise DEF IsLayer
  <2>4. \A k \in 0 .. Len(Leaves(s)) : IsLayer(L[k])
    BY <2>1, LayersListed
  <2> QED
    BY <2>1, <2>2, <2>3, <2>4
<1>1. PICK m \in At : \A n \in At : m <= n
  <2>1. At \subseteq Nat
    BY <1>0
  <2>2. At # {}
    BY DEF Node
  <2> HIDE DEF At
  <2> QED
    BY <2>1, <2>2, Least
<1>2. m \in 0 .. N
  OBVIOUS
<1>3. PICK j \in 1 .. Len(L[m]) : t = L[m][j]
  OBVIOUS
<1>4. \A k \in 0 .. N : \A i \in 1 .. Len(L[k]) : Node(s, L[k][i])
  BY DEF Node
<1> HIDE DEF L, N
<1>5. CASE m = 0
  <2>1. j \in 1 .. N /\ t = Leaves(s)[j]
    BY <1>0, <1>3, <1>5
  <2> QED
    BY <1>0, <2>1
<1>6. CASE m # 0
  <2>1. m - 1 \in 0 .. N /\ m \in 1 .. N /\ ~(m <= m - 1)
    BY <1>0, <1>2, <1>6
  <2>2. m - 1 \notin At
    <3> HIDE DEF At
    <3> QED
      BY <1>1, <2>1
  <2> DEFINE v == L[m - 1]
  <2>3. IsLayer(v) /\ L[m] = Above(v)
    BY <1>0, <2>1
  <2>4. Len(v) \in Nat /\ Len(v) > 1
    <3>1. Len(v) \in Nat
      BY <2>3 DEF IsLayer
    <3>2. ASSUME Len(v) <= 1 PROVE FALSE
      <4>1. L[m] = v
        BY <2>3, <3>2, AboveListed
      <4>2. m - 1 \in At
        BY <1>3, <2>1, <4>1
      <4> QED
        BY <2>2, <4>2
    <3> HIDE DEF v
    <3> QED
      BY <3>1, <3>2
  <2>5. L[m] = Parents(v) /\ Len(L[m]) = Halves(Len(v))
    BY <2>3, <2>4, AboveListed, ParentsListed
  <2>6. t = IF 2 * j <= Len(v) THEN <<v[2 * j - 1], v[2 * j]>> ELSE <<v[2 * j - 1]>>
    BY <1>3, <2>3, <2>5, ParentsListed
  <2>7. 2 * j - 1 \in 1 .. Len(v) /\ (2 * j <= Len(v) => 2 * j \in 1 .. Len(v))
    <3>1. j \in 1 .. Halves(Len(v))
      BY <1>3, <2>5
    <3> HIDE DEF v
    <3> QED
      BY <2>4, <3>1 DEF Halves
  <2>8. \A i \in 1 .. Len(v) : Node(s, v[i])
    BY <1>4, <2>1
  <2> HIDE DEF v
  <2>9. CASE 2 * j <= Len(v)
    <3>1. t = <<v[2 * j - 1], v[2 * j]>> /\ Node(s, v[2 * j - 1]) /\ Node(s, v[2 * j])
      BY <2>6, <2>7, <2>8, <2>9
    <3> QED
      BY <3>1
  <2>10. CASE ~(2 * j <= Len(v))
    <3>1. t = <<v[2 * j - 1]>> /\ Node(s, v[2 * j - 1])
      BY <2>6, <2>7, <2>8, <2>10
    <3> QED
      BY <3>1
  <2> QED
    BY <2>9, <2>10
<1> QED
  BY <1>5, <1>6

\* The root is a node.
LEMMA RootIsNode ==
  ASSUME NEW s \in Seq(Entry), s # <<>>
  PROVE  Node(s, Root(s))
<1>1. IsLayer(Leaves(s)) /\ Len(Leaves(s)) = Len(s) /\ Len(s) \in Nat
  BY LeavesListed, LenProperties
<1>2. Len(s) \in 0 .. Len(s)
  BY <1>1
<1>3. IsLayer(Layers(Leaves(s))[Len(s)])
  BY <1>1, <1>2, LayersListed
<1>4. 1 \in 1 .. Len(Layers(Leaves(s))[Len(s)])
  BY <1>3 DEF IsLayer
<1>5. Root(s) = Layers(Leaves(s))[Len(s)][1]
  BY DEF Root
<1> QED
  BY <1>2, <1>4, <1>5 DEF Node

\* What getProof gives: at every level nothing, or a leaf.
LeafProof(proof) == Len(proof) \in Nat /\ \A k \in 1 .. Len(proof) : \A p \in proof[k] : IsLeaf(p)

\* getProof goes on for as many levels as there are events at most.
LEMMA ProofLeaves ==
  ASSUME NEW s \in Seq(Entry), NEW index
  PROVE  LeafProof(Proof(s, index)) /\ Len(Proof(s, index)) = Len(s)
<1>1. Len(s) \in Nat
  BY LenProperties
<1>2. Proof(s, index) = [k \in 1 .. Len(s) |-> Proof(s, index)[k]]
  BY DEF Proof
<1>3. Len(Proof(s, index)) = Len(s)
  BY <1>1, <1>2, Listed
<1>4. \A k \in 1 .. Len(s) : Proof(s, index)[k] = {} \/ \E y : Proof(s, index)[k] = {Leaf(y)}
  BY DEF Proof
<1> QED
  BY <1>1, <1>3, <1>4, LeafShape DEF LeafProof

\* What a proof pairs with the hash so far.
LEMMA PairedCases ==
  ASSUME NEW H, NEW P, NEW t \in Paired(H, P)
  PROVE  t \in H \/ \E h \in H, p \in P : t = <<h, p>> \/ t = <<p, h>>
BY DEF Paired

\* What a proof of leaves leads to: a leaf, or a pair with a leaf in it.
LEMMA ComputedShape ==
  ASSUME NEW x, NEW proof, LeafProof(proof), NEW t \in Computed(x, proof)
  PROVE  IsLeaf(t) \/ \E u, v : t = <<u, v>> /\ (IsLeaf(u) \/ IsLeaf(v))
<1> DEFINE n == Len(proof)
           Shaped(z) == IsLeaf(z) \/ \E u, v : z = <<u, v>> /\ (IsLeaf(u) \/ IsLeaf(v))
<1>0. n \in Nat
  BY DEF LeafProof
<1> DEFINE hash == Hashes(x, proof)
<1>1. /\ Computed(x, proof) = hash[n]
      /\ hash[0] = {Leaf(x)}
      /\ \A k \in 1 .. n : hash[k] = Paired(hash[k - 1], proof[k])
  BY <1>0, HashesRise
<1> HIDE DEF hash
<1> DEFINE T == {k \in 0 .. n : \E z \in hash[k] : ~Shaped(z)}
<1>2. T = {}
  <2> SUFFICES ASSUME T # {} PROVE FALSE
    OBVIOUS
  <2>1. PICK m \in T : \A k \in T : m <= k
    <3>1. T \subseteq Nat
      BY <1>0
    <3> HIDE DEF T
    <3> QED
      BY <3>1, Least
  <2>2. m \in 0 .. n
    OBVIOUS
  <2>3. PICK z \in hash[m] : ~Shaped(z)
    OBVIOUS
  <2> HIDE DEF n
  <2>4. m # 0
    <3>1. hash[0] = {Leaf(x)} /\ Shaped(Leaf(x))
      BY <1>1, LeafShape
    <3> HIDE DEF Shaped
    <3> QED
      BY <2>3, <3>1
  <2>5. m \in 1 .. n /\ m - 1 \in 0 .. n /\ ~(m <= m - 1)
    BY <1>0, <2>2, <2>4
  <2>6. m - 1 \notin T
    <3> HIDE DEF T
    <3> QED
      BY <2>1, <2>5
  <2>7. \A h \in hash[m - 1] : Shaped(h)
    BY <2>5, <2>6
  <2>8. z \in Paired(hash[m - 1], proof[m])
    BY <1>1, <2>3, <2>5
  <2>9. PICK h \in hash[m - 1], p \in proof[m] : z = <<h, p>> \/ z = <<p, h>>
    <3> HIDE DEF Shaped
    <3> QED
      BY <2>3, <2>7, <2>8, PairedCases
  <2>10. IsLeaf(p)
    BY <2>5, <2>9 DEF LeafProof, n
  <2>11. Shaped(z)
    BY <2>9, <2>10
  <2> QED
    BY <2>3, <2>11
<1>3. n \in 0 .. n
  BY <1>0
<1> QED
  BY <1>1, <1>2, <1>3

\* The root of the empty log is nobody's.
LEMMA NoHashOfNothing ==
  ASSUME NEW x, NEW proof, LeafProof(proof)
  PROVE  <<>> \notin Computed(x, proof)
<1>1. ~IsLeaf(<<>>)
  <2>1. Len(<<>>) = 0 /\ \A c, d : Len(<<c, d, "leaf">>) = 3
    OBVIOUS
  <2> QED
    BY <2>1 DEF IsLeaf
<1>2. \A u, v : <<>> # <<u, v>>
  OBVIOUS
<1> QED
  BY <1>1, <1>2, ComputedShape

\* An event that leads to the root, with leaves for a proof, is in the log.
LEMMA OnlyLogged ==
  ASSUME NEW s \in Seq(Entry), NEW x \in Entry, NEW proof, LeafProof(proof),
         Root(s) \in Computed(x, proof)
  PROVE  x \in {s[k] : k \in DOMAIN s}
<1> DEFINE n == Len(proof)
<1>0. n \in Nat
  BY DEF LeafProof
<1> DEFINE hash == Hashes(x, proof)
<1>1. /\ Computed(x, proof) = hash[n]
      /\ hash[0] = {Leaf(x)}
      /\ \A k \in 1 .. n : hash[k] = Paired(hash[k - 1], proof[k])
  BY <1>0, HashesRise
<1> HIDE DEF hash
<1>2. CASE s = <<>>
  BY <1>2, NoHashOfNothing DEF Root
<1>3. CASE s # <<>>
  <2> DEFINE T == {k \in 0 .. n : \E t \in hash[k] : Node(s, t)}
  <2>1. n \in T
    BY <1>0, <1>1, <1>3, RootIsNode
  <2>2. PICK m \in T : \A k \in T : m <= k
    <3>1. T \subseteq Nat
      BY <1>0
    <3> HIDE DEF T
    <3> QED
      BY <2>1, <3>1, Least
  <2>3. m \in 0 .. n
    OBVIOUS
  <2>4. PICK t \in hash[m] : Node(s, t)
    OBVIOUS
  <2> HIDE DEF n
  <2>5. CASE m = 0
    <3>1. t = Leaf(x) /\ IsLeaf(t)
      BY <1>1, <2>4, <2>5, LeafShape
    <3>2. PICK j \in DOMAIN s : t = Leaf(s[j])
      BY <1>3, <2>4, <3>1, NodeCases, LoneShape, PairShape
    <3>3. s[j] \in Entry
      BY ElementOfSeq, LenProperties
    <3>4. x = <<x[1], x[2]>> /\ s[j] = <<s[j][1], s[j][2]>>
      BY <3>3 DEF Entry
    <3>5. x[1] = s[j][1] /\ x[2] = s[j][2]
      BY <3>1, <3>2 DEF Leaf
    <3>6. x = s[j]
      BY <3>4, <3>5
    <3> QED
      BY <3>6
  <2>6. CASE m # 0
    <3>1. m \in 1 .. n /\ m - 1 \in 0 .. n /\ ~(m <= m - 1)
      BY <1>0, <2>3, <2>6
    <3>2. m - 1 \notin T
      <4> HIDE DEF T
      <4> QED
        BY <2>2, <3>1
    <3>3. \A h \in hash[m - 1] : ~Node(s, h)
      BY <3>1, <3>2
    <3>4. t \in Paired(hash[m - 1], proof[m])
      BY <1>1, <2>4, <3>1
    <3>5. PICK h \in hash[m - 1], p \in proof[m] : t = <<h, p>> \/ t = <<p, h>>
      BY <2>4, <3>3, <3>4, PairedCases
    <3>6. ~IsLeaf(t) /\ \A u : t # <<u>>
      BY <3>5, PairShape, LoneShape
    <3>7. PICK u, v : Node(s, u) /\ Node(s, v) /\ t = <<u, v>>
      BY <1>3, <2>4, <3>6, NodeCases, LeafShape
    <3>8. h = u \/ h = v
      BY <3>5, <3>7
    <3> QED
      BY <3>3, <3>7, <3>8
  <2> QED
    BY <2>5, <2>6
<1> QED
  BY <1>2, <1>3

\* The layers grow up to one of a single node, the root.
Tower(s, L, m) ==
    /\ L[0] = Leaves(s) /\ Len(L[m]) = 1 /\ Root(s) = L[m][1]
    /\ \A k \in 0 .. m : IsLayer(L[k])
    /\ \A k \in 1 .. m : L[k] = Parents(L[k - 1]) /\ Len(L[k - 1]) > 1

\* Every log has a tower of layers over it.
LEMMA Heights ==
  ASSUME NEW s \in Seq(Entry), s # <<>>
  PROVE  \E m \in Nat : Tower(s, Layers(Leaves(s)), m)
<1> DEFINE L == Layers(Leaves(s))
           N == Len(s)
           T == {k \in 0 .. N : Len(L[k]) = 1}
<1>0. /\ N \in Nat /\ N >= 1
      /\ L[0] = Leaves(s) /\ Len(Leaves(s)) = N
      /\ \A k \in 1 .. N : L[k] = Above(L[k - 1])
      /\ \A k \in 0 .. N : IsLayer(L[k]) /\ (Len(L[k]) = 1 \/ Len(L[k]) + k <= N)
  <2>0. N \in Nat /\ N >= 1
    BY EmptySeq, LenProperties
  <2>1. IsLayer(Leaves(s)) /\ Len(Leaves(s)) = N
    BY <2>0, LeavesListed
  <2>2. L[0] = Leaves(s) /\ \A k \in 1 .. Len(Leaves(s)) : L[k] = Above(L[k - 1])
    BY <2>1, LayersRise DEF IsLayer
  <2>3. \A k \in 0 .. Len(Leaves(s)) :
           IsLayer(L[k]) /\ (Len(L[k]) = 1 \/ Len(L[k]) + k <= Len(Leaves(s)))
    BY <2>1, LayersListed
  <2> QED
    BY <2>0, <2>1, <2>2, <2>3
<1>1. N \in T
  <2> HIDE DEF L, N
  <2>1. N \in 0 .. N
    BY <1>0
  <2>2. Len(L[N]) \in Nat /\ Len(L[N]) >= 1
    BY <1>0, <2>1 DEF IsLayer
  <2>3. Len(L[N]) = 1 \/ Len(L[N]) + N <= N
    BY <1>0, <2>1
  <2> DEFINE a == Len(L[N])
  <2>4. a = 1
    <3>1. a \in Nat /\ a >= 1 /\ (a = 1 \/ a + N <= N)
      BY <2>2, <2>3
    <3> HIDE DEF a
    <3> QED
      BY <1>0, <3>1
  <2> QED
    BY <2>1, <2>4
<1>2. PICK m \in T : \A k \in T : m <= k
  <2>1. T \subseteq Nat
    BY <1>0
  <2> HIDE DEF T
  <2> QED
    BY <1>1, <2>1, Least
<1>3. m \in 0 .. N /\ m \in Nat /\ Len(L[m]) = 1
  BY <1>0
<1> HIDE DEF L, N
<1>4. ASSUME NEW k \in 0 .. N, k < m PROVE Len(L[k]) > 1
  <2>1. Len(L[k]) # 1
    <3>1. k \notin T
      <4>1. ~(m <= k)
        BY <1>0, <1>3, <1>4
      <4> HIDE DEF T
      <4> QED
        BY <1>2, <4>1
    <3> QED
      BY <3>1
  <2> DEFINE a == Len(L[k])
  <2>2. a \in Nat /\ a >= 1 /\ a # 1
    BY <1>0, <2>1 DEF IsLayer
  <2>3. a > 1
    <3> HIDE DEF a
    <3> QED
      BY <2>2
  <2> QED
    BY <2>3
<1>5. \A k \in 0 .. m : k \in 0 .. N /\ IsLayer(L[k])
  BY <1>0, <1>3
<1>6. ASSUME NEW k \in 1 .. m PROVE L[k] = Parents(L[k - 1]) /\ Len(L[k - 1]) > 1
  <2>1. k \in 1 .. N /\ k - 1 \in 0 .. N /\ k - 1 < m
    BY <1>0, <1>3
  <2>2. L[k] = Above(L[k - 1]) /\ IsLayer(L[k - 1]) /\ Len(L[k - 1]) > 1
    BY <1>0, <1>4, <2>1
  <2> QED
    BY <2>2, AboveListed
<1>7. L[N] = L[m]
  <2> DEFINE U == {k \in 0 .. N : m <= k /\ L[k] # L[m]}
  <2>1. U = {}
    <3> SUFFICES ASSUME U # {} PROVE FALSE
      OBVIOUS
    <3>1. PICK k \in U : \A i \in U : k <= i
      <4>1. U \subseteq Nat
        BY <1>0
      <4> HIDE DEF U
      <4> QED
        BY <4>1, Least
    <3>2. k \in 1 .. N /\ k - 1 \in 0 .. N /\ m <= k - 1 /\ ~(k <= k - 1)
      BY <1>0, <1>3
    <3>3. k - 1 \notin U
      <4> HIDE DEF U
      <4> QED
        BY <3>1, <3>2
    <3>4. L[k - 1] = L[m] /\ L[k] = Above(L[k - 1])
      BY <1>0, <3>2, <3>3
    <3>5. Above(L[m]) = L[m]
      BY <1>3 DEF Above
    <3> QED
      BY <3>4, <3>5
  <2> QED
    BY <1>0, <1>3, <2>1
<1>8. Root(s) = L[m][1]
  BY <1>7 DEF Root, L, N
<1>9. /\ L[0] = Leaves(s) /\ Len(L[m]) = 1 /\ Root(s) = L[m][1]
      /\ \A k \in 0 .. m : IsLayer(L[k])
      /\ \A k \in 1 .. m : L[k] = Parents(L[k - 1]) /\ Len(L[k - 1]) > 1
  BY <1>0, <1>3, <1>5, <1>6, <1>8
<1> QED
  BY <1>3, <1>9 DEF L, Tower

\* What hashes have been made of are hashes no longer to be taken for leaves.
LEMMA ParentsShape ==
  ASSUME NEW v, IsLayer(v)
  PROVE  \A i \in 1 .. Len(Parents(v)) : ~IsLeaf(Parents(v)[i])
<1> TAKE i \in 1 .. Len(Parents(v))
<1> DEFINE t == Parents(v)[i]
<1>1. t = <<v[2 * i - 1], v[2 * i]>> \/ t = <<v[2 * i - 1]>>
  BY ParentsListed
<1> HIDE DEF t
<1>2. CASE t = <<v[2 * i - 1], v[2 * i]>>
  BY <1>2, PairShape DEF t
<1>3. CASE t = <<v[2 * i - 1]>>
  BY <1>3, LoneShape DEF t
<1> QED
  BY <1>1, <1>2, <1>3 DEF t

\* The root of more than two events is the hash of two nodes above the leaves.
LEMMA RootShape ==
  ASSUME NEW s \in Seq(Entry), Len(s) > 2
  PROVE  \E u, v : Root(s) = <<u, v>> /\ ~IsLeaf(u) /\ ~IsLeaf(v)
<1> DEFINE L == Layers(Leaves(s))
           N == Len(s)
<1>0. s # <<>> /\ N \in Nat /\ N > 2 /\ Len(Leaves(s)) = N
  BY LenProperties, LeavesListed
<1>1. PICK m \in Nat : /\ L[0] = Leaves(s) /\ Len(L[m]) = 1 /\ Root(s) = L[m][1]
                      /\ \A k \in 0 .. m : IsLayer(L[k])
                      /\ \A i \in 1 .. m : L[i] = Parents(L[i - 1]) /\ Len(L[i - 1]) > 1
  BY <1>0, Heights DEF Tower
<1> HIDE DEF L, N
<1>2. m # 0
  <2> SUFFICES ASSUME m = 0 PROVE FALSE
    OBVIOUS
  <2>1. N = 1
    BY <1>0, <1>1
  <2> QED
    BY <1>0, <2>1
<1> DEFINE v == L[m - 1]
           w == L[m - 2]
<1>3. m - 1 \in 0 .. m /\ m \in 1 .. m
  BY <1>2
<1>4. IsLayer(v) /\ L[m] = Parents(v) /\ Len(v) > 1
  BY <1>1, <1>3
<1>5. Len(v) = 2
  <2> DEFINE b == Len(v)
  <2>1. b \in Nat /\ b > 1 /\ Halves(b) = 1
    BY <1>1, <1>4, ParentsListed DEF IsLayer
  <2> HIDE DEF v, b
  <2>2. b = 2
    BY <2>1 DEF Halves
  <2> QED
    BY <2>2 DEF b
<1>6. m # 1
  <2> SUFFICES ASSUME m = 1 PROVE FALSE
    OBVIOUS
  <2>1. m - 1 = 0
    OBVIOUS
  <2>2. Len(v) = N
    BY <1>0, <1>1, <2>1
  <2>3. N = 2
    BY <1>5, <2>2
  <2> QED
    BY <1>0, <2>3
<1>7. m - 2 \in 0 .. m /\ m - 1 \in 1 .. m /\ (m - 1) - 1 = m - 2
  BY <1>2, <1>6
<1>8. IsLayer(w) /\ v = Parents(w)
  <2>1. L[m - 1] = Parents(L[(m - 1) - 1])
    BY <1>1, <1>7
  <2> QED
    BY <1>1, <1>7, <2>1
<1> HIDE DEF v, w
<1>9. ~IsLeaf(v[1]) /\ ~IsLeaf(v[2])
  <2>1. \A i \in 1 .. Len(v) : ~IsLeaf(v[i])
    BY <1>8, ParentsShape
  <2>2. 1 \in 1 .. Len(v) /\ 2 \in 1 .. Len(v)
    BY <1>5
  <2> QED
    BY <2>1, <2>2
<1>10. L[m][1] = <<v[1], v[2]>>
  <2>1. 1 \in 1 .. Len(Parents(v)) /\ 2 * 1 <= Len(v) /\ 2 * 1 - 1 = 1 /\ 2 * 1 = 2
    <3>1. Len(Parents(v)) = 1
      BY <1>1, <1>4
    <3> QED
      BY <1>5, <3>1
  <2>2. Parents(v)[1] = <<v[2 * 1 - 1], v[2 * 1]>>
    BY <1>4, <2>1, ParentsListed
  <2> QED
    BY <1>4, <2>1, <2>2
<1> QED
  BY <1>1, <1>9, <1>10

\* The places and the level sizes of getProof, as Proof chooses them.
Places(s, index) == CHOOSE g : g = [k \in 0 .. Len(s) |-> IF k = 0 THEN index ELSE g[k - 1] \div 2]
Sizes(s) == CHOOSE g : g = [k \in 0 .. Len(s) |-> IF k = 0 THEN Len(s) ELSE Halves(g[k - 1])]

\* The proof of a lone event is empty, and leads to the root.
LEMMA LoneProof ==
  ASSUME NEW s \in Seq(Entry), Len(s) = 1
  PROVE  Root(s) \in Computed(s[1], Proof(s, 0))
<1>1. s # <<>>
  OBVIOUS
<1>2. IsLayer(Leaves(s)) /\ Len(Leaves(s)) = 1 /\ Leaves(s)[1] = Leaf(s[1])
  BY <1>1, LeavesListed
<1>3. Root(s) = Leaf(s[1])
  <2>1. Layers(Leaves(s))[0] = Leaves(s) /\ Layers(Leaves(s))[1] = Above(Layers(Leaves(s))[1 - 1])
    BY <1>2, LayersRise DEF IsLayer
  <2>2. Layers(Leaves(s))[1] = Above(Leaves(s))
    <3>1. 1 - 1 = 0
      OBVIOUS
    <3> QED
      BY <2>1, <3>1
  <2>3. Above(Leaves(s)) = Leaves(s)
    BY <1>2 DEF Above
  <2> QED
    BY <1>1, <1>2, <2>2, <2>3 DEF Root
<1>4. Sizes(s)[0] = 1
  <2> DEFINE Halved(g) == g = [k \in 0 .. Len(s) |-> IF k = 0 THEN Len(s) ELSE Halves(g[k - 1])]
             one == [k \in 0 .. Len(s) |-> 1]
  <2>1. Halved(one)
    <3>1. Halves(1) = 1
      BY DEF Halves
    <3>2. \A k \in 0 .. Len(s) : one[k] = IF k = 0 THEN Len(s) ELSE Halves(one[k - 1])
      BY <3>1
    <3> QED
      BY <3>2
  <2>2. Sizes(s) = CHOOSE g : Halved(g)
    BY DEF Sizes
  <2>3. Halved(Sizes(s))
    <3> HIDE DEF Halved, one
    <3> QED
      BY <2>1, <2>2
  <2> QED
    BY <2>3
<1>5. Proof(s, 0)[1] = {}
  <2>1. 1 \in 1 .. Len(s) /\ 1 - 1 = 0 /\ ~(1 > 1)
    OBVIOUS
  <2> DEFINE at == Places(s, 0)
             size == Sizes(s)
  <2>2. Proof(s, 0) = [k \in 1 .. Len(s) |->
                         IF size[k - 1] > 1 /\ Sibling(at[k - 1]) < size[k - 1]
                         THEN {Leaf(s[Sibling(at[k - 1]) + 1])} ELSE {}]
    BY DEF Proof, Places, Sizes
  <2>3. ~(size[1 - 1] > 1)
    BY <1>4, <2>1
  <2> HIDE DEF at, size
  <2> QED
    BY <2>1, <2>2, <2>3
<1>6. Len(Proof(s, 0)) = 1
  BY ProofLeaves
<1>7. Computed(s[1], Proof(s, 0)) = {Leaf(s[1])}
  <2> DEFINE p == Proof(s, 0)
             H == Hashes(s[1], p)
  <2>1. Len(p) \in Nat
    BY <1>6
  <2>2. /\ Computed(s[1], p) = H[Len(p)] /\ H[0] = {Leaf(s[1])}
        /\ \A k \in 1 .. Len(p) : H[k] = Paired(H[k - 1], p[k])
    <3> HIDE DEF p
    <3> QED
      BY <2>1, HashesRise
  <2>3. H[1] = Paired(H[1 - 1], p[1])
    BY <1>6, <2>2
  <2>4. H[1] = Paired(H[0], {})
    <3>1. 1 - 1 = 0
      OBVIOUS
    <3> QED
      BY <1>5, <2>3, <3>1
  <2> QED
    BY <1>6, <2>2, <2>4 DEF Paired
<1> QED
  BY <1>3, <1>7

\* Beyond two events, no proof of leaves leads to the root.
LEMMA NoLongProof ==
  ASSUME NEW s \in Seq(Entry), Len(s) > 2, NEW x, NEW proof, LeafProof(proof)
  PROVE  Root(s) \notin Computed(x, proof)
<1> SUFFICES ASSUME Root(s) \in Computed(x, proof) PROVE FALSE
  OBVIOUS
<1>1. PICK u, v : Root(s) = <<u, v>> /\ ~IsLeaf(u) /\ ~IsLeaf(v)
  BY RootShape
<1>2. ~IsLeaf(Root(s))
  BY <1>1, PairShape
<1>3. PICK a, b : Root(s) = <<a, b>> /\ (IsLeaf(a) \/ IsLeaf(b))
  BY <1>2, ComputedShape
<1>4. a = u /\ b = v
  BY <1>1, <1>3
<1> QED
  BY <1>1, <1>3, <1>4

\* The same nodes in the same order.
Same(v, w) == Len(v) = Len(w) /\ \A i \in 1 .. Len(v) : v[i] = w[i]

\* Different layers have different parents.
LEMMA ParentsTell ==
  ASSUME NEW v, NEW w, IsLayer(v), IsLayer(w), Same(Parents(v), Parents(w))
  PROVE  Same(v, w)
<1> DEFINE p == Parents(v)
           q == Parents(w)
           a == Len(v)
           b == Len(w)
           h == Halves(a)
<1>1. /\ a \in Nat /\ a >= 1 /\ b \in Nat /\ b >= 1 /\ h = Halves(b)
      /\ \A i \in 1 .. h : p[i] = IF 2 * i <= a THEN <<v[2 * i - 1], v[2 * i]>> ELSE <<v[2 * i - 1]>>
      /\ \A i \in 1 .. h : p[i] = IF 2 * i <= b THEN <<w[2 * i - 1], w[2 * i]>> ELSE <<w[2 * i - 1]>>
  <2>1. Len(p) = h /\ Len(q) = Halves(b) /\ Len(p) = Len(q) /\ \A i \in 1 .. Len(p) : p[i] = q[i]
    BY ParentsListed DEF Same
  <2>2. \A i \in 1 .. Len(p) : p[i] = IF 2 * i <= a THEN <<v[2 * i - 1], v[2 * i]>> ELSE <<v[2 * i - 1]>>
    BY ParentsListed
  <2>3. \A i \in 1 .. Len(q) : q[i] = IF 2 * i <= b THEN <<w[2 * i - 1], w[2 * i]>> ELSE <<w[2 * i - 1]>>
    BY ParentsListed
  <2> HIDE DEF p, q, h
  <2> QED
    BY <2>1, <2>2, <2>3 DEF IsLayer
<1> HIDE DEF p, q
<1>2. a = b
  <2> HIDE DEF a, b, h
  <2>1. ASSUME NEW c \in Nat, NEW d \in Nat, c >= 1, d >= 1, Halves(c) = Halves(d), c < d
        PROVE  d = c + 1 /\ 2 * Halves(c) = d
    BY <2>1 DEF Halves
  <2>2. ASSUME a < b PROVE FALSE
    <3>1. b = a + 1 /\ 2 * h = b
      BY <1>1, <2>1, <2>2 DEF h
    <3>2. h \in 1 .. h /\ 2 * h <= b /\ ~(2 * h <= a)
      BY <1>1, <3>1, HalvesType DEF h
    <3>3. p[h] = <<w[2 * h - 1], w[2 * h]>> /\ p[h] = <<v[2 * h - 1]>>
      BY <1>1, <3>2
    <3> QED
      BY <3>3, LoneShape
  <2>3. ASSUME b < a PROVE FALSE
    <3>1. a = b + 1 /\ 2 * h = a
      BY <1>1, <2>1, <2>3 DEF h
    <3>2. h \in 1 .. h /\ 2 * h <= a /\ ~(2 * h <= b)
      BY <1>1, <3>1, HalvesType DEF h
    <3>3. p[h] = <<v[2 * h - 1], v[2 * h]>> /\ p[h] = <<w[2 * h - 1]>>
      BY <1>1, <3>2
    <3> QED
      BY <3>3, LoneShape
  <2> QED
    BY <1>1, <2>2, <2>3
<1>3. ASSUME NEW i \in 1 .. a PROVE v[i] = w[i]
  <2> HIDE DEF a, b, h
  <2>1. PICK j \in 1 .. h : i = 2 * j - 1 \/ i = 2 * j
    <3>1. Halves(i) \in 1 .. h /\ (i = 2 * Halves(i) - 1 \/ i = 2 * Halves(i))
      BY <1>1 DEF Halves, h
    <3> QED
      BY <3>1
  <2>2. CASE 2 * j <= a
    <3>1. p[j] = <<v[2 * j - 1], v[2 * j]>> /\ p[j] = <<w[2 * j - 1], w[2 * j]>>
      BY <1>1, <1>2, <2>2
    <3> QED
      BY <2>1, <3>1
  <2>3. CASE ~(2 * j <= a)
    <3>1. p[j] = <<v[2 * j - 1]>> /\ p[j] = <<w[2 * j - 1]>>
      BY <1>1, <1>2, <2>3
    <3>2. i # 2 * j
      BY <1>1, <2>1, <2>3
    <3> QED
      BY <2>1, <3>1, <3>2
  <2> QED
    BY <1>1, <2>1, <2>2, <2>3
<1>4. Len(v) = Len(w) /\ \A i \in 1 .. Len(v) : v[i] = w[i]
  BY <1>2, <1>3
<1> QED
  BY <1>4 DEF Same

\* No two logs have the same root.
LEMMA RootTells ==
  ASSUME NEW s \in Seq(Entry), NEW t \in Seq(Entry), s # <<>>, t # <<>>, Root(s) = Root(t),
         NEW m \in Nat, NEW n \in Nat, m <= n, NEW L, NEW M, Tower(s, L, m), Tower(t, M, n)
  PROVE  s = t
<1>0. /\ L[0] = Leaves(s) /\ Len(L[m]) = 1 /\ Root(s) = L[m][1]
      /\ \A k \in 0 .. m : IsLayer(L[k])
      /\ \A k \in 1 .. m : L[k] = Parents(L[k - 1]) /\ Len(L[k - 1]) > 1
      /\ M[0] = Leaves(t) /\ Len(M[n]) = 1 /\ Root(t) = M[n][1]
      /\ \A k \in 0 .. n : IsLayer(M[k])
      /\ \A k \in 1 .. n : M[k] = Parents(M[k - 1]) /\ Len(M[k - 1]) > 1
  BY DEF Tower
<1> DEFINE Bad == {j \in 0 .. m : ~Same(L[m - j], M[n - j])}
<1>1. Bad = {}
  <2> SUFFICES ASSUME Bad # {} PROVE FALSE
    OBVIOUS
  <2>1. PICK j \in Bad : \A i \in Bad : j <= i
    <3>1. Bad \subseteq Nat
      OBVIOUS
    <3> HIDE DEF Bad
    <3> QED
      BY <3>1, Least
  <2>2. j # 0
    <3>1. \A i \in 1 .. 1 : i = 1
      OBVIOUS
    <3>2. m - 0 = m /\ n - 0 = n
      OBVIOUS
    <3>3. Same(L[m], M[n])
      BY <1>0, <3>1 DEF Same
    <3> QED
      BY <2>1, <3>2, <3>3
  <2>3. j - 1 \in 0 .. m /\ ~(j <= j - 1)
    BY <2>1, <2>2
  <2>4. j - 1 \notin Bad
    <3> HIDE DEF Bad
    <3> QED
      BY <2>1, <2>3
  <2> DEFINE a == m - (j - 1)
             b == n - (j - 1)
  <2>5. Same(L[a], M[b])
    BY <2>3, <2>4
  <2>6. /\ a \in 1 .. m /\ b \in 1 .. n /\ a - 1 = m - j /\ b - 1 = n - j
        /\ a - 1 \in 0 .. m /\ b - 1 \in 0 .. n
    BY <2>1, <2>2
  <2> HIDE DEF a, b
  <2>7. /\ L[a] = Parents(L[a - 1]) /\ M[b] = Parents(M[b - 1])
        /\ IsLayer(L[a - 1]) /\ IsLayer(M[b - 1])
    BY <1>0, <2>6
  <2>8. Same(L[a - 1], M[b - 1])
    BY <2>5, <2>7, ParentsTell
  <2> QED
    BY <2>1, <2>6, <2>8
<1>2. Same(Leaves(s), M[n - m])
  <2>1. m \in 0 .. m /\ m - m = 0
    OBVIOUS
  <2>2. Same(L[m - m], M[n - m])
    BY <1>1, <2>1
  <2> QED
    BY <1>0, <2>1, <2>2
<1>3. IsLayer(Leaves(s)) /\ Len(Leaves(s)) = Len(s) /\ \A i \in 1 .. Len(s) : Leaves(s)[i] = Leaf(s[i])
  BY LeavesListed
<1>4. IsLayer(Leaves(t)) /\ Len(Leaves(t)) = Len(t) /\ \A i \in 1 .. Len(t) : Leaves(t)[i] = Leaf(t[i])
  BY LeavesListed
<1>5. n = m
  <2> SUFFICES ASSUME n # m PROVE FALSE
    OBVIOUS
  <2>1. n - m \in 1 .. n /\ (n - m) - 1 \in 0 .. n
    OBVIOUS
  <2>2. M[n - m] = Parents(M[(n - m) - 1]) /\ IsLayer(M[(n - m) - 1])
    BY <1>0, <2>1
  <2>3. 1 \in 1 .. Len(Leaves(s))
    BY <1>3 DEF IsLayer
  <2>4. Leaves(s)[1] = M[n - m][1] /\ 1 \in 1 .. Len(M[n - m])
    BY <1>2, <2>3 DEF Same
  <2>5. ~IsLeaf(M[n - m][1])
    BY <2>2, <2>4, ParentsShape
  <2>6. IsLeaf(Leaves(s)[1])
    BY <1>3, <2>3, LeafShape
  <2> QED
    BY <2>4, <2>5, <2>6
<1>6. Same(Leaves(s), Leaves(t))
  <2>1. n - m = 0
    BY <1>5
  <2> QED
    BY <1>0, <1>2, <2>1
<1>7. Len(s) = Len(t) /\ \A i \in 1 .. Len(s) : Leaf(s[i]) = Leaf(t[i])
  BY <1>3, <1>4, <1>6 DEF Same
<1>8. s \in [1 .. Len(s) -> Entry] /\ t \in [1 .. Len(t) -> Entry]
  BY LenProperties
<1>9. ASSUME NEW i \in 1 .. Len(s) PROVE s[i] = t[i]
  <2>1. s[i] \in Entry /\ t[i] \in Entry
    BY <1>7, <1>8
  <2>2. s[i] = <<s[i][1], s[i][2]>> /\ t[i] = <<t[i][1], t[i][2]>>
    BY <2>1 DEF Entry
  <2>3. s[i][1] = t[i][1] /\ s[i][2] = t[i][2]
    BY <1>7 DEF Leaf
  <2> QED
    BY <2>2, <2>3
<1> QED
  BY <1>7, <1>8, <1>9

\* The case of a log without events added, and whichever tower is the higher.
LEMMA RootsDiffer ==
  ASSUME NEW s \in Seq(Entry), NEW t \in Seq(Entry), Root(s) = Root(t)
  PROVE  s = t
<1>1. ASSUME NEW x \in Seq(Entry), x # <<>> PROVE Root(x) # <<>>
  <2>1. Node(x, Root(x))
    BY <1>1, RootIsNode
  <2>2. \A a, b : <<>> # <<a>> /\ <<>> # <<a, b>>
    OBVIOUS
  <2>3. ~IsLeaf(<<>>)
    <3>1. Len(<<>>) = 0 /\ \A c, d : Len(<<c, d, "leaf">>) = 3
      OBVIOUS
    <3> QED
      BY <3>1 DEF IsLeaf
  <2> QED
    BY <1>1, <2>1, <2>2, <2>3, NodeCases, LeafShape
<1>2. CASE s = <<>> \/ t = <<>>
  BY <1>1, <1>2 DEF Root
<1>3. CASE s # <<>> /\ t # <<>>
  <2> DEFINE L == Layers(Leaves(s))
             M == Layers(Leaves(t))
  <2>1. PICK m \in Nat : Tower(s, L, m)
    BY <1>3, Heights
  <2>2. PICK n \in Nat : Tower(t, M, n)
    BY <1>3, Heights
  <2> HIDE DEF L, M
  <2>3. s # <<>> /\ t # <<>> /\ Root(t) = Root(s)
    BY <1>3
  <2>4. CASE m <= n
    BY <2>1, <2>2, <2>3, <2>4, RootTells
  <2>5. CASE n <= m
    BY <2>1, <2>2, <2>3, <2>5, RootTells
  <2> QED
    BY <2>4, <2>5
<1> QED
  BY <1>2, <1>3

-----------------------------------------------------------------------------
\* The inductive invariant holds at the start, ...
LEMMA InitIInv == Init => IInv
<1> SUFFICES ASSUME Init PROVE IInv
  OBVIOUS
<1>1. IsInjective([i \in DOMAIN log |-> log[i][1]])
  BY DEF Init, IsInjective
<1>2. TypeOK
  <2>1. log \in Seq(Entry) /\ built \in Seq(Entry) /\ snap \in [Call -> Seq(Entry)]
    BY DEF Init
  <2>2. faults \in 0 .. MaxFaults /\ clears \in 0 .. MaxClears
    BY Bounds DEF Init
  <2>3. QED
    BY <1>1, <2>1, <2>2 DEF Init, TypeOK, Entry
<1>3. MemoryBuilt /\ RootCurrent
  BY RootOfNone DEF Init, MemoryBuilt, RootCurrent
<1>4. Alone /\ CallCurrent /\ Emptied
  BY DEF Init, Alone, CallCurrent, Emptied, Busy
<1> QED
  BY <1>2, <1>3, <1>4 DEF IInv

\* An event is stored, alone or not.
LEMMA InsertIInv ==
  ASSUME IInv, NEW c \in Call, NEW e \in Event, NEW level \in {0, 1}, Insert(c, e, level)
  PROVE  IInv'
<1> USE DEF Insert, storeVars, boundVars
<1>1. TypeOK'
  <2>0. log' = Append(log, <<e, level>>)
    OBVIOUS
  <2>1. log \in Seq(Entry) /\ Distinct(log)
    BY Distinctness DEF IInv, TypeOK, Entry
  <2>2. \A i \in DOMAIN log : log[i][1] # e
    BY DEF Stored
  <2> HIDE DEF Insert
  <2>3. log' \in Seq(Entry) /\ Distinct(log')
    BY <2>0, <2>1, <2>2, AppendDistinct
  <2>4. pc' \in [Call -> {"idle", "load", "root", "save"}]
    BY DEF Insert, IInv, TypeOK
  <2>5. overlap' \in BOOLEAN
    BY Zenon DEF Insert, IInv, TypeOK
  <2>6. QED
    BY <2>3, <2>4, <2>5, Distinctness DEF Insert, IInv, TypeOK, Entry
<1>2. ASSUME ~overlap' PROVE ~overlap /\ Busy = {} /\ clearing = "no" /\ Busy' = {c}
  <2>1. ~overlap /\ Busy = {} /\ clearing = "no"
    BY <1>2 DEF Quiet
  <2>2. Busy' = {c}
    BY <2>1 DEF Busy, IInv, TypeOK
  <2>3. QED
    BY <2>1, <2>2
<1>3. MemoryBuilt' /\ Emptied' /\ Alone'
  BY <1>2 DEF IInv, MemoryBuilt, Emptied, Alone
<1>4. CallCurrent'
  <2>1. ASSUME ~overlap', NEW d \in Call PROVE pc'[d] \notin {"root", "save"}
    BY <2>1, <1>2 DEF Busy, IInv, TypeOK
  <2>2. QED
    BY <2>1 DEF CallCurrent
<1>5. RootCurrent'
  BY <1>2 DEF RootCurrent, Quiet
<1> QED
  BY <1>1, <1>3, <1>4, <1>5 DEF IInv

\* A call reads the log.
LEMMA LoadEventsIInv ==
  ASSUME IInv, NEW c \in Call, LoadEvents(c)
  PROVE  IInv'
<1> USE DEF LoadEvents, storeVars, boundVars, historyVars
<1>1. TypeOK'
  BY DEF IInv, TypeOK
<1>2. pc[c] = "load" /\ c \in Busy /\ Busy' = Busy
  BY DEF Busy, IInv, TypeOK
<1>3. MemoryBuilt' /\ Emptied' /\ Alone'
  BY <1>2 DEF IInv, MemoryBuilt, Emptied, Alone
<1>4. CallCurrent'
  BY <1>2 DEF IInv, CallCurrent, TypeOK
<1>5. RootCurrent'
  BY <1>2 DEF RootCurrent, Quiet
<1> QED
  BY <1>1, <1>3, <1>4, <1>5 DEF IInv

\* A call that returns leaves the other ones under way.
LEMMA Returned ==
  ASSUME IInv, NEW c \in Busy, Return(c)
  PROVE  /\ pc' \in [Call -> {"idle", "load", "root", "save"}]
         /\ snap' \in [Call -> Seq(Event \X {0, 1})]
         /\ Busy' = Busy \ {c}
         /\ \A d \in Call \ {c} : pc'[d] = pc[d] /\ snap'[d] = snap[d]
         /\ pc'[c] = "idle"
<1>1. c \in Call /\ <<>> \in Seq(Event \X {0, 1})
  BY DEF Busy
<1> QED
  BY <1>1 DEF Return, Busy, IInv, TypeOK

\* A call builds the tree, and has done if its root is saved already.
LEMMA RebuildIInv ==
  ASSUME IInv, NEW c \in Call, Rebuild(c)
  PROVE  IInv'
<1> USE DEF Rebuild, boundVars
<1>0. pc[c] = "root" /\ c \in Busy
  BY DEF Busy
<1>1. /\ pc' \in [Call -> {"idle", "load", "root", "save"}]
      /\ snap' \in [Call -> Seq(Event \X {0, 1})]
      /\ \A d \in Call \ {c} : pc'[d] = pc[d] /\ snap'[d] = snap[d]
      /\ Busy' \subseteq Busy
      /\ \/ saved = Root(snap[c]) /\ Busy' = Busy \ {c} /\ pc'[c] = "idle"
         \/ pc'[c] = "save" /\ snap'[c] = snap[c] /\ Busy' = Busy
  <2>1. CASE saved = Root(snap[c])
    BY <2>1, <1>0, Returned
  <2>2. CASE saved # Root(snap[c])
    <3>1. pc' = [pc EXCEPT ![c] = "save"] /\ snap' = snap
      BY <2>2
    <3>2. QED
      BY <3>1, <1>0 DEF Busy, IInv, TypeOK
  <2>3. QED
    BY <2>1, <2>2
<1>2. TypeOK'
  <2>1. stale' \in BOOLEAN
    BY Zenon DEF IInv, TypeOK
  <2>2. built' \in Seq(Event \X {0, 1})
    BY DEF IInv, TypeOK
  <2>3. QED
    BY <1>1, <2>1, <2>2 DEF IInv, TypeOK
<1>3. MemoryBuilt'
  BY DEF MemoryBuilt
<1>4. ~overlap' => \A d \in Busy : d = c
  BY <1>0 DEF IInv, Alone
<1>5. ~overlap' => clearing' = "no"
  BY <1>0 DEF IInv, Alone
<1>6. Alone' /\ Emptied'
  BY <1>1, <1>4, <1>5 DEF Alone, Emptied
<1>7. ~overlap' /\ ~stale' => snap[c] = log
  BY <1>0 DEF IInv, CallCurrent
<1>8. CallCurrent'
  <2>1. ASSUME ~overlap', NEW d \in Call, pc'[d] \in {"root", "save"}
        PROVE  d = c /\ pc'[c] = "save" /\ snap'[c] = snap[c]
    <3>1. d = c
      BY <2>1, <1>1, <1>4 DEF Busy
    <3>2. QED
      BY <3>1, <2>1, <1>1
  <2>2. QED
    BY <2>1, <1>7 DEF CallCurrent
<1>9. RootCurrent'
  <2> SUFFICES ASSUME Quiet', ~overlap', ~stale' PROVE saved' = Root(log)' /\ memory' = saved'
    BY DEF RootCurrent
  <2>1. Busy' = {}
    BY DEF Quiet
  <2>2. saved = Root(snap[c])
    BY <2>1, <1>1, <1>0
  <2>3. Root(log)' = Root(log)
    OBVIOUS
  <2>4. QED
    BY <2>2, <2>3, <1>7
<1> QED
  BY <1>2, <1>3, <1>6, <1>8, <1>9 DEF IInv

\* A call saves the root it has built, and ends.
LEMMA SaveRootIInv ==
  ASSUME IInv, NEW c \in Call, SaveRoot(c)
  PROVE  IInv'
<1> USE DEF SaveRoot, boundVars
<1>0. pc[c] = "save" /\ c \in Busy
  BY DEF Busy
<1>1. /\ pc' \in [Call -> {"idle", "load", "root", "save"}]
      /\ snap' \in [Call -> Seq(Event \X {0, 1})]
      /\ \A d \in Call \ {c} : pc'[d] = pc[d] /\ snap'[d] = snap[d]
      /\ Busy' = Busy \ {c} /\ pc'[c] = "idle"
  BY <1>0, Returned
<1>2. TypeOK'
  <2>1. stale' \in BOOLEAN
    BY Zenon DEF IInv, TypeOK
  <2>2. QED
    BY <1>1, <2>1 DEF IInv, TypeOK
<1>3. MemoryBuilt'
  BY DEF IInv, MemoryBuilt
<1>4. ~overlap' => (\A d \in Busy : d = c) /\ clearing' = "no"
  BY <1>0 DEF IInv, Alone
<1>5. Alone' /\ Emptied'
  BY <1>1, <1>4 DEF Alone, Emptied
<1>6. CallCurrent'
  <2>1. ASSUME ~overlap', NEW d \in Call PROVE pc'[d] \notin {"root", "save"}
    <3>1. d = c \/ d \notin Busy
      BY <2>1, <1>4
    <3>2. QED
      BY <3>1, <1>1 DEF Busy
  <2>2. QED
    BY <2>1 DEF CallCurrent
<1>7. RootCurrent'
  <2> SUFFICES ASSUME ~overlap', ~stale' PROVE saved' = Root(log)' /\ memory' = saved'
    BY DEF RootCurrent
  <2>1. snap[c] = log
    BY <1>0 DEF IInv, CallCurrent
  <2>2. built = snap[c]
    BY <1>0 DEF IInv, CallCurrent
  <2>3. saved' = Root(log) /\ memory' = Root(log) /\ Root(log)' = Root(log)
    BY <2>1, <2>2 DEF IInv, MemoryBuilt
  <2>4. QED
    BY <2>3
<1> QED
  BY <1>2, <1>3, <1>5, <1>6, <1>7 DEF IInv

\* A call, or clearStore, breaks off.
LEMMA ThrowIInv ==
  ASSUME IInv, Throw
  PROVE  IInv'
<1> USE DEF Throw, storeVars, callVars
<1>1. /\ pc' \in [Call -> {"idle", "load", "root", "save"}]
      /\ snap' \in [Call -> Seq(Event \X {0, 1})]
      /\ clearing' \in {"no", clearing}
      /\ Busy' \subseteq Busy
      /\ \A d \in Busy' : pc'[d] = pc[d] /\ snap'[d] = snap[d]
  <2>1. ASSUME NEW c \in Busy, Return(c), UNCHANGED clearing PROVE <1>1
    BY <2>1, Returned DEF Busy
  <2>2. CASE clearing' = "no" /\ UNCHANGED callVars
    BY <2>2 DEF IInv, TypeOK, Busy
  <2>3. QED
    BY <2>1, <2>2
<1>2. TypeOK'
  <2>1. faults' \in 0 .. MaxFaults
    BY Bounds DEF IInv, TypeOK
  <2>2. QED
    BY <1>1, <2>1 DEF IInv, TypeOK
<1>3. MemoryBuilt' /\ RootCurrent'
  BY DEF IInv, MemoryBuilt, RootCurrent
<1>4. Alone' /\ Emptied'
  BY <1>1 DEF IInv, Alone, Emptied
<1>5. CallCurrent'
  <2>1. ASSUME ~overlap', NEW d \in Call, pc'[d] = "save" PROVE built' = snap'[d]
    <3>1. d \in Busy'
      BY <2>1 DEF Busy
    <3>2. pc[d] = "save" /\ snap'[d] = snap[d]
      BY <3>1, <2>1, <1>1
    <3>3. QED
      BY <3>2, <2>1 DEF IInv, CallCurrent
  <2>2. QED
    BY <2>1 DEF CallCurrent
<1> QED
  BY <1>2, <1>3, <1>4, <1>5 DEF IInv

\* An upload marks an event, and the tree is left as it was.
LEMMA MarkIInv ==
  ASSUME IInv, NEW e \in Event, Mark(e)
  PROVE  IInv'
<1> USE DEF Mark, callVars, boundVars
<1>1. PICK k \in DOMAIN log : log[k] = <<e, 0>> /\ log' = [log EXCEPT ![k] = <<e, 1>>]
  OBVIOUS
<1>2. TypeOK'
  <2>1. log \in Seq(Entry) /\ Distinct(log)
    BY Distinctness DEF IInv, TypeOK, Entry
  <2>2. log' \in Seq(Entry) /\ Distinct(log')
    BY <2>1, <1>1, MarkDistinct
  <2>3. QED
    BY <2>2, Distinctness DEF IInv, TypeOK, Entry
<1>3. log # <<>>
  BY <1>1
<1>4. MemoryBuilt' /\ RootCurrent'
  BY DEF IInv, MemoryBuilt, RootCurrent
<1>5. Alone' /\ Emptied' /\ CallCurrent'
  BY <1>3 DEF IInv, Alone, Emptied, CallCurrent, Busy
<1> QED
  BY <1>2, <1>4, <1>5 DEF IInv

\* The process starts again, and loads the tree.
LEMMA RestartIInv ==
  ASSUME IInv, NEW c \in Call, Restart(c)
  PROVE  IInv'
<1> USE DEF Restart
<1>1. Busy' = {c}
  BY DEF Busy
<1>2. TypeOK'
  <2>1. <<>> \in Seq(Event \X {0, 1})
    OBVIOUS
  <2>2. faults' \in 0 .. MaxFaults
    BY Bounds DEF IInv, TypeOK
  <2>3. QED
    BY <2>1, <2>2 DEF IInv, TypeOK
<1>3. MemoryBuilt' /\ RootCurrent'
  BY RootOfNone DEF MemoryBuilt, RootCurrent
<1>4. Alone' /\ Emptied' /\ CallCurrent'
  BY <1>1 DEF Alone, Emptied, CallCurrent
<1> QED
  BY <1>2, <1>3, <1>4 DEF IInv

\* The administrator clears the store, first the events,
LEMMA ClearEventsIInv ==
  ASSUME IInv, ClearEvents
  PROVE  IInv'
<1> USE DEF ClearEvents, callVars
<1>1. TypeOK'
  <2>1. log' \in Seq(Event \X {0, 1}) /\ IsInjective([i \in DOMAIN log' |-> log'[i][1]])
    BY DEF IsInjective
  <2>2. Stored \subseteq Event
    BY DEF Stored, IInv, TypeOK
  <2>3. overlap' \in BOOLEAN
    BY Zenon DEF IInv, TypeOK
  <2>4. clears' \in 0 .. MaxClears
    BY Bounds DEF IInv, TypeOK
  <2>5. QED
    BY <2>1, <2>2, <2>3, <2>4 DEF IInv, TypeOK
<1>2. ~overlap' => ~overlap /\ Busy = {} /\ Busy' = {}
  BY DEF Quiet, Busy
<1>3. MemoryBuilt' /\ Alone' /\ Emptied'
  BY <1>2 DEF IInv, MemoryBuilt, Alone, Emptied
<1>4. CallCurrent' /\ RootCurrent'
  BY <1>2 DEF CallCurrent, RootCurrent, Busy, Quiet
<1> QED
  BY <1>1, <1>3, <1>4 DEF IInv

\* and then the root, the tree, and the root once more.
LEMMA ClearOtherIInv ==
  ASSUME IInv, ClearOther
  PROVE  IInv'
<1> USE DEF ClearOther, callVars, boundVars
<1>1. TypeOK'
  <2>1. <<>> \in Seq(Event \X {0, 1})
    OBVIOUS
  <2>2. built' \in Seq(Event \X {0, 1}) /\ clearing' \in {"no", "root", "memory", "blank"}
    BY <2>1 DEF IInv, TypeOK
  <2>3. QED
    BY <2>2 DEF IInv, TypeOK
<1>2. MemoryBuilt'
  BY RootOfNone DEF IInv, MemoryBuilt
<1>3. clearing # "no" /\ Busy' = Busy
  BY DEF Busy
<1>4. Alone' /\ Emptied'
  BY <1>3 DEF IInv, Alone, Emptied
<1>5. ~overlap => Busy = {}
  BY <1>3 DEF IInv, Alone
<1>6. CallCurrent'
  BY <1>5 DEF CallCurrent, Busy
<1>7. RootCurrent'
  BY <1>3, RootOfNone DEF IInv, RootCurrent, Quiet, Emptied, MemoryBuilt
<1> QED
  BY <1>1, <1>2, <1>4, <1>6, <1>7 DEF IInv

\* every step keeps it, ...
LEMMA NextIInv == IInv /\ [Next]_vars => IInv'
<1> SUFFICES ASSUME IInv, [Next]_vars PROVE IInv'
  OBVIOUS
<1>1. ASSUME NEW c \in Call, NEW e \in Event, NEW level \in {0, 1}, Insert(c, e, level)
      PROVE  IInv'
  BY <1>1, InsertIInv
<1>2. ASSUME NEW c \in Call, LoadEvents(c) \/ Rebuild(c) \/ SaveRoot(c) \/ Restart(c)
      PROVE  IInv'
  BY <1>2, LoadEventsIInv, RebuildIInv, SaveRootIInv, RestartIInv
<1>3. ASSUME NEW e \in Event, Mark(e) PROVE IInv'
  BY <1>3, MarkIInv
<1>4. CASE Throw \/ ClearEvents \/ ClearOther
  BY <1>4, ThrowIInv, ClearEventsIInv, ClearOtherIInv
<1>5. CASE UNCHANGED vars
  <2>1. Busy' = Busy
    BY <1>5 DEF vars, callVars, Busy
  <2>2. QED
    BY <2>1, <1>5 DEF vars, storeVars, callVars, boundVars, historyVars, IInv, TypeOK, MemoryBuilt,
                      Alone, CallCurrent, Emptied, RootCurrent, Quiet
<1> QED
  BY <1>1, <1>2, <1>3, <1>4, <1>5 DEF Next

-----------------------------------------------------------------------------
\* so it holds always.
LEMMA Always == Spec => []IInv
  BY InitIInv, NextIInv, PTL DEF Spec

\* The tables and the calls stay what they are; no guid is ever stored twice,
\* which saveEvent leaves to submitForm.
THEOREM Typing == Spec => []TypeOK
  BY Always, PTL DEF IInv

\* Whatever calls, uploads, failures, restarts and clearings there have been: when
\* nothing is under way, the tree and the saved root are those of the log, unless
\* calls have overlapped or the log was changed behind the tree since.
THEOREM RootsAgree == Spec => []RootCurrent
  BY Always, PTL DEF IInv

\* The root tells the log: of all the logs there can be, only the one the tree in
\* memory was built from has its root, for a tree of any height.
LEMMA TellsLog == IInv => RootTellsLog
<1> SUFFICES ASSUME IInv, memory = Root(log) PROVE built = log
  BY DEF RootTellsLog
<1>1. built \in Seq(Entry) /\ log \in Seq(Entry) /\ Root(built) = Root(log)
  BY DEF IInv, TypeOK, MemoryBuilt, Entry
<1> QED
  BY <1>1, RootsDiffer

\* Whatever getProof returns is a list of leaves.
LEMMA ProofsAreLeaves ==
  ASSUME IInv, NEW proof \in Proofs
  PROVE  LeafProof(proof)
<1>1. log \in Seq(Entry)
  BY DEF IInv, TypeOK, Entry
<1>2. CASE proof = <<>>
  BY <1>2 DEF LeafProof
<1>3. CASE proof # <<>>
  <2>1. PICK i \in DOMAIN log : proof = Proof(log, i - 1)
    BY <1>3 DEF Proofs
  <2> QED
    BY <1>1, <2>1, ProofLeaves
<1> QED
  BY <1>2, <1>3

\* Only what the tree was built from verifies,
LEMMA OnlyBuilt == IInv => VerifiedIsLogged
<1> SUFFICES ASSUME IInv, NEW e \in Event, NEW level \in {0, 1}, NEW proof \in Proofs,
                    Verifies(<<e, level>>, proof)
             PROVE  <<e, level>> \in {built[k] : k \in DOMAIN built}
  BY DEF VerifiedIsLogged
<1>1. built \in Seq(Entry) /\ <<e, level>> \in Entry
  BY DEF IInv, TypeOK, Entry
<1>2. Root(built) \in Computed(<<e, level>>, proof)
  BY DEF IInv, MemoryBuilt, Verifies
<1>3. LeafProof(proof)
  BY ProofsAreLeaves
<1> QED
  BY <1>1, <1>2, <1>3, OnlyLogged

\* the only event of a log does,
LEMMA LoneVerifies == IInv => LoneEventVerifies
<1> SUFFICES ASSUME IInv, built = log, NEW i \in DOMAIN log, Len(log) = 1
             PROVE  Verifies(log[i], Proof(log, i - 1))
  BY DEF LoneEventVerifies
<1>1. log \in Seq(Entry) /\ memory = Root(log)
  BY DEF IInv, TypeOK, MemoryBuilt, Entry
<1>2. i = 1 /\ i - 1 = 0
  BY <1>1, LenProperties
<1>3. Root(log) \in Computed(log[1], Proof(log, 0))
  BY <1>1, LoneProof
<1> QED
  BY <1>1, <1>2, <1>3 DEF Verifies

\* and of three events or more, none: how far the violation of EventsVerify reaches.
NoneOfThreeVerifies ==
    built = log /\ Len(log) > 2 => \A i \in DOMAIN log : ~Verifies(log[i], Proof(log, i - 1))

\* Every proof of leaves is too short for such a tree.
LEMMA ThreeFail == IInv => NoneOfThreeVerifies
<1> SUFFICES ASSUME IInv, built = log, Len(log) > 2, NEW i \in DOMAIN log
             PROVE  ~Verifies(log[i], Proof(log, i - 1))
  BY DEF NoneOfThreeVerifies
<1>1. log \in Seq(Entry) /\ memory = Root(log)
  BY DEF IInv, TypeOK, MemoryBuilt, Entry
<1>2. LeafProof(Proof(log, i - 1))
  BY <1>1, ProofLeaves
<1>3. Root(log) \notin Computed(log[i], Proof(log, i - 1))
  BY <1>1, <1>2, NoLongProof
<1> QED
  BY <1>1, <1>3 DEF Verifies

\* The root that getMerkleRoot returns is the fingerprint of the stored events: if
\* any event was changed, lost or added since the tree was built, it differs.
THEOREM Fingerprint == Spec => []RootTellsLog
  BY Always, TellsLog, PTL

\* verifyEvent, with whatever getProof returns for a log of any length, accepts only
\* events that are in the tree, in the state they were in when it was built.
THEOREM OnlyLoggedVerify == Spec => []VerifiedIsLogged
  BY Always, OnlyBuilt, PTL

\* What getProof returns proves the only event of a log, whatever calls, failures
\* and restarts came before.
THEOREM LoneEventIsProved == Spec => []LoneEventVerifies
  BY Always, LoneVerifies, PTL

\* Once the log holds more than two events, what getProof returns proves none of
\* them, however many there are, although the tree is that of the log.
THEOREM NoneOfThreeIsProved == Spec => []NoneOfThreeVerifies
  BY Always, ThreeFail, PTL
=============================================================================
