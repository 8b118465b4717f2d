--------------------------- MODULE PathFinderProofs ---------------------------
(* The heap of the path search stays in order, no path is found twice or      *)
(* after a longer one, and none is missed: the search is the enumeration of   *)
(* PathEnumeration, and every step of it leaves less to come.  All of this    *)
(* for any cluster, limits and criteria.                                      *)
EXTENDS PathFinder, SequenceTheorems, FiniteSetTheorems, WellFoundedInduction, TLAPS

\* A nonempty set of naturals has a least member.
LEMMA Least ==
    ASSUME NEW T \in SUBSET Nat, T # {}
    PROVE  \E m \in T : \A k \in T : m <= k
  <1>1. \E m \in T : \A k \in T : ~(<<k, m>> \in OpToRel(<, Nat))
    BY NatLessThanWellFounded, WFMin
  <1>2. PICK m \in T : \A k \in T : ~(<<k, m>> \in OpToRel(<, Nat))
    BY <1>1
  <1>3. \A k \in T : ~(k < m)
    BY <1>2 DEF OpToRel
  <1> QED BY <1>3

\* A position other than the root is the left or the right child of its parent.
LEMMA ParentIs ==
    ASSUME NEW i \in Nat, i >= 2
    PROVE  /\ Parent(i) \in Nat /\ Parent(i) >= 1 /\ Parent(i) < i
           /\ i = 2 * Parent(i) \/ i = 2 * Parent(i) + 1
  BY DEF Parent

\* The parent of both children of a position.
LEMMA ParentOf ==
    ASSUME NEW i \in Nat
    PROVE Parent(2 * i) = i /\ Parent(2 * i + 1) = i
  BY DEF Parent

-----------------------------------------------------------------------------
\* Lengths

\* A running sum of naturals exists.
LEMMA SumExists ==
    ASSUME NEW n \in Nat, NEW leg \in [1 .. n -> Nat]
    PROVE  \E f \in [0 .. n -> Nat] :
              f[0] = 0 /\ \A i \in 1 .. n : f[i] = f[i - 1] + leg[i]
  <1> DEFINE IsSum(f, k) == f[0] = 0 /\ \A i \in 1 .. k : f[i] = f[i - 1] + leg[i]
             Bad == {k \in 0 .. n : ~ \E f \in [0 .. k -> Nat] : IsSum(f, k)}
  <1>1. SUFFICES ASSUME Bad # {} PROVE FALSE
    <2>1. n \in 0 .. n
      OBVIOUS
    <2> QED BY <2>1
  <1>3. PICK m \in Bad : \A k \in Bad : m <= k
    <2>1. Bad \in SUBSET Nat
      OBVIOUS
    <2> HIDE DEF Bad
    <2> QED BY <1>1, <2>1, Least
  <1>4. m # 0
    <2>1. [k \in 0 .. 0 |-> 0] \in [0 .. 0 -> Nat] /\ IsSum([k \in 0 .. 0 |-> 0], 0)
      OBVIOUS
    <2> QED BY <1>3, <2>1
  <1>5. m - 1 \in 0 .. n /\ m - 1 \notin Bad
    <2>1. m \in 0 .. n
      OBVIOUS
    <2> HIDE DEF Bad
    <2> QED BY <1>3, <1>4, <2>1
  <1>6. PICK f \in [0 .. m - 1 -> Nat] : IsSum(f, m - 1)
    BY <1>5
  <1> DEFINE g == [k \in 0 .. m |-> IF k = m THEN f[m - 1] + leg[m] ELSE f[k]]
  <1>7. g \in [0 .. m -> Nat]
    <2>1. m \in Nat /\ m \in 1 .. n /\ m - 1 \in 0 .. m - 1
      BY <1>3, <1>4
    <2>2. f[m - 1] + leg[m] \in Nat
      BY <2>1
    <2>3. \A k \in 0 .. m : k # m => f[k] \in Nat
      BY <2>1
    <2> HIDE DEF Bad
    <2> QED BY <2>2, <2>3
  <1>8. IsSum(g, m)
    <2>1. g[0] = 0
      BY <1>3, <1>4, <1>6
    <2>2. ASSUME NEW i \in 1 .. m PROVE g[i] = g[i - 1] + leg[i]
      <3>1. m \in Nat /\ m >= 1 /\ i \in 0 .. m /\ i - 1 \in 0 .. m /\ i - 1 # m
        BY <1>3, <1>4
      <3>2. g[i - 1] = f[i - 1]
        BY <3>1
      <3>3. CASE i = m
        BY <3>1, <3>2, <3>3
      <3>4. CASE i # m
        <4>1. i \in 1 .. m - 1
          BY <3>1, <3>4
        <4> QED BY <1>6, <3>1, <3>2, <3>4, <4>1
      <3> QED BY <3>3, <3>4
    <2> QED BY <2>1, <2>2
  <1> QED BY <1>3, <1>7, <1>8

\* Between atoms of the input distances are naturals that form a metric.
LEMMA Metric ==
    ASSUME input \in Inputs, NEW a \in Atoms, NEW b \in Atoms, NEW c \in Atoms
    PROVE  /\ Distance(a, b) \in Nat
           /\ Distance(a, b) = Distance(b, a)
           /\ Distance(a, c) <= Distance(a, b) + Distance(b, c)
           /\ Distance(a, b) + Distance(b, c) < Far
  BY InputsAssumption DEF IsMetric, Distance, Atoms

\* What every input of a search provides.
LEMMA AtomsType ==
    ASSUME input \in Inputs
    PROVE  /\ 0 \in Atoms /\ Atoms \subseteq Nat /\ input.atoms \in Nat /\ input.atoms >= 2
           /\ input.maxAtoms \in Nat /\ input.maxAtoms >= 1
           /\ input.firstBounce \subseteq Atoms \ {0} /\ input.firstBounce # {}
  BY InputsAssumption DEF Atoms, AtomsOf

\* A leg has a natural length.
LEMMA LegType ==
    ASSUME input \in Inputs, NEW path \in Seq(Atoms), NEW i \in 1 .. Len(path)
    PROVE  Leg(path, i) \in Nat
  <1>1. path[i] \in Atoms
    OBVIOUS
  <1>2. CASE i = 1
    BY <1>1, <1>2, AtomsType, Metric DEF Leg
  <1>3. CASE i # 1
    <2>1. path[i - 1] \in Atoms
      BY <1>3
    <2> QED BY <1>1, <1>3, <2>1, Metric DEF Leg
  <1> QED BY <1>2, <1>3

\* The way to a path's i-th atom is the sum of its first i legs.
LEMMA WalkedIs ==
    ASSUME input \in Inputs, NEW path \in Seq(Atoms)
    PROVE  /\ Walked(path) \in [0 .. Len(path) -> Nat]
           /\ Walked(path)[0] = 0
           /\ \A i \in 1 .. Len(path) :
                 Walked(path)[i] = Walked(path)[i - 1] + Leg(path, i)
  <1> DEFINE n == Len(path)
             leg == [i \in 1 .. n |-> Leg(path, i)]
             W(f) == [i \in 0 .. n |-> IF i = 0 THEN 0 ELSE f[i - 1] + Leg(path, i)]
  <1>1. n \in Nat /\ leg \in [1 .. n -> Nat]
    BY LegType
  <1>2. PICK f \in [0 .. n -> Nat] : f[0] = 0 /\ \A i \in 1 .. n : f[i] = f[i - 1] + leg[i]
    <2> HIDE DEF leg, n
    <2> QED BY <1>1, SumExists
  <1>3. f = W(f)
    <2>1. \A i \in 0 .. n : f[i] = W(f)[i]
      BY <1>1, <1>2
    <2> QED BY <2>1
  <1>4. Walked(path) = W(Walked(path))
    BY <1>3 DEF Walked
  <1> DEFINE w == Walked(path)
  <1>5. w = W(w)
    BY <1>4
  <1> HIDE DEF w
  <1>6. w[0] = 0 /\ \A i \in 1 .. n : w[i] = w[i - 1] + Leg(path, i)
    BY <1>1, <1>5
  <1>7. DOMAIN w = 0 .. n /\ w = [i \in 0 .. n |-> w[i]]
    BY <1>5
  <1>8. \A i \in 0 .. n : w[i] = f[i]
    <2> DEFINE Bad == {k \in 0 .. n : w[k] # f[k]}
    <2>1. SUFFICES ASSUME Bad # {} PROVE FALSE
      OBVIOUS
    <2>2. Bad \in SUBSET Nat
      BY <1>1
    <2>3. PICK m \in Bad : \A k \in Bad : m <= k
      <3> HIDE DEF Bad
      <3> QED BY <2>1, <2>2, Least
    <2>4. m # 0
      BY <1>2, <1>6, <2>3
    <2>5. m \in 1 .. n /\ m - 1 \in 0 .. n /\ m - 1 \notin Bad
      BY <1>1, <2>3, <2>4
    <2>6. w[m] = w[m - 1] + Leg(path, m) /\ f[m] = f[m - 1] + Leg(path, m)
      BY <1>2, <1>6, <2>5
    <2>7. w[m - 1] = f[m - 1]
      BY <2>5
    <2> QED BY <2>3, <2>6, <2>7
  <1>9. w \in [0 .. n -> Nat]
    BY <1>7, <1>8
  <1> QED BY <1>6, <1>9 DEF w

\* A path has a natural length.
LEMMA LengthType ==
    ASSUME input \in Inputs, NEW path \in Seq(Atoms), path # <<>>
    PROVE  Length(path) \in Nat
  <1>1. Len(path) \in 0 .. Len(path) /\ Last(path) \in Atoms
    BY DEF Last
  <1>2. Walked(path)[Len(path)] \in Nat
    BY <1>1, WalkedIs
  <1>3. Distance(Last(path), 0) \in Nat
    BY <1>1, Metric, AtomsType
  <1> QED BY <1>2, <1>3 DEF Length

\* Two paths that agree up to an atom have walked the same up to it.
LEMMA SamePrefix ==
    ASSUME input \in Inputs, NEW p \in Seq(Atoms), NEW q \in Seq(Atoms),
           NEW n \in Nat, n <= Len(p), n <= Len(q), \A i \in 1 .. n : p[i] = q[i]
    PROVE  Walked(p)[n] = Walked(q)[n]
  <1> DEFINE Bad == {k \in 0 .. n : Walked(p)[k] # Walked(q)[k]}
  <1>1. SUFFICES ASSUME Bad # {} PROVE FALSE
    OBVIOUS
  <1>2. PICK m \in Bad : \A k \in Bad : m <= k
    <2>1. Bad \in SUBSET Nat
      OBVIOUS
    <2> HIDE DEF Bad
    <2> QED BY <1>1, <2>1, Least
  <1>3. m # 0
    BY <1>2, WalkedIs
  <1>4. m \in 1 .. n /\ m \in 1 .. Len(p) /\ m \in 1 .. Len(q) /\ m - 1 \in 0 .. n /\ m - 1 \notin Bad
    BY <1>2, <1>3
  <1>5. Walked(p)[m - 1] = Walked(q)[m - 1]
    BY <1>4
  <1>6. Leg(p, m) = Leg(q, m)
    <2>1. m = 1 \/ m - 1 \in 1 .. n
      BY <1>4
    <2> QED BY <1>4, <2>1 DEF Leg
  <1> HIDE DEF Bad
  <1>7. Walked(p)[m] = Walked(q)[m]
    BY <1>4, <1>5, <1>6, WalkedIs
  <1> QED BY <1>2, <1>7 DEF Bad

-----------------------------------------------------------------------------
\* Types

Sources == Atoms \cup {Start}
Paths == {p \in Seq(Atoms) : p # <<>> /\ Len(p) <= input.maxAtoms}
Node == [path : Paths, source : Sources, column : 0 .. input.atoms - 2, keep : BOOLEAN]
Entry == [key : Nat, node : Nat]

TypeInv ==
    /\ input \in Inputs
    /\ rows \in [Sources -> Seq(Atoms)]
    /\ \A s \in Sources :
          IF pc # "prepare" \/ s < at THEN rows[s] \in Rows(s) ELSE rows[s] = <<>>
    /\ nodes \in Seq(Node)
    /\ heap \in Seq(Entry)
    /\ \A i \in 1 .. Len(heap) : heap[i].node \in 1 .. Len(nodes)
    /\ records \in Seq(Seq(Atoms) \ {<<>>})
    /\ pc \in Steps
    /\ at \in Int
    /\ pc = "prepare" => at < input.atoms
    /\ pc = "sink" => at >= 1
    /\ pc = "rise" => at \in 1 .. Len(heap)
    /\ saved \in Seq(Atoms)
    /\ pc \in {"sink", "extend"} => saved \in Paths
    /\ complete \in BOOLEAN

\* Nothing that depends on the search alone changes with it.
LEMMA SameInput ==
    ASSUME input' = input
    PROVE  /\ Atoms' = Atoms /\ Sources' = Sources /\ Paths' = Paths /\ Node' = Node
           /\ \A s : Rows(s)' = Rows(s)
           /\ \A p : Length(p)' = Length(p)
  <1>1. Atoms' = Atoms
    BY DEF Atoms, AtomsOf
  <1>2. Sources' = Sources /\ Paths' = Paths
    BY <1>1 DEF Sources, Paths
  <1>3. Node' = Node
    BY <1>2 DEF Node
  <1>4. \A a, b : Distance(a, b)' = Distance(a, b)
    BY DEF Distance
  <1>5. \A s : Rows(s)' = Rows(s)
    BY <1>1, <1>4 DEF Rows, Key
  <1>6. \A p : Length(p)' = Length(p)
    BY <1>4 DEF Length, Walked, Leg
  <1> QED BY <1>1, <1>2, <1>3, <1>5, <1>6

\* An entry of the heap is a key and a node.
LEMMA EntryType ==
    ASSUME NEW h \in Seq(Entry), NEW i \in 1 .. Len(h)
    PROVE  h[i] \in Entry /\ h[i].key \in Nat /\ h[i].node \in Nat
  <1>1. h[i] \in Entry
    BY ElementOfSeq
  <1> QED BY <1>1 DEF Entry

\* A swap exchanges two entries and leaves the others alone.
LEMMA SwapIs ==
    ASSUME NEW h \in Seq(Entry), NEW i \in 1 .. Len(h), NEW j \in 1 .. Len(h), i # j
    PROVE  /\ Swap(h, i, j) \in Seq(Entry) /\ Len(Swap(h, i, j)) = Len(h)
           /\ Swap(h, i, j)[i] = h[j] /\ Swap(h, i, j)[j] = h[i]
           /\ \A k \in 1 .. Len(h) : k \notin {i, j} => Swap(h, i, j)[k] = h[k]
  <1>1. /\ [h EXCEPT ![i] = h[j]] \in Seq(Entry)
        /\ Len([h EXCEPT ![i] = h[j]]) = Len(h)
    BY ExceptSeq, ElementOfSeq
  <1>2. Swap(h, i, j) = [[h EXCEPT ![i] = h[j]] EXCEPT ![j] = h[i]]
    BY DEF Swap
  <1> QED BY <1>1, <1>2, ExceptSeq, ElementOfSeq

\* Removing the root puts the last entry in its place.
LEMMA WithoutRootIs ==
    ASSUME NEW h \in Seq(Entry), h # <<>>
    PROVE  /\ WithoutRoot(h) \in Seq(Entry) /\ Len(WithoutRoot(h)) = Len(h) - 1
           /\ Len(h) > 1 => WithoutRoot(h)[1] = h[Len(h)]
           /\ \A i \in 2 .. Len(h) - 1 : WithoutRoot(h)[i] = h[i]
  <1>1. CASE Len(h) = 1
    BY <1>1 DEF WithoutRoot
  <1>2. CASE Len(h) # 1
    <2> DEFINE g == [h EXCEPT ![1] = Last(h)]
    <2>1. Len(h) \in Nat /\ Len(h) > 1
      BY <1>2, EmptySeq
    <2>7. Last(h) = h[Len(h)] /\ Last(h) \in Entry
      BY <2>1, ElementOfSeq DEF Last
    <2>2. g \in Seq(Entry) /\ Len(g) = Len(h)
      BY <2>1, <2>7, ExceptSeq
    <2>3. g[1] = h[Len(h)] /\ \A i \in 2 .. Len(h) : g[i] = h[i]
      BY <2>1, <2>7
    <2>4. WithoutRoot(h) = SubSeq(g, 1, Len(h) - 1)
      BY <1>2, <2>2 DEF WithoutRoot, Front
    <2> HIDE DEF g
    <2>5. \A i \in 1 .. Len(h) - 1 : g[i] \in Entry
      BY <2>1, <2>2, ElementOfSeq
    <2>6. /\ SubSeq(g, 1, Len(h) - 1) \in Seq(Entry)
          /\ Len(SubSeq(g, 1, Len(h) - 1)) = Len(h) - 1
          /\ \A i \in 1 .. Len(h) - 1 : SubSeq(g, 1, Len(h) - 1)[i] = g[i]
      BY <2>1, <2>5, SubSeqProperties
    <2> QED BY <2>1, <2>3, <2>4, <2>6
  <1> QED BY <1>1, <1>2

\* The entries of a row are atoms.
LEMMA RowType ==
    ASSUME NEW s, NEW row \in Rows(s) PROVE row \in [1 .. input.atoms -> Atoms]
  BY DEF Rows, Injection

\* The smaller child is a child, and none of the two has a smaller key.
LEMMA SmallerChildIs ==
    ASSUME heap \in Seq(Entry), NEW i \in Nat, i >= 1, 2 * i <= Len(heap)
    PROVE  /\ SmallerChild(i) \in 1 .. Len(heap) /\ SmallerChild(i) > i
           /\ SmallerChild(i) \in {2 * i, 2 * i + 1}
           /\ heap[SmallerChild(i)].key <= heap[2 * i].key
           /\ 2 * i + 1 <= Len(heap) => heap[SmallerChild(i)].key <= heap[2 * i + 1].key
  <1>1. 2 * i \in 1 .. Len(heap) /\ heap[2 * i].key \in Nat
    BY EntryType
  <1>2. 2 * i + 1 <= Len(heap) => heap[2 * i + 1].key \in Nat
    BY EntryType
  <1>3. CASE 2 * i < Len(heap) /\ heap[2 * i].key > heap[2 * i + 1].key
    <2>1. SmallerChild(i) = 2 * i + 1
      BY <1>3 DEF SmallerChild
    <2> QED BY <1>1, <1>2, <1>3, <2>1
  <1>4. CASE ~(2 * i < Len(heap) /\ heap[2 * i].key > heap[2 * i + 1].key)
    <2>1. SmallerChild(i) = 2 * i
      BY <1>4 DEF SmallerChild
    <2> QED BY <1>1, <1>2, <1>4, <2>1
  <1> QED BY <1>3, <1>4

\* The types hold initially.
LEMMA TypeInit == Init => TypeInv
  <1> SUFFICES ASSUME Init PROVE TypeInv
    OBVIOUS
  <1>1. rows \in [Sources -> Seq(Atoms)]
    BY EmptySeq DEF Init, Sources
  <1>2. at < input.atoms /\ \A s \in Sources : ~(s < at)
    BY AtomsType DEF Init, Sources, Start
  <1> QED BY <1>1, <1>2 DEF Init, TypeInv, Sources, Steps, Start

\* Preparing the rows keeps the types.
LEMMA TypePrepare == TypeInv /\ Prepare => TypeInv'
  <1> SUFFICES ASSUME TypeInv, Prepare PROVE TypeInv'
    OBVIOUS
  <1> USE DEF Prepare
  <1>1. input' = input
    OBVIOUS
  <1>2. PICK row \in Rows(at) : rows' = [rows EXCEPT ![at] = row]
    OBVIOUS
  <1>3. row \in Seq(Atoms)
    <2>1. input.atoms \in Nat
      BY AtomsType DEF TypeInv
    <2>2. row \in [1 .. input.atoms -> Atoms]
      BY RowType
    <2> QED BY <2>1, <2>2, SeqDef
  <1>4. rows' \in [Sources -> Seq(Atoms)]
    BY <1>2, <1>3 DEF TypeInv
  <1>5. /\ at \in Int /\ at' = at + 1 /\ at' <= input.atoms
        /\ pc' = IF at' = input.atoms THEN "begin" ELSE "prepare"
    BY AtomsType DEF TypeInv
  <1>6. \A s \in Sources : s \in Int /\ s < input.atoms
    <2>1. input.atoms \in Nat /\ input.atoms >= 2
      BY AtomsType DEF TypeInv
    <2> QED BY <2>1 DEF Sources, Start, Atoms, AtomsOf
  <1>7. \A s \in Sources : IF s < at THEN rows[s] \in Rows(s) ELSE rows[s] = <<>>
    BY DEF TypeInv
  <1>8. \A s \in Sources : IF s < at' THEN rows'[s] \in Rows(s) ELSE rows'[s] = <<>>
    <2> SUFFICES ASSUME NEW s \in Sources
                 PROVE  IF s < at' THEN rows'[s] \in Rows(s) ELSE rows'[s] = <<>>
      OBVIOUS
    <2>1. CASE s = at
      BY <1>2, <1>5, <2>1 DEF TypeInv
    <2>2. CASE s # at
      <3>1. rows'[s] = rows[s]
        BY <1>2, <2>2 DEF TypeInv
      <3>2. s < at' <=> s < at
        BY <1>5, <1>6, <2>2
      <3> QED BY <1>7, <3>1, <3>2
    <2> QED BY <2>1, <2>2
  <1>9. \A s \in Sources :
           IF pc' # "prepare" \/ s < at' THEN rows'[s] \in Rows(s) ELSE rows'[s] = <<>>
    <2>1. pc' # "prepare" => \A s \in Sources : s < at'
      BY <1>5, <1>6
    <2> QED BY <1>8, <2>1
  <1>10. /\ pc' \in {"begin", "prepare"}
         /\ pc' = "prepare" => at' < input.atoms
    BY <1>5, AtomsType DEF TypeInv
  <1>11. at' \in Int
    BY <1>5
  <1> QED BY <1>1, <1>4, <1>9, <1>10, <1>11, SameInput DEF TypeInv, Steps

\* Once the rows are there, each is a full row.
LEMMA RowIs ==
    ASSUME TypeInv, pc # "prepare", NEW s \in Sources
    PROVE  /\ rows[s] \in Rows(s)
           /\ \A i \in 1 .. input.atoms : rows[s][i] \in Atoms
  <1>1. rows[s] \in Rows(s)
    BY DEF TypeInv
  <1> QED BY <1>1, RowType

\* Whether a path is kept is yes or no.
LEMMA KeepType == \A p : KeepForOutput(p) \in BOOLEAN
  BY DEF KeepForOutput

\* Beginning keeps the types.
LEMMA TypeBegin == TypeInv /\ Begin => TypeInv'
  <1> SUFFICES ASSUME TypeInv, Begin PROVE TypeInv'
    OBVIOUS
  <1> USE DEF Begin
  <1>1. input' = input /\ input \in Inputs /\ UNCHANGED <<rows, records, saved>> /\ at' = 1
    BY DEF TypeInv
  <1> DEFINE first == <<rows[Start][1]>>
             node == [path |-> first, source |-> Start, column |-> 0,
                      keep |-> KeepForOutput(first)]
  <1>2. first \in Paths /\ first \in Seq(Atoms) /\ first # <<>>
    <2>1. rows[Start][1] \in Atoms
      BY <1>1, RowIs, AtomsType DEF Sources
    <2>2. first \in Seq(Atoms) /\ Len(first) = 1
      BY <2>1
    <2> QED BY <1>1, <2>2, AtomsType DEF Paths
  <1>3. node \in Node
    <2>1. Start \in Sources /\ 0 \in 0 .. input.atoms - 2
      BY <1>1, AtomsType DEF Sources
    <2> HIDE DEF first
    <2> QED BY <1>2, <2>1, KeepType DEF Node
  <1>4. [key |-> Length(first), node |-> 1] \in Entry
    <2> HIDE DEF first
    <2> QED BY <1>1, <1>2, LengthType DEF Entry
  <1> HIDE DEF first, node
  <1>5. /\ nodes' \in Seq(Node)
        /\ heap' \in Seq(Entry)
        /\ \A i \in 1 .. Len(heap') : heap'[i].node \in 1 .. Len(nodes')
        /\ pc' \in {"visit", "done"}
        /\ complete' \in BOOLEAN
    <2>1. CASE input.maxRecords > 0 /\ AddToHeap(first)
      <3>1. nodes' = <<node>> /\ heap' = <<[key |-> Length(first), node |-> 1]>>
            /\ pc' = "visit" /\ complete' = complete
        BY <2>1 DEF first, node
      <3> QED BY <1>3, <1>4, <3>1 DEF TypeInv
    <2>2. CASE ~(input.maxRecords > 0 /\ AddToHeap(first))
      <3>1. nodes' = nodes /\ heap' = heap /\ pc' = "done"
            /\ complete' = (input.maxRecords > 0)
        BY <2>2 DEF first
      <3> QED BY <3>1 DEF TypeInv
    <2> QED BY <2>1, <2>2
  <1> QED BY <1>1, <1>5, SameInput DEF TypeInv, Steps

\* The sibling of a candidate is a path of the same length.
LEMMA SiblingType ==
    ASSUME TypeInv, NEW p \in Paths, NEW a \in Atoms
    PROVE  /\ [p EXCEPT ![Len(p)] = a] \in Paths
           /\ Len([p EXCEPT ![Len(p)] = a]) = Len(p)
           /\ [p EXCEPT ![Len(p)] = a][Len(p)] = a
           /\ \A i \in 1 .. Len(p) - 1 : [p EXCEPT ![Len(p)] = a][i] = p[i]
  <1> DEFINE q == [p EXCEPT ![Len(p)] = a]
  <1>1. p \in Seq(Atoms) /\ p # <<>> /\ Len(p) <= input.maxAtoms /\ Len(p) \in 1 .. Len(p)
    BY EmptySeq DEF Paths
  <1>2. /\ q \in Seq(Atoms) /\ Len(q) = Len(p)
        /\ \A j \in 1 .. Len(p) : q[j] = IF j = Len(p) THEN a ELSE p[j]
    BY <1>1, ExceptSeq
  <1> HIDE DEF q
  <1>3. q \in Paths /\ Len(q) = Len(p) /\ q[Len(p)] = a
        /\ \A i \in 1 .. Len(p) - 1 : q[i] = p[i]
    BY <1>1, <1>2, EmptySeq DEF Paths
  <1> QED BY <1>3 DEF q

\* The candidate after a node, and the node that takes it up.
Moved(node) == [node EXCEPT !.column = @ + 1]
Sibling(node) == [node.path EXCEPT ![Len(node.path)] = Candidate(Moved(node))]
Renewed(node) == [Moved(node) EXCEPT !.path = Sibling(node),
                                     !.keep = KeepForOutput(Sibling(node))]

\* Moving a node along its row changes the column alone.
LEMMA MovedIs ==
    ASSUME NEW node \in Node
    PROVE  /\ Moved(node).path = node.path /\ Moved(node).source = node.source
           /\ Moved(node).keep = node.keep /\ Moved(node).column = node.column + 1
  BY DEF Moved, Node

\* The parts of a node.
LEMMA NodeType ==
    ASSUME NEW node \in Node
    PROVE  /\ node.path \in Paths /\ node.source \in Sources
           /\ node.column \in 0 .. input.atoms - 2 /\ node.keep \in BOOLEAN
  BY DEF Node

\* A node with a sibling is renewed to a node.
LEMMA RenewedIs ==
    ASSUME TypeInv, pc # "prepare", NEW node \in Node, HasCandidate(Moved(node))
    PROVE  /\ Candidate(Moved(node)) = rows[node.source][node.column + 2]
           /\ node.column + 2 \in 1 .. input.atoms - 1
           /\ Candidate(Moved(node)) \in Atoms
           /\ Sibling(node) \in Paths
           /\ Renewed(node) \in Node
           /\ Renewed(node).path = Sibling(node)
           /\ Renewed(node).source = node.source
           /\ Renewed(node).column = node.column + 1
           /\ Renewed(node).keep = KeepForOutput(Sibling(node))
  <1>1. /\ input.atoms \in Nat
        /\ node.path \in Paths /\ node.source \in Sources
        /\ node.column \in 0 .. input.atoms - 2
    BY NodeType, AtomsType DEF TypeInv
  <1>2. node.column + 1 < input.atoms - 1
    BY MovedIs DEF HasCandidate
  <1>3. /\ node.column + 1 \in 0 .. input.atoms - 2
        /\ node.column + 2 \in 1 .. input.atoms - 1
        /\ node.column + 2 \in 1 .. input.atoms
        /\ (node.column + 1) + 1 = node.column + 2
    BY <1>1, <1>2
  <1>4. Candidate(Moved(node)) = rows[node.source][node.column + 2]
    BY <1>3, MovedIs DEF Candidate
  <1>5. Candidate(Moved(node)) \in Atoms
    BY <1>1, <1>3, <1>4, RowIs
  <1>6. Sibling(node) \in Paths
    BY <1>1, <1>5, SiblingType DEF Sibling
  <1>7. /\ Renewed(node) \in Node
        /\ Renewed(node).path = Sibling(node)
        /\ Renewed(node).source = node.source
        /\ Renewed(node).column = node.column + 1
        /\ Renewed(node).keep = KeepForOutput(Sibling(node))
    <2> DEFINE k == KeepForOutput(Sibling(node))
    <2>1. k \in BOOLEAN
      BY KeepType
    <2>2. /\ node.column + 1 \in 0 .. input.atoms - 2
          /\ Moved(node) = [node EXCEPT !.column = node.column + 1]
      BY <1>3 DEF Moved
    <2>3. Moved(node) \in Node
      BY <2>2 DEF Node
    <2>4. Renewed(node) = [Moved(node) EXCEPT !.path = Sibling(node), !.keep = k]
      BY DEF Renewed
    <2> HIDE DEF k
    <2>5. /\ Renewed(node) \in Node /\ Renewed(node).path = Sibling(node)
          /\ Renewed(node).source = node.source
          /\ Renewed(node).column = node.column + 1
          /\ Renewed(node).keep = k
      BY <1>6, <2>1, <2>3, <2>4, MovedIs DEF Node
    <2> QED BY <2>5 DEF k
  <1> QED BY <1>3, <1>4, <1>5, <1>6, <1>7

\* A visit, case by case.
LEMMA VisitIs ==
    ASSUME TypeInv, Visit, NEW n, n = heap[1].node
    PROVE  /\ heap # <<>>
           /\ n \in 1 .. Len(nodes) /\ nodes[n] \in Node
           /\ records' = Recorded(nodes[n]) /\ saved' = nodes[n].path /\ at' = 1
           /\ \/ pc' = "done" /\ nodes' = nodes /\ heap' = heap
              \/ /\ HasCandidate(Moved(nodes[n])) /\ AddToHeap(Sibling(nodes[n]))
                 /\ nodes' = [nodes EXCEPT ![n] = Renewed(nodes[n])]
                 /\ heap' = [heap EXCEPT ![1].key = Length(Sibling(nodes[n]))]
                 /\ pc' = "sink"
              \/ /\ ~(HasCandidate(Moved(nodes[n])) /\ AddToHeap(Sibling(nodes[n])))
                 /\ heap' = WithoutRoot(heap) /\ nodes' = nodes /\ pc' = "sink"
  <1>1. heap # <<>> /\ n \in 1 .. Len(nodes)
    <2>1. heap # <<>> /\ 1 \in 1 .. Len(heap)
      <3>1. heap \in Seq(Entry) /\ heap # <<>>
        BY DEF TypeInv, Visit
      <3> QED BY <3>1, EmptySeq
    <2> QED BY <2>1 DEF TypeInv
  <1>2. nodes[n] \in Node
    BY <1>1, ElementOfSeq DEF TypeInv
  <1>3. records' = Recorded(nodes[n]) /\ saved' = nodes[n].path /\ at' = 1
    BY DEF Visit
  <1>4. Sibling(nodes[n]) = [nodes[n].path EXCEPT ![Len(nodes[n].path)] =
                                 Candidate(Moved(nodes[n]))]
    BY DEF Sibling
  <1>5. CASE Full(records')
    BY <1>1, <1>2, <1>3, <1>5 DEF Visit
  <1>6. CASE ~Full(records') /\ HasCandidate(Moved(nodes[n])) /\ AddToHeap(Sibling(nodes[n]))
    BY <1>1, <1>2, <1>3, <1>6, Zenon DEF Visit, Renewed, Moved, Sibling
  <1>7. CASE ~Full(records')
             /\ ~(HasCandidate(Moved(nodes[n])) /\ AddToHeap(Sibling(nodes[n])))
    BY <1>1, <1>2, <1>3, <1>7, Zenon DEF Visit, Moved, Sibling
  <1> QED BY <1>5, <1>6, <1>7

\* A path found is recorded or not.
LEMMA RecordedType ==
    ASSUME TypeInv, NEW node \in Node
    PROVE  Recorded(node) \in Seq(Seq(Atoms) \ {<<>>})
  <1>1. node.path \in Seq(Atoms) \ {<<>>}
    BY NodeType DEF Paths
  <1> QED BY <1>1 DEF Recorded, TypeInv

\* A visit keeps the types.
LEMMA TypeVisit == TypeInv /\ Visit => TypeInv'
  <1> SUFFICES ASSUME TypeInv, Visit PROVE TypeInv'
    OBVIOUS
  <1>1. input' = input /\ input \in Inputs /\ rows' = rows /\ complete' = complete
        /\ pc = "visit"
    BY DEF TypeInv, Visit
  <1> DEFINE n == heap[1].node
             node == nodes[n]
  <1>2. /\ heap # <<>> /\ n \in 1 .. Len(nodes) /\ node \in Node
        /\ records' = Recorded(node) /\ saved' = node.path /\ at' = 1
    BY VisitIs
  <1>3. records' \in Seq(Seq(Atoms) \ {<<>>})
    BY <1>2, RecordedType
  <1>4. saved' \in Paths /\ saved' \in Seq(Atoms)
    BY <1>2, NodeType DEF Paths
  <1>5. heap \in Seq(Entry) /\ nodes \in Seq(Node)
        /\ \A i \in 1 .. Len(heap) : heap[i].node \in 1 .. Len(nodes)
    BY DEF TypeInv
  <1>6. /\ nodes' \in Seq(Node)
        /\ heap' \in Seq(Entry)
        /\ \A i \in 1 .. Len(heap') : heap'[i].node \in 1 .. Len(nodes')
        /\ pc' \in {"sink", "done"}
    <2>1. CASE pc' = "done" /\ nodes' = nodes /\ heap' = heap
      BY <1>5, <2>1
    <2>2. CASE /\ HasCandidate(Moved(node)) /\ AddToHeap(Sibling(node))
               /\ nodes' = [nodes EXCEPT ![n] = Renewed(node)]
               /\ heap' = [heap EXCEPT ![1].key = Length(Sibling(node))]
               /\ pc' = "sink"
      <3>1. Renewed(node) \in Node /\ Sibling(node) \in Paths
        BY <1>1, <1>2, <2>2, RenewedIs
      <3>2. Length(Sibling(node)) \in Nat
        BY <1>1, <3>1, LengthType DEF Paths
      <3>3. nodes' \in Seq(Node) /\ Len(nodes') = Len(nodes)
        BY <1>2, <1>5, <2>2, <3>1, ExceptSeq
      <3>4. 1 \in 1 .. Len(heap) /\ heap[1] \in Entry
        BY <1>2, <1>5, EmptySeq, ElementOfSeq
      <3> DEFINE e == [heap[1] EXCEPT !.key = Length(Sibling(node))]
      <3>5. e \in Entry /\ e.node = heap[1].node
        BY <3>2, <3>4 DEF Entry
      <3>6. heap' = [heap EXCEPT ![1] = e]
        BY <2>2
      <3> HIDE DEF e
      <3>7. /\ heap' \in Seq(Entry) /\ Len(heap') = Len(heap)
            /\ \A j \in 1 .. Len(heap) : heap'[j] = IF j = 1 THEN e ELSE heap[j]
        BY <1>5, <3>4, <3>5, <3>6, ExceptSeq
      <3> QED BY <1>5, <2>2, <3>3, <3>5, <3>7
    <2>3. CASE heap' = WithoutRoot(heap) /\ nodes' = nodes /\ pc' = "sink"
      <3>1. /\ heap' \in Seq(Entry) /\ Len(heap') = Len(heap) - 1
            /\ Len(heap) > 1 => heap'[1] = heap[Len(heap)]
            /\ \A i \in 2 .. Len(heap) - 1 : heap'[i] = heap[i]
        BY <1>2, <1>5, <2>3, WithoutRootIs
      <3>2. \A i \in 1 .. Len(heap') : \E j \in 1 .. Len(heap) : heap'[i] = heap[j]
        BY <1>5, <3>1
      <3> QED BY <1>5, <2>3, <3>1, <3>2
    <2> QED BY <2>1, <2>2, <2>3, VisitIs
  <1> HIDE DEF n, node
  <1>7. rows \in [Sources -> Seq(Atoms)] /\ \A s \in Sources : rows[s] \in Rows(s)
    BY <1>1 DEF TypeInv
  <1>8. complete \in BOOLEAN
    BY DEF TypeInv
  <1> QED BY <1>1, <1>2, <1>3, <1>4, <1>6, <1>7, <1>8, SameInput DEF TypeInv, Steps

\* A swap of two positions keeps the entries.
LEMMA SwapType ==
    ASSUME TypeInv, NEW i \in 1 .. Len(heap), NEW j \in 1 .. Len(heap), i # j
    PROVE  /\ Swap(heap, i, j) \in Seq(Entry) /\ Len(Swap(heap, i, j)) = Len(heap)
           /\ \A k \in 1 .. Len(heap) : Swap(heap, i, j)[k].node \in 1 .. Len(nodes)
  <1>1. heap \in Seq(Entry) /\ \A k \in 1 .. Len(heap) : heap[k].node \in 1 .. Len(nodes)
    BY DEF TypeInv
  <1> DEFINE h == Swap(heap, i, j)
  <1>2. /\ h \in Seq(Entry) /\ Len(h) = Len(heap) /\ h[i] = heap[j] /\ h[j] = heap[i]
        /\ \A k \in 1 .. Len(heap) : k \notin {i, j} => h[k] = heap[k]
    BY <1>1, SwapIs, ZenonT(30)
  <1> HIDE DEF h
  <1>3. \A k \in 1 .. Len(heap) : h[k].node \in 1 .. Len(nodes)
    BY <1>1, <1>2
  <1> QED BY <1>2, <1>3 DEF h

\* A step of the sinking keeps the types.
LEMMA TypeSink == TypeInv /\ Sink => TypeInv'
  <1> SUFFICES ASSUME TypeInv, Sink PROVE TypeInv'
    OBVIOUS
  <1>1. /\ input' = input /\ rows' = rows /\ nodes' = nodes /\ records' = records
        /\ saved' = saved /\ complete' = complete /\ pc = "sink" /\ at \in Int /\ at >= 1
    BY DEF TypeInv, Sink
  <1>2. CASE 2 * at <= Len(heap) /\ heap[at].key > heap[SmallerChild(at)].key
    <2>1. heap' = Swap(heap, at, SmallerChild(at)) /\ at' = SmallerChild(at) /\ pc' = pc
      BY <1>2 DEF Sink
    <2>2. heap \in Seq(Entry) /\ at \in 1 .. Len(heap)
      BY <1>1, <1>2 DEF TypeInv
    <2>3. SmallerChild(at) \in 1 .. Len(heap) /\ SmallerChild(at) > at
      BY <1>1, <1>2, <2>2, SmallerChildIs
    <2>4. /\ heap' \in Seq(Entry) /\ Len(heap') = Len(heap)
          /\ \A k \in 1 .. Len(heap) : heap'[k].node \in 1 .. Len(nodes)
      BY <2>1, <2>2, <2>3, SwapType
    <2>5. at' \in Int /\ at' >= 1
      BY <1>1, <2>1, <2>3
    <2> QED BY <1>1, <2>1, <2>4, <2>5, SameInput DEF TypeInv, Steps
  <1>3. CASE ~(2 * at <= Len(heap) /\ heap[at].key > heap[SmallerChild(at)].key)
    <2>1. heap' = heap /\ at' = at /\ pc' = "extend"
      BY <1>3 DEF Sink
    <2> QED BY <1>1, <2>1, SameInput DEF TypeInv, Steps
  <1> QED BY <1>2, <1>3

\* A step of the rising keeps the types.
LEMMA TypeRise == TypeInv /\ Rise => TypeInv'
  <1> SUFFICES ASSUME TypeInv, Rise PROVE TypeInv'
    OBVIOUS
  <1>1. /\ input' = input /\ rows' = rows /\ nodes' = nodes /\ records' = records
        /\ saved' = saved /\ complete' = complete /\ pc = "rise" /\ at \in 1 .. Len(heap)
    BY DEF TypeInv, Rise
  <1>2. CASE at > 1 /\ heap[at].key < heap[Parent(at)].key
    <2>1. heap' = Swap(heap, at, Parent(at)) /\ at' = Parent(at) /\ pc' = pc
      BY <1>2 DEF Rise
    <2>2. Parent(at) \in 1 .. Len(heap) /\ Parent(at) # at
      <3>1. at \in Nat /\ at >= 2 /\ at <= Len(heap)
        BY <1>1, <1>2 DEF TypeInv
      <3>2. Parent(at) \in Nat /\ Parent(at) >= 1 /\ Parent(at) < at
        BY <3>1, ParentIs
      <3>3. Len(heap) \in Nat
        BY DEF TypeInv
      <3> QED BY <3>1, <3>2, <3>3
    <2>3. /\ heap' \in Seq(Entry) /\ Len(heap') = Len(heap)
          /\ \A k \in 1 .. Len(heap) : heap'[k].node \in 1 .. Len(nodes)
      BY <1>1, <2>1, <2>2, SwapType
    <2>4. at' \in 1 .. Len(heap') /\ at' \in Int
      BY <2>1, <2>2, <2>3
    <2> QED BY <1>1, <2>1, <2>3, <2>4, SameInput DEF TypeInv, Steps
  <1>3. CASE ~(at > 1 /\ heap[at].key < heap[Parent(at)].key)
    <2>1. heap' = heap /\ at' = at /\ pc' = "visit"
      BY <1>3 DEF Rise
    <2> QED BY <1>1, <2>1, SameInput DEF TypeInv, Steps
  <1> QED BY <1>2, <1>3

\* The first child of a path.
Child(path) == Append(path, rows[Last(path)][1])

\* The first child of a path ends with the first entry of its last atom's row.
LEMMA ChildIs ==
    ASSUME TypeInv, pc # "prepare", NEW p \in Paths
    PROVE  /\ Last(p) \in Atoms /\ rows[Last(p)][1] \in Atoms
           /\ Child(p) \in Seq(Atoms) /\ Child(p) # <<>> /\ Len(Child(p)) = Len(p) + 1
           /\ Last(Child(p)) = rows[Last(p)][1]
           /\ \A i \in 1 .. Len(p) : Child(p)[i] = p[i]
           /\ Len(p) < input.maxAtoms => Child(p) \in Paths
  <1>1. p \in Seq(Atoms) /\ Len(p) \in Nat /\ Len(p) >= 1
    BY EmptySeq DEF Paths
  <1>2. Last(p) \in Atoms
    BY <1>1, ElementOfSeq DEF Last
  <1>3. rows[Last(p)][1] \in Atoms
    BY <1>2, RowIs, AtomsType DEF TypeInv, Sources
  <1>4. /\ Child(p) \in Seq(Atoms) /\ Len(Child(p)) = Len(p) + 1
        /\ Child(p)[Len(p) + 1] = rows[Last(p)][1]
        /\ \A i \in 1 .. Len(p) : Child(p)[i] = p[i]
    BY <1>1, <1>3, AppendProperties DEF Child
  <1>5. Child(p) # <<>>
    BY <1>1, <1>4
  <1>6. Len(p) < input.maxAtoms => Len(Child(p)) <= input.maxAtoms
    BY <1>1, <1>4, AtomsType DEF TypeInv
  <1> QED BY <1>2, <1>3, <1>4, <1>5, <1>6 DEF Paths, Last

\* An extension, case by case.
LEMMA ExtendIs ==
    ASSUME TypeInv, Extend
    PROVE  /\ saved \in Paths
           /\ \/ /\ Len(saved) < input.maxAtoms /\ Child(saved) \in Paths
                 /\ AddToHeap(Child(saved))
                 /\ \E node \in Node :
                       /\ node.path = Child(saved) /\ node.source = Last(saved)
                       /\ node.column = 0 /\ node.keep = KeepForOutput(Child(saved))
                       /\ nodes' = Append(nodes, node)
                 /\ [key |-> Length(Child(saved)), node |-> Len(nodes) + 1] \in Entry
                 /\ heap' = Append(heap, [key |-> Length(Child(saved)), node |-> Len(nodes) + 1])
                 /\ at' = Len(heap) + 1
                 /\ pc' = "rise"
              \/ /\ ~(Len(saved) < input.maxAtoms /\ AddToHeap(Child(saved)))
                 /\ nodes' = nodes /\ heap' = heap /\ at' = at /\ pc' = "visit"
  <1>1. saved \in Paths /\ pc = "extend" /\ input \in Inputs
        /\ nodes \in Seq(Node) /\ heap \in Seq(Entry)
    BY DEF TypeInv, Extend
  <1>2. CASE Len(saved) < input.maxAtoms /\ AddToHeap(Child(saved))
    <2> DEFINE node == [path |-> Child(saved), source |-> Last(saved),
                        column |-> 0, keep |-> KeepForOutput(Child(saved))]
               entry == [key |-> Length(Child(saved)), node |-> Len(nodes) + 1]
    <2>1. nodes' = Append(nodes, node)
      BY <1>2 DEF Extend, Child
    <2>2. /\ heap' = Append(heap, [key |-> Length(Child(saved)), node |-> Len(nodes')])
          /\ at' = Len(heap')
          /\ pc' = "rise"
      BY <1>2 DEF Extend, Child
    <2>3. Child(saved) \in Paths /\ Last(saved) \in Sources
      BY <1>1, <1>2, ChildIs DEF Sources
    <2>4. 0 \in 0 .. input.atoms - 2
      BY <1>1, AtomsType
    <2>5. node \in Node
      BY <2>3, <2>4, KeepType DEF Node
    <2>6. entry \in Entry
      <3>1. Length(Child(saved)) \in Nat
        BY <1>1, <2>3, LengthType DEF Paths
      <3> QED BY <1>1, <3>1 DEF Entry
    <2>7. /\ node.path = Child(saved) /\ node.source = Last(saved) /\ node.column = 0
          /\ node.keep = KeepForOutput(Child(saved))
      OBVIOUS
    <2> HIDE DEF node
    <2>8. Len(nodes') = Len(nodes) + 1
      BY <1>1, <2>1, <2>5, AppendProperties
    <2>9. heap' = Append(heap, entry)
      BY <2>2, <2>8
    <2> HIDE DEF entry
    <2>10. at' = Len(heap) + 1
      BY <1>1, <2>2, <2>6, <2>9, AppendProperties
    <2>11. \E x \in Node : /\ x.path = Child(saved) /\ x.source = Last(saved)
                           /\ x.column = 0 /\ x.keep = KeepForOutput(Child(saved))
                           /\ nodes' = Append(nodes, x)
      BY <2>1, <2>5, <2>7
    <2> QED BY <1>1, <1>2, <2>2, <2>3, <2>6, <2>9, <2>10, <2>11 DEF entry
  <1>3. CASE ~(Len(saved) < input.maxAtoms /\ AddToHeap(Child(saved)))
    BY <1>1, <1>3 DEF Extend, Child
  <1> QED BY <1>2, <1>3

\* An extension keeps the types.
LEMMA TypeExtend == TypeInv /\ Extend => TypeInv'
  <1> SUFFICES ASSUME TypeInv, Extend PROVE TypeInv'
    OBVIOUS
  <1>1. /\ input' = input /\ rows' = rows /\ records' = records
        /\ saved' = saved /\ complete' = complete /\ pc = "extend" /\ at \in Int
    BY DEF TypeInv, Extend
  <1>2. /\ heap \in Seq(Entry) /\ nodes \in Seq(Node)
        /\ Len(heap) \in Nat /\ Len(nodes) \in Nat
        /\ \A i \in 1 .. Len(heap) : heap[i].node \in 1 .. Len(nodes)
    BY DEF TypeInv
  <1> DEFINE entry == [key |-> Length(Child(saved)), node |-> Len(nodes) + 1]
  <1>3. CASE /\ \E node \in Node : nodes' = Append(nodes, node)
             /\ entry \in Entry /\ heap' = Append(heap, entry)
             /\ at' = Len(heap) + 1
             /\ pc' = "rise"
    <2>1. PICK node \in Node : nodes' = Append(nodes, node)
      BY <1>3
    <2>2. nodes' \in Seq(Node) /\ Len(nodes') = Len(nodes) + 1
      BY <1>2, <2>1, AppendProperties
    <2>3. entry.node = Len(nodes) + 1
      OBVIOUS
    <2> HIDE DEF entry
    <2>4. /\ heap' \in Seq(Entry) /\ Len(heap') = Len(heap) + 1
          /\ heap'[Len(heap) + 1] = entry
          /\ \A i \in 1 .. Len(heap) : heap'[i] = heap[i]
      BY <1>2, <1>3, AppendProperties
    <2>5. \A i \in 1 .. Len(heap') : heap'[i].node \in 1 .. Len(nodes')
      <3> SUFFICES ASSUME NEW i \in 1 .. Len(heap')
                   PROVE  heap'[i].node \in 1 .. Len(nodes')
        OBVIOUS
      <3>1. i = Len(heap) + 1 \/ i \in 1 .. Len(heap)
        BY <1>2, <2>4
      <3>2. CASE i = Len(heap) + 1
        BY <1>2, <2>2, <2>3, <2>4, <3>2
      <3>3. CASE i \in 1 .. Len(heap)
        <4>1. heap'[i] = heap[i] /\ heap[i].node \in 1 .. Len(nodes)
          BY <1>2, <2>4, <3>3
        <4> QED BY <1>2, <2>2, <4>1
      <3> QED BY <3>1, <3>2, <3>3
    <2>6. at' \in 1 .. Len(heap') /\ at' \in Int
      BY <1>2, <1>3, <2>4
    <2> QED BY <1>1, <1>3, <2>2, <2>4, <2>5, <2>6, SameInput DEF TypeInv, Steps
  <1>4. CASE nodes' = nodes /\ heap' = heap /\ at' = at /\ pc' = "visit"
    BY <1>1, <1>4, SameInput DEF TypeInv, Steps
  <1> QED BY <1>3, <1>4, ExtendIs

\* Exhaustion keeps the types.
LEMMA TypeExhaust == TypeInv /\ Exhaust => TypeInv'
  <1> SUFFICES ASSUME TypeInv, Exhaust PROVE TypeInv'
    OBVIOUS
  <1>1. input' = input /\ pc = "visit"
    BY DEF Exhaust
  <1> QED BY <1>1, SameInput DEF TypeInv, Exhaust, Steps

\* Every step keeps the types.
LEMMA TypeStep == TypeInv /\ [Next]_vars => TypeInv'
  <1> SUFFICES ASSUME TypeInv, [Next]_vars PROVE TypeInv'
    OBVIOUS
  <1>1. CASE UNCHANGED vars
    <2>1. input' = input
      BY <1>1 DEF vars
    <2> QED BY <1>1, <2>1, SameInput DEF TypeInv, vars
  <1> QED BY <1>1, TypePrepare, TypeBegin, TypeVisit, TypeSink, TypeExtend, TypeRise,
             TypeExhaust DEF Next

\* Every variable of the search keeps its type, for any cluster and any limits:
\* candidates are paths of known atoms, no longer than allowed, at a column
\* before the excluded atom, and the heap refers to candidates that exist.
THEOREM TypeCorrect == Spec => []TypeOK
  <1>1. TypeInv => TypeOK
    <2> SUFFICES ASSUME TypeInv PROVE TypeOK
      OBVIOUS
    <2>1. \A s \in Atoms \cup {Start} :
             rows[s] = <<>> \/ rows[s] \in [1 .. input.atoms -> Atoms]
      BY RowType DEF TypeInv, Sources
    <2>2. \A n \in DOMAIN nodes :
             /\ nodes[n].path \in Seq(Atoms) /\ Len(nodes[n].path) \in 1 .. input.maxAtoms
             /\ nodes[n].source \in Atoms \cup {Start}
             /\ nodes[n].column \in 0 .. input.atoms - 2
             /\ nodes[n].keep \in BOOLEAN
      <3> SUFFICES ASSUME NEW n \in DOMAIN nodes
                   PROVE  /\ nodes[n].path \in Seq(Atoms)
                          /\ Len(nodes[n].path) \in 1 .. input.maxAtoms
                          /\ nodes[n].source \in Atoms \cup {Start}
                          /\ nodes[n].column \in 0 .. input.atoms - 2
                          /\ nodes[n].keep \in BOOLEAN
        OBVIOUS
      <3>1. nodes[n] \in Node
        BY ElementOfSeq DEF TypeInv
      <3>2. /\ nodes[n].path \in Paths /\ nodes[n].source \in Sources
            /\ nodes[n].column \in 0 .. input.atoms - 2 /\ nodes[n].keep \in BOOLEAN
        BY <3>1, NodeType
      <3>3. /\ nodes[n].path \in Seq(Atoms) /\ nodes[n].path # <<>>
            /\ Len(nodes[n].path) <= input.maxAtoms
        BY <3>2 DEF Paths
      <3>4. Len(nodes[n].path) \in 1 .. input.maxAtoms
        BY <3>3, EmptySeq, AtomsType DEF TypeInv
      <3> QED BY <3>2, <3>3, <3>4 DEF Sources
    <2>3. \A i \in DOMAIN heap : heap[i].key \in Nat /\ heap[i].node \in DOMAIN nodes
      <3>1. DOMAIN heap = 1 .. Len(heap) /\ DOMAIN nodes = 1 .. Len(nodes)
        BY DEF TypeInv
      <3> QED BY <3>1, EntryType DEF TypeInv
    <2>4. records \in Seq(Seq(Atoms))
      BY DEF TypeInv
    <2> QED BY <2>1, <2>2, <2>3, <2>4 DEF TypeInv, TypeOK
  <1> QED BY <1>1, TypeInit, TypeStep, PTL DEF Spec

-----------------------------------------------------------------------------
\* The order of the heap

Ordered(h) == \A i \in 2 .. Len(h) : h[Parent(i)].key <= h[i].key

\* In order but for the entry at a, which may be too large for its place: its
\* children may be smaller than it but not than its parent.
Sinking(h, a) ==
    \A i \in 2 .. Len(h) :
        IF Parent(i) = a THEN a > 1 => h[Parent(a)].key <= h[i].key
                         ELSE h[Parent(i)].key <= h[i].key

\* In order but for the entry at a, which may be too small for its place.
Rising(h, a) ==
    \A i \in 2 .. Len(h) :
        /\ i # a => h[Parent(i)].key <= h[i].key
        /\ Parent(i) = a /\ a > 1 => h[Parent(a)].key <= h[i].key

\* A parent is a position before its child.
LEMMA ParentPosition ==
    ASSUME NEW n \in Nat, NEW i \in 2 .. n
    PROVE  Parent(i) \in 1 .. n /\ Parent(i) < i
  <1>1. i \in Nat /\ i >= 2 /\ i <= n
    OBVIOUS
  <1> QED BY <1>1, ParentIs

\* Swapping a too large entry with its smaller child moves the exception down.
LEMMA SinkSwap ==
    ASSUME NEW h \in Seq(Entry), NEW a \in 1 .. Len(h), NEW c \in 2 .. Len(h),
           Parent(c) = a, Sinking(h, a), h[c].key < h[a].key,
           \A i \in 2 .. Len(h) : Parent(i) = a => h[c].key <= h[i].key
    PROVE  Sinking(Swap(h, a, c), c)
  <1> DEFINE g == Swap(h, a, c)
  <1>1. Len(h) \in Nat /\ a < c /\ a # c /\ c \in 1 .. Len(h)
    BY ParentPosition
  <1>2. /\ Len(g) = Len(h) /\ g[a] = h[c] /\ g[c] = h[a]
        /\ \A k \in 1 .. Len(h) : k # a /\ k # c => g[k] = h[k]
    BY <1>1, SwapIs
  <1> HIDE DEF g
  <1>3. \A k \in 1 .. Len(h) : h[k].key \in Nat
    BY EntryType
  <1>4. SUFFICES ASSUME NEW i \in 2 .. Len(h)
                 PROVE  IF Parent(i) = c THEN c > 1 => g[Parent(c)].key <= g[i].key
                                         ELSE g[Parent(i)].key <= g[i].key
    BY <1>2 DEF Sinking, g
  <1>5. i \in 1 .. Len(h) /\ Parent(i) \in 1 .. Len(h) /\ Parent(i) < i
    BY <1>1, ParentPosition
  <1>6. IF Parent(i) = a THEN a > 1 => h[Parent(a)].key <= h[i].key
                         ELSE h[Parent(i)].key <= h[i].key
    BY DEF Sinking
  <1>7. CASE Parent(i) = c
    <2>1. i # a /\ i # c /\ c # a
      BY <1>1, <1>5, <1>7
    <2>2. g[i] = h[i] /\ g[Parent(c)] = h[c] /\ h[c].key <= h[i].key
      BY <1>2, <1>5, <1>6, <1>7, <2>1
    <2> QED BY <1>7, <2>2
  <1>8. CASE i = c
    <2>1. g[Parent(i)] = h[c] /\ g[i] = h[a] /\ Parent(i) # c
      BY <1>1, <1>2, <1>8
    <2> QED BY <1>1, <1>3, <2>1
  <1>9. CASE Parent(i) = a /\ i # c
    <2>1. i # a /\ g[i] = h[i] /\ g[Parent(i)] = h[c]
      BY <1>2, <1>5, <1>9
    <2>2. h[c].key <= h[i].key
      BY <1>9
    <2> QED BY <1>1, <1>9, <2>1, <2>2
  <1>10. CASE i = a
    <2>1. a > 1 /\ a \in 2 .. Len(h) /\ Parent(a) # a /\ Parent(a) # c /\ Parent(i) # c
      BY <1>1, <1>5, <1>10
    <2>2. g[Parent(a)] = h[Parent(a)] /\ g[a] = h[c]
      BY <1>2, <1>5, <1>10, <2>1
    <2>3. h[Parent(a)].key <= h[c].key
      BY <2>1 DEF Sinking
    <2> QED BY <1>10, <2>1, <2>2, <2>3
  <1>11. CASE i # a /\ i # c /\ Parent(i) # a /\ Parent(i) # c
    <2>1. g[i] = h[i] /\ g[Parent(i)] = h[Parent(i)]
      BY <1>2, <1>5, <1>11
    <2> QED BY <1>6, <1>11, <2>1
  <1> QED BY <1>7, <1>8, <1>9, <1>10, <1>11

\* Swapping a too small entry with its parent moves the exception up.
LEMMA RiseSwap ==
    ASSUME NEW h \in Seq(Entry), NEW a \in 2 .. Len(h), NEW p, p = Parent(a),
           Rising(h, a), h[a].key < h[p].key
    PROVE  Rising(Swap(h, a, p), p)
  <1> DEFINE g == Swap(h, a, p)
  <1>1. Len(h) \in Nat /\ p \in 1 .. Len(h) /\ p < a /\ p # a /\ a \in 1 .. Len(h) /\ a > 1
    BY ParentPosition
  <1>2. /\ Len(g) = Len(h) /\ g[a] = h[p] /\ g[p] = h[a]
        /\ \A k \in 1 .. Len(h) : k # a /\ k # p => g[k] = h[k]
    BY <1>1, SwapIs
  <1> HIDE DEF g
  <1>3. \A k \in 1 .. Len(h) : h[k].key \in Nat
    BY EntryType
  <1>4. SUFFICES ASSUME NEW i \in 2 .. Len(h)
                 PROVE  /\ i # p => g[Parent(i)].key <= g[i].key
                        /\ Parent(i) = p /\ p > 1 => g[Parent(p)].key <= g[i].key
    BY <1>2 DEF Rising, g
  <1>5. i \in 1 .. Len(h) /\ Parent(i) \in 1 .. Len(h) /\ Parent(i) < i
    BY <1>1, ParentPosition
  <1>6. /\ i # a => h[Parent(i)].key <= h[i].key
        /\ Parent(i) = a => h[p].key <= h[i].key
    BY <1>1 DEF Rising
  <1>7. ASSUME i # p PROVE g[Parent(i)].key <= g[i].key
    <2>1. CASE i = a
      <3>1. g[Parent(i)] = h[a] /\ g[i] = h[p]
        BY <1>2, <2>1
      <3> QED BY <1>1, <1>3, <3>1
    <2>2. CASE Parent(i) = p /\ i # a
      <3>1. g[i] = h[i] /\ g[Parent(i)] = h[a] /\ h[p].key <= h[i].key
        BY <1>2, <1>5, <1>6, <1>7, <2>2
      <3> QED BY <1>1, <1>3, <1>5, <3>1
    <2>3. CASE Parent(i) = a
      <3>1. i # a /\ g[i] = h[i] /\ g[Parent(i)] = h[p]
        BY <1>2, <1>5, <1>7, <2>3
      <3> QED BY <1>6, <2>3, <3>1
    <2>4. CASE i # a /\ Parent(i) # p /\ Parent(i) # a
      <3>1. g[i] = h[i] /\ g[Parent(i)] = h[Parent(i)]
        BY <1>2, <1>5, <1>7, <2>4
      <3> QED BY <1>6, <2>4, <3>1
    <2> QED BY <2>1, <2>2, <2>3, <2>4
  <1>8. ASSUME Parent(i) = p, p > 1 PROVE g[Parent(p)].key <= g[i].key
    <2>1. p \in 2 .. Len(h) /\ Parent(p) \in 1 .. Len(h) /\ Parent(p) < p
      BY <1>1, <1>8, ParentPosition
    <2>2. g[Parent(p)] = h[Parent(p)]
      BY <1>1, <1>2, <2>1
    <2>3. h[Parent(p)].key <= h[p].key
      BY <1>1, <2>1 DEF Rising
    <2>4. CASE i = a
      <3>1. g[i] = h[p]
        BY <1>2, <2>4
      <3> QED BY <2>2, <2>3, <3>1
    <2>5. CASE i # a
      <3>1. g[i] = h[i] /\ h[p].key <= h[i].key
        BY <1>2, <1>5, <1>6, <1>8, <2>5
      <3>2. /\ h[Parent(p)].key \in Nat /\ h[p].key \in Nat /\ h[i].key \in Nat
        BY <1>1, <1>3, <1>5, <2>1
      <3> QED BY <2>2, <2>3, <3>1, <3>2
    <2> QED BY <2>4, <2>5
  <1> QED BY <1>7, <1>8

\* An entry none of whose children is smaller has sunk.
LEMMA Sunk ==
    ASSUME NEW h \in Seq(Entry), NEW a, Sinking(h, a),
           \A i \in 2 .. Len(h) : Parent(i) = a => h[a].key <= h[i].key
    PROVE  Ordered(h)
  BY DEF Sinking, Ordered

\* An entry that is not smaller than its parent has risen.
LEMMA Risen ==
    ASSUME NEW h \in Seq(Entry), NEW a, Rising(h, a),
           a \in 2 .. Len(h) => h[Parent(a)].key <= h[a].key
    PROVE  Ordered(h)
  BY DEF Rising, Ordered

\* A key is the length of its node's path, and no node is on the heap twice.
Keyed ==
    \A i \in 1 .. Len(heap) :
        /\ heap[i].key = Length(nodes[heap[i].node].path)
        /\ \A j \in 1 .. Len(heap) : i # j => heap[i].node # heap[j].node

HeapInv ==
    /\ Keyed
    /\ pc \in {"prepare", "begin"} => heap = <<>>
    /\ pc \in {"visit", "extend"} => Ordered(heap)
    /\ pc = "sink" => Sinking(heap, at)
    /\ pc = "rise" => Rising(heap, at)

\* The heap is empty initially.
LEMMA HeapInit == Init => HeapInv
  BY DEF Init, HeapInv, Keyed

\* Beginning keeps the heap in order but for the entry that moves.
LEMMA HeapBegin == TypeInv /\ HeapInv /\ Begin => HeapInv'
  <1> SUFFICES ASSUME TypeInv, HeapInv, Begin PROVE HeapInv'
    OBVIOUS
  <1> DEFINE first == <<rows[Start][1]>>
             node == [path |-> first, source |-> Start, column |-> 0,
                      keep |-> KeepForOutput(first)]
  <1>1. input' = input
    BY DEF Begin
  <1>2. CASE input.maxRecords > 0 /\ AddToHeap(first)
    <2>1. nodes' = <<node>> /\ heap' = <<[key |-> Length(first), node |-> 1]>> /\ pc' = "visit"
      BY <1>2 DEF Begin
    <2>2. node.path = first
      OBVIOUS
    <2> HIDE DEF first, node
    <2>3. /\ Len(heap') = 1 /\ heap'[1].key = Length(first) /\ heap'[1].node = 1
          /\ nodes'[1] = node
      BY <2>1
    <2>4. Keyed'
      BY <1>1, <2>2, <2>3, SameInput DEF Keyed
    <2>5. Ordered(heap')
      BY <2>3 DEF Ordered
    <2> QED BY <2>1, <2>4, <2>5 DEF HeapInv
  <1>3. CASE ~(input.maxRecords > 0 /\ AddToHeap(first))
    <2>1. nodes' = nodes /\ heap' = heap /\ pc' = "done"
      BY <1>3 DEF Begin
    <2>2. heap' = <<>>
      BY <2>1 DEF Begin, HeapInv
    <2> QED BY <2>1, <2>2 DEF HeapInv, Keyed
  <1> QED BY <1>2, <1>3

\* A visit keeps the heap in order but for the entry that moves.
LEMMA HeapVisit == TypeInv /\ HeapInv /\ Visit => HeapInv'
  <1> SUFFICES ASSUME TypeInv, HeapInv, Visit PROVE HeapInv'
    OBVIOUS
  <1> DEFINE n == heap[1].node
             node == nodes[n]
  <1>1. input' = input /\ input \in Inputs /\ pc = "visit" /\ Ordered(heap) /\ Keyed
    BY DEF TypeInv, HeapInv, Visit
  <1>2. heap # <<>> /\ n \in 1 .. Len(nodes) /\ node \in Node /\ at' = 1
    BY VisitIs
  <1>3. heap \in Seq(Entry) /\ nodes \in Seq(Node)
        /\ \A i \in 1 .. Len(heap) : heap[i].node \in 1 .. Len(nodes)
    BY DEF TypeInv
  <1>4. Len(heap) \in Nat /\ Len(heap) >= 1
    BY <1>2, <1>3, EmptySeq
  <1>5. CASE pc' = "done" /\ nodes' = nodes /\ heap' = heap
    BY <1>1, <1>5, SameInput DEF HeapInv, Keyed
  <1>6. CASE /\ HasCandidate(Moved(node)) /\ AddToHeap(Sibling(node))
             /\ nodes' = [nodes EXCEPT ![n] = Renewed(node)]
             /\ heap' = [heap EXCEPT ![1].key = Length(Sibling(node))]
             /\ pc' = "sink"
    <2>1. Renewed(node) \in Node /\ Renewed(node).path = Sibling(node)
      BY <1>1, <1>2, <1>6, RenewedIs
    <2>2. /\ nodes'[n].path = Sibling(node)
          /\ \A m \in 1 .. Len(nodes) : m # n => nodes'[m] = nodes[m]
      BY <1>2, <1>3, <1>6, <2>1
    <2>3. heap[1] \in Entry
      BY <1>3, <1>4, ElementOfSeq
    <2>4. /\ Len(heap') = Len(heap)
          /\ heap'[1].key = Length(Sibling(node)) /\ heap'[1].node = n
          /\ \A i \in 2 .. Len(heap) : heap'[i] = heap[i]
      BY <1>3, <1>4, <1>6, <2>3 DEF Entry
    <2>5. \A i \in 2 .. Len(heap) : heap[i].node # n
      BY <1>1, <1>4 DEF Keyed
    <2>6. Keyed'
      <3> SUFFICES ASSUME NEW i \in 1 .. Len(heap), NEW j \in 1 .. Len(heap)
                   PROVE  /\ heap'[i].key = Length(nodes'[heap'[i].node].path)
                          /\ i # j => heap'[i].node # heap'[j].node
        BY <1>1, <2>4, SameInput DEF Keyed
      <3>1. i = 1 \/ i \in 2 .. Len(heap)
        BY <1>4
      <3>2. heap'[i].key = Length(nodes'[heap'[i].node].path)
        BY <1>1, <1>3, <2>2, <2>4, <2>5, <3>1 DEF Keyed
      <3>3. \A k \in 1 .. Len(heap) : heap'[k].node = heap[k].node
        BY <1>4, <2>4
      <3> QED BY <1>1, <3>2, <3>3 DEF Keyed
    <2>7. Sinking(heap', 1)
      <3> SUFFICES ASSUME NEW i \in 2 .. Len(heap), Parent(i) # 1
                   PROVE  heap'[Parent(i)].key <= heap'[i].key
        BY <2>4 DEF Sinking
      <3>1. Parent(i) \in 2 .. Len(heap)
        BY <1>4, ParentPosition
      <3> QED BY <1>1, <2>4, <3>1 DEF Ordered
    <2> QED BY <1>2, <1>6, <2>6, <2>7 DEF HeapInv
  <1>7. CASE heap' = WithoutRoot(heap) /\ nodes' = nodes /\ pc' = "sink"
    <2>1. /\ Len(heap') = Len(heap) - 1
          /\ Len(heap) > 1 => heap'[1] = heap[Len(heap)]
          /\ \A i \in 2 .. Len(heap) - 1 : heap'[i] = heap[i]
      BY <1>2, <1>3, <1>7, WithoutRootIs
    <2>2. Keyed'
      <3> SUFFICES ASSUME NEW i \in 1 .. Len(heap'), NEW j \in 1 .. Len(heap')
                   PROVE  /\ heap'[i].key = Length(nodes[heap'[i].node].path)
                          /\ i # j => heap'[i].node # heap'[j].node
        BY <1>1, <1>7, SameInput DEF Keyed
      <3> DEFINE old(k) == IF k = 1 THEN Len(heap) ELSE k
      <3>1. \A k \in 1 .. Len(heap') : old(k) \in 1 .. Len(heap) /\ heap'[k] = heap[old(k)]
        BY <1>4, <2>1
      <3>2. i # j => old(i) # old(j)
        BY <1>4, <2>1
      <3> HIDE DEF old
      <3> QED BY <1>1, <3>1, <3>2 DEF Keyed
    <2>3. Sinking(heap', 1)
      <3> SUFFICES ASSUME NEW i \in 2 .. Len(heap) - 1, Parent(i) # 1
                   PROVE  heap'[Parent(i)].key <= heap'[i].key
        BY <2>1 DEF Sinking
      <3>1. Parent(i) \in 2 .. Len(heap) - 1 /\ i \in 2 .. Len(heap)
        BY <1>4, ParentPosition
      <3> QED BY <1>1, <2>1, <3>1 DEF Ordered
    <2> QED BY <1>2, <1>7, <2>2, <2>3 DEF HeapInv
  <1> QED BY <1>5, <1>6, <1>7, VisitIs

\* A swap moves keys and nodes together.
LEMMA KeyedSwap ==
    ASSUME TypeInv, Keyed, NEW a \in 1 .. Len(heap), NEW b \in 1 .. Len(heap), a # b,
           input' = input, nodes' = nodes, heap' = Swap(heap, a, b)
    PROVE  Keyed'
  <1>1. heap \in Seq(Entry)
    BY DEF TypeInv
  <1>2. /\ Len(heap') = Len(heap) /\ heap'[a] = heap[b] /\ heap'[b] = heap[a]
        /\ \A k \in 1 .. Len(heap) : k \notin {a, b} => heap'[k] = heap[k]
    BY <1>1, SwapIs, ZenonT(30)
  <1> DEFINE old(k) == IF k = a THEN b ELSE IF k = b THEN a ELSE k
  <1>3. \A k \in 1 .. Len(heap) : old(k) \in 1 .. Len(heap) /\ heap'[k] = heap[old(k)]
    BY <1>2
  <1>4. \A i, j \in 1 .. Len(heap) : i # j => old(i) # old(j)
    OBVIOUS
  <1> HIDE DEF old
  <1> SUFFICES ASSUME NEW i \in 1 .. Len(heap), NEW j \in 1 .. Len(heap)
               PROVE  /\ heap'[i].key = Length(nodes[heap'[i].node].path)
                      /\ i # j => heap'[i].node # heap'[j].node
    BY <1>2, SameInput DEF Keyed
  <1>5. /\ heap'[i] = heap[old(i)] /\ heap'[j] = heap[old(j)]
        /\ old(i) \in 1 .. Len(heap) /\ old(j) \in 1 .. Len(heap)
        /\ i # j => old(i) # old(j)
    BY <1>3, <1>4
  <1>6. heap[old(i)].key = Length(nodes[heap[old(i)].node].path)
    BY <1>5 DEF Keyed
  <1>7. i # j => heap[old(i)].node # heap[old(j)].node
    BY <1>5 DEF Keyed
  <1> QED BY <1>5, <1>6, <1>7

\* A step of the sinking keeps the heap in order but for the entry that moves.
LEMMA HeapSink == TypeInv /\ HeapInv /\ Sink => HeapInv'
  <1> SUFFICES ASSUME TypeInv, HeapInv, Sink PROVE HeapInv'
    OBVIOUS
  <1>1. /\ input' = input /\ nodes' = nodes /\ pc = "sink" /\ at \in Int /\ at >= 1
        /\ heap \in Seq(Entry) /\ Len(heap) \in Nat /\ Keyed /\ Sinking(heap, at)
    BY DEF TypeInv, HeapInv, Sink
  <1>2. ASSUME 2 * at <= Len(heap)
        PROVE  /\ SmallerChild(at) \in 2 .. Len(heap) /\ Parent(SmallerChild(at)) = at
               /\ at \in 1 .. Len(heap)
               /\ \A i \in 2 .. Len(heap) : Parent(i) = at =>
                     heap[SmallerChild(at)].key <= heap[i].key
    <2>1. /\ SmallerChild(at) \in 1 .. Len(heap) /\ SmallerChild(at) > at
          /\ SmallerChild(at) \in {2 * at, 2 * at + 1}
          /\ heap[SmallerChild(at)].key <= heap[2 * at].key
          /\ 2 * at + 1 <= Len(heap) => heap[SmallerChild(at)].key <= heap[2 * at + 1].key
      <3>1. at \in Nat /\ at >= 1 /\ heap \in Seq(Entry)
        BY <1>1
      <3> QED BY <1>2, <3>1, SmallerChildIs
    <2>2. Parent(SmallerChild(at)) = at
      <3>1. at \in Nat
        BY <1>1
      <3>2. Parent(2 * at) = at /\ Parent(2 * at + 1) = at
        BY <3>1, ParentOf
      <3> QED BY <2>1, <3>2
    <2>3. ASSUME NEW i \in 2 .. Len(heap), Parent(i) = at
          PROVE  heap[SmallerChild(at)].key <= heap[i].key
      <3>1. i = 2 * at \/ i = 2 * at + 1
        BY <2>3, ParentIs
      <3> QED BY <2>1, <3>1
    <2>4. SmallerChild(at) \in 2 .. Len(heap) /\ at \in 1 .. Len(heap)
      BY <1>1, <1>2, <2>1
    <2> QED BY <2>2, <2>3, <2>4
  <1>3. CASE 2 * at <= Len(heap) /\ heap[at].key > heap[SmallerChild(at)].key
    <2> DEFINE c == SmallerChild(at)
    <2>1. heap' = Swap(heap, at, c) /\ at' = c /\ pc' = "sink"
      BY <1>1, <1>3 DEF Sink
    <2>2. /\ c \in 2 .. Len(heap) /\ Parent(c) = at /\ at \in 1 .. Len(heap)
          /\ \A i \in 2 .. Len(heap) : Parent(i) = at => heap[c].key <= heap[i].key
          /\ heap[c].key < heap[at].key
      <3>1. heap[at].key \in Nat /\ heap[c].key \in Nat
        BY <1>1, <1>2, <1>3, EntryType
      <3> QED BY <1>2, <1>3, <3>1
    <2> HIDE DEF c
    <2>3. c \in 1 .. Len(heap) /\ c # at
      BY <1>1, <2>2, ParentPosition
    <2>4. Keyed'
      BY <1>1, <2>1, <2>2, <2>3, KeyedSwap
    <2>5. Sinking(heap', at')
      BY <1>1, <2>1, <2>2, SinkSwap
    <2> QED BY <2>1, <2>4, <2>5 DEF HeapInv
  <1>4. CASE ~(2 * at <= Len(heap) /\ heap[at].key > heap[SmallerChild(at)].key)
    <2>1. heap' = heap /\ at' = at /\ pc' = "extend"
      BY <1>4 DEF Sink
    <2>2. ASSUME NEW i \in 2 .. Len(heap), Parent(i) = at
          PROVE  heap[at].key <= heap[i].key
      <3>1. 2 * at <= Len(heap)
        <4>1. i = 2 * at \/ i = 2 * at + 1
          BY <2>2, ParentIs
        <4> QED BY <1>1, <4>1
      <3>2. /\ SmallerChild(at) \in 2 .. Len(heap) /\ at \in 1 .. Len(heap)
            /\ heap[SmallerChild(at)].key <= heap[i].key
        BY <1>2, <2>2, <3>1
      <3>3. /\ heap[at].key \in Nat /\ heap[i].key \in Nat
            /\ heap[SmallerChild(at)].key \in Nat
        <4>1. SmallerChild(at) \in 1 .. Len(heap) /\ i \in 1 .. Len(heap)
          BY <1>1, <3>2
        <4> QED BY <1>1, <3>2, <4>1, EntryType
      <3> QED BY <1>4, <3>1, <3>2, <3>3
    <2>3. Ordered(heap)
      BY <1>1, <2>2, Sunk
    <2> QED BY <1>1, <2>1, <2>3, SameInput DEF HeapInv, Keyed
  <1> QED BY <1>3, <1>4

\* A step of the rising keeps the heap in order but for the entry that moves.
LEMMA HeapRise == TypeInv /\ HeapInv /\ Rise => HeapInv'
  <1> SUFFICES ASSUME TypeInv, HeapInv, Rise PROVE HeapInv'
    OBVIOUS
  <1>1. /\ input' = input /\ nodes' = nodes /\ pc = "rise" /\ at \in 1 .. Len(heap)
        /\ heap \in Seq(Entry) /\ Len(heap) \in Nat /\ Keyed /\ Rising(heap, at)
    BY DEF TypeInv, HeapInv, Rise
  <1>2. CASE at > 1 /\ heap[at].key < heap[Parent(at)].key
    <2>1. heap' = Swap(heap, at, Parent(at)) /\ at' = Parent(at) /\ pc' = "rise"
      BY <1>1, <1>2 DEF Rise
    <2>2. at \in 2 .. Len(heap)
      BY <1>1, <1>2
    <2>3. Parent(at) \in 1 .. Len(heap) /\ Parent(at) # at
      BY <1>1, <2>2, ParentPosition
    <2>4. Keyed'
      BY <1>1, <2>1, <2>3, KeyedSwap
    <2>5. Rising(heap', at')
      BY <1>1, <1>2, <2>1, <2>2, RiseSwap
    <2> QED BY <2>1, <2>4, <2>5 DEF HeapInv
  <1>3. CASE ~(at > 1 /\ heap[at].key < heap[Parent(at)].key)
    <2>1. heap' = heap /\ pc' = "visit"
      BY <1>3 DEF Rise
    <2>2. ASSUME at \in 2 .. Len(heap) PROVE heap[Parent(at)].key <= heap[at].key
      <3>1. Parent(at) \in 1 .. Len(heap)
        BY <1>1, <2>2, ParentPosition
      <3>2. heap[at].key \in Nat /\ heap[Parent(at)].key \in Nat
        BY <1>1, <3>1, EntryType
      <3> QED BY <1>3, <2>2, <3>2
    <2>3. Ordered(heap)
      BY <1>1, <2>2, Risen
    <2> QED BY <1>1, <2>1, <2>3, SameInput DEF HeapInv, Keyed
  <1> QED BY <1>2, <1>3

\* An extension keeps the heap in order but for the entry that moves.
LEMMA HeapExtend == TypeInv /\ HeapInv /\ Extend => HeapInv'
  <1> SUFFICES ASSUME TypeInv, HeapInv, Extend PROVE HeapInv'
    OBVIOUS
  <1>1. /\ input' = input /\ pc = "extend" /\ heap \in Seq(Entry) /\ nodes \in Seq(Node)
        /\ Len(heap) \in Nat /\ Len(nodes) \in Nat /\ Keyed /\ Ordered(heap)
        /\ \A i \in 1 .. Len(heap) : heap[i].node \in 1 .. Len(nodes)
    BY DEF TypeInv, HeapInv, Extend
  <1> DEFINE entry == [key |-> Length(Child(saved)), node |-> Len(nodes) + 1]
  <1>2. CASE /\ \E node \in Node : /\ node.path = Child(saved)
                                   /\ nodes' = Append(nodes, node)
             /\ entry \in Entry /\ heap' = Append(heap, entry)
             /\ at' = Len(heap) + 1
             /\ pc' = "rise"
    <2>1. PICK node \in Node : node.path = Child(saved) /\ nodes' = Append(nodes, node)
      BY <1>2
    <2>2. /\ nodes'[Len(nodes) + 1] = node
          /\ \A n \in 1 .. Len(nodes) : nodes'[n] = nodes[n]
      BY <1>1, <2>1, AppendProperties
    <2>3. entry.key = Length(Child(saved)) /\ entry.node = Len(nodes) + 1
      OBVIOUS
    <2> HIDE DEF entry
    <2>4. /\ Len(heap') = Len(heap) + 1 /\ heap'[Len(heap) + 1] = entry
          /\ \A i \in 1 .. Len(heap) : heap'[i] = heap[i]
      BY <1>1, <1>2, AppendProperties
    <2>5. Keyed'
      <3> SUFFICES ASSUME NEW i \in 1 .. Len(heap) + 1, NEW j \in 1 .. Len(heap) + 1
                   PROVE  /\ heap'[i].key = Length(nodes'[heap'[i].node].path)
                          /\ i # j => heap'[i].node # heap'[j].node
        BY <1>1, <2>4, SameInput DEF Keyed
      <3>1. \A k \in 1 .. Len(heap) + 1 : k = Len(heap) + 1 \/ k \in 1 .. Len(heap)
        BY <1>1
      <3>2. heap'[i].key = Length(nodes'[heap'[i].node].path)
        <4>1. CASE i = Len(heap) + 1
          BY <2>1, <2>2, <2>3, <2>4, <4>1
        <4>2. CASE i \in 1 .. Len(heap)
          <5>1. heap'[i] = heap[i] /\ nodes'[heap[i].node] = nodes[heap[i].node]
            BY <1>1, <2>2, <2>4, <4>2
          <5>2. heap[i].key = Length(nodes[heap[i].node].path)
            BY <1>1, <4>2 DEF Keyed
          <5> QED BY <5>1, <5>2
        <4> QED BY <3>1, <4>1, <4>2
      <3>3. \A k \in 1 .. Len(heap) : heap'[k].node < Len(nodes) + 1 /\ heap'[k].node = heap[k].node
        BY <1>1, <2>4
      <3>4. heap'[Len(heap) + 1].node = Len(nodes) + 1
        BY <2>3, <2>4
      <3>5. i # j => heap'[i].node # heap'[j].node
        BY <1>1, <3>1, <3>3, <3>4 DEF Keyed
      <3> QED BY <3>2, <3>5
    <2>6. Rising(heap', at')
      <3> SUFFICES ASSUME NEW i \in 2 .. Len(heap) + 1
                   PROVE  /\ i # Len(heap) + 1 => heap'[Parent(i)].key <= heap'[i].key
                          /\ Parent(i) # Len(heap) + 1
        BY <1>2, <2>4 DEF Rising
      <3>1. Parent(i) \in 1 .. Len(heap) + 1 /\ Parent(i) < i
        BY <1>1, ParentPosition
      <3>2. Parent(i) \in 1 .. Len(heap)
        BY <1>1, <3>1
      <3>3. i # Len(heap) + 1 => i \in 2 .. Len(heap) /\ i \in 1 .. Len(heap)
        BY <1>1
      <3> QED BY <1>1, <2>4, <3>2, <3>3 DEF Ordered
    <2> QED BY <1>2, <2>5, <2>6 DEF HeapInv
  <1>3. CASE nodes' = nodes /\ heap' = heap /\ at' = at /\ pc' = "visit"
    BY <1>1, <1>3, SameInput DEF HeapInv, Keyed
  <1> QED BY <1>2, <1>3, ExtendIs

\* Every step keeps the heap in order but for the entry that moves.
LEMMA HeapStep == TypeInv /\ HeapInv /\ [Next]_vars => HeapInv'
  <1> SUFFICES ASSUME TypeInv, HeapInv, [Next]_vars PROVE HeapInv'
    OBVIOUS
  <1>1. CASE Prepare
    <2>1. input' = input /\ nodes' = nodes /\ heap' = heap /\ pc = "prepare"
          /\ pc' \in {"begin", "prepare"}
      BY <1>1 DEF Prepare
    <2> QED BY <2>1 DEF HeapInv, Keyed
  <1>2. CASE Exhaust
    <2>1. input' = input /\ nodes' = nodes /\ heap' = heap /\ pc' = "done"
      BY <1>2 DEF Exhaust
    <2> QED BY <2>1, SameInput DEF HeapInv, Keyed
  <1>3. CASE UNCHANGED vars
    <2>1. input' = input
      BY <1>3 DEF vars
    <2> QED BY <1>3, <2>1, SameInput DEF HeapInv, Keyed, vars
  <1> QED BY <1>1, <1>2, <1>3, HeapBegin, HeapVisit, HeapSink, HeapExtend, HeapRise DEF Next

\* Whenever a visit or an extension begins, the heap is in order and its keys
\* are the lengths of its nodes' paths, for any cluster, limits and criteria.
THEOREM HeapStaysOrdered == Spec => []HeapOrdered
  <1>1. TypeInv /\ HeapInv => HeapOrdered
    <2> SUFFICES ASSUME TypeInv, HeapInv, pc \in {"visit", "extend"}, NEW i \in DOMAIN heap
                 PROVE  /\ heap[i].key = Length(nodes[heap[i].node].path)
                        /\ i > 1 => heap[Parent(i)].key <= heap[i].key
      BY DEF HeapOrdered
    <2>1. i \in 1 .. Len(heap) /\ Len(heap) \in Nat
      BY DEF TypeInv
    <2> QED BY <2>1 DEF HeapInv, Keyed, Ordered
  <1> QED BY <1>1, TypeInit, TypeStep, HeapInit, HeapStep, PTL DEF Spec

-----------------------------------------------------------------------------
\* The order of the records

\* The root of a heap in order has the least key.
LEMMA RootLeast ==
    ASSUME NEW h \in Seq(Entry), Ordered(h), NEW i \in 1 .. Len(h)
    PROVE  h[1].key <= h[i].key
  <1> DEFINE Bad == {k \in 1 .. Len(h) : ~(h[1].key <= h[k].key)}
  <1>1. SUFFICES ASSUME Bad # {} PROVE FALSE
    OBVIOUS
  <1>2. PICK m \in Bad : \A k \in Bad : m <= k
    <2>1. Bad \in SUBSET Nat
      OBVIOUS
    <2> HIDE DEF Bad
    <2> QED BY <1>1, <2>1, Least
  <1>3. m \in 1 .. Len(h) /\ ~(h[1].key <= h[m].key) /\ Len(h) \in Nat
    OBVIOUS
  <1>4. m # 1
    <2>1. h[1].key \in Nat
      BY <1>3, EntryType
    <2> QED BY <1>3, <2>1
  <1>5. m \in 2 .. Len(h)
    BY <1>3, <1>4
  <1>6. Parent(m) \in 1 .. Len(h) /\ Parent(m) < m
    BY <1>3, <1>5, ParentPosition
  <1>7. Parent(m) \notin Bad
    <2> HIDE DEF Bad
    <2> QED BY <1>2, <1>3, <1>6
  <1>8. h[1].key <= h[Parent(m)].key /\ h[Parent(m)].key <= h[m].key
    BY <1>5, <1>6, <1>7 DEF Ordered
  <1>9. h[1].key \in Nat /\ h[Parent(m)].key \in Nat /\ h[m].key \in Nat
    BY <1>3, <1>6, EntryType
  <1> QED BY <1>3, <1>8, <1>9

\* A row has its own atom nowhere but at its end.
LEMMA NotExcluded ==
    ASSUME input \in Inputs, NEW s \in Atoms, NEW row \in Rows(s),
           NEW q \in 1 .. input.atoms - 1
    PROVE  row[q] # s
  <1>1. input.atoms \in Nat /\ 0 \in Atoms /\ Atoms \subseteq Nat
    BY AtomsType
  <1>2. /\ row \in [1 .. input.atoms -> Atoms]
        /\ Key(s, row[q]) <= Key(s, row[q + 1])
        /\ \A a, b \in 1 .. input.atoms : row[a] = row[b] => a = b
    BY DEF Rows, Injection, IsInjective
  <1>3. q \in 1 .. input.atoms /\ q + 1 \in 1 .. input.atoms /\ q + 1 # q
    BY <1>1
  <1>4. SUFFICES ASSUME row[q] = s PROVE FALSE
    OBVIOUS
  <1>5. row[q + 1] # s /\ row[q + 1] \in Atoms
    BY <1>2, <1>3, <1>4
  <1>6. s # Start
    BY <1>1 DEF Start
  <1>7. Key(s, row[q]) = Far
    BY <1>4 DEF Key
  <1>8. Key(s, row[q + 1]) = Distance(s, row[q + 1]) + Distance(row[q + 1], 0)
    BY <1>5, <1>6 DEF Key, From
  <1>9. /\ Distance(s, row[q + 1]) \in Nat /\ Distance(row[q + 1], 0) \in Nat
        /\ Distance(s, row[q + 1]) + Distance(row[q + 1], 0) < Far
    BY <1>1, <1>5, Metric
  <1>10. Far <= Distance(s, row[q + 1]) + Distance(row[q + 1], 0)
    BY <1>2, <1>7, <1>8
  <1> QED BY <1>9, <1>10, FarAssumption

\* A node's path ends at the atom its column names, in the row of the atom
\* before it.
Fits(node) ==
    /\ Last(node.path) = rows[node.source][node.column + 1]
    /\ IF Len(node.path) = 1 THEN node.source = Start
                             ELSE node.source = node.path[Len(node.path) - 1]

\* What a path is longer than its part before its last atom.
LEMMA LengthIs ==
    ASSUME input \in Inputs, NEW p \in Paths
    PROVE  /\ Length(p) = Walked(p)[Len(p) - 1] + Leg(p, Len(p)) + Distance(Last(p), 0)
           /\ Walked(p)[Len(p) - 1] \in Nat /\ Leg(p, Len(p)) \in Nat
           /\ Distance(Last(p), 0) \in Nat /\ Length(p) \in Nat
           /\ Last(p) \in Atoms
  <1>1. p \in Seq(Atoms) /\ p # <<>> /\ Len(p) \in 1 .. Len(p) /\ Len(p) - 1 \in 0 .. Len(p)
    BY EmptySeq DEF Paths
  <1>2. Last(p) \in Atoms
    BY <1>1, ElementOfSeq DEF Last
  <1>3. /\ Walked(p)[Len(p)] = Walked(p)[Len(p) - 1] + Leg(p, Len(p))
        /\ Walked(p)[Len(p) - 1] \in Nat
    BY <1>1, WalkedIs
  <1>4. Leg(p, Len(p)) \in Nat /\ Distance(Last(p), 0) \in Nat /\ Length(p) \in Nat
    BY <1>1, <1>2, LegType, LengthType, Metric, AtomsType
  <1> QED BY <1>2, <1>3, <1>4 DEF Length

\* The next sibling is not shorter.
LEMMA SiblingLonger ==
    ASSUME TypeInv, pc # "prepare", NEW node \in Node, Fits(node),
           HasCandidate(Moved(node))
    PROVE  Length(node.path) <= Length(Sibling(node))
  <1> DEFINE p == node.path
             q == Sibling(node)
             s == node.source
             x == Last(p)
             y == Last(q)
  <1>1. /\ input \in Inputs /\ p \in Paths /\ q \in Paths /\ s \in Sources
        /\ node.column \in 0 .. input.atoms - 2 /\ input.atoms \in Nat
        /\ Candidate(Moved(node)) = rows[s][node.column + 2]
        /\ Candidate(Moved(node)) \in Atoms
        /\ node.column + 2 \in 1 .. input.atoms - 1
    BY NodeType, RenewedIs, AtomsType DEF TypeInv
  <1>2. /\ Len(q) = Len(p) /\ q[Len(p)] = Candidate(Moved(node))
        /\ \A i \in 1 .. Len(p) - 1 : q[i] = p[i]
    BY <1>1, SiblingType DEF Sibling
  <1>3. Len(p) \in Nat /\ Len(p) >= 1 /\ p \in Seq(Atoms) /\ q \in Seq(Atoms)
    BY <1>1, EmptySeq DEF Paths
  <1>4. x = rows[s][node.column + 1] /\ y = rows[s][node.column + 2]
        /\ x = p[Len(p)] /\ y = q[Len(p)] /\ x \in Atoms /\ y \in Atoms
    BY <1>1, <1>2, LengthIs DEF Fits, Last
  <1>5. Walked(q)[Len(p) - 1] = Walked(p)[Len(p) - 1]
    <2>1. Len(p) - 1 \in Nat /\ Len(p) - 1 <= Len(p) /\ Len(p) - 1 <= Len(q)
      BY <1>2, <1>3
    <2> QED BY <1>1, <1>2, <1>3, <2>1, SamePrefix
  <1>6. Leg(p, Len(p)) = Distance(From(s), x) /\ Leg(q, Len(q)) = Distance(From(s), y)
    <2>1. CASE Len(p) = 1
      BY <1>2, <1>4, <2>1 DEF Leg, From, Fits
    <2>2. CASE Len(p) # 1
      <3>1. s = p[Len(p) - 1] /\ s = q[Len(p) - 1] /\ s \in Atoms
        <4>1. Len(p) - 1 \in 1 .. Len(p) - 1 /\ Len(p) - 1 \in 1 .. Len(p)
          <5>1. \A k \in Nat : k >= 1 /\ k # 1 => k - 1 \in 1 .. k - 1 /\ k - 1 \in 1 .. k
            OBVIOUS
          <5> HIDE DEF p
          <5> QED BY <1>3, <2>2, <5>1
        <4>2. s = p[Len(p) - 1]
          BY <2>2 DEF Fits
        <4>3. p[Len(p) - 1] \in Atoms
          BY <1>3, <4>1, ElementOfSeq
        <4> HIDE DEF p, q, s
        <4> QED BY <1>2, <4>1, <4>2, <4>3
      <3>2. s # Start
        BY <1>1, <3>1, AtomsType DEF Start
      <3> QED BY <1>2, <1>4, <2>2, <3>1, <3>2 DEF Leg, From
    <2> QED BY <2>1, <2>2
  <1>7. rows[s] \in Rows(s)
    BY <1>1, RowIs
  <1>8. Key(s, x) <= Key(s, y)
    <2>1. node.column + 1 \in 1 .. input.atoms - 1 /\ (node.column + 1) + 1 = node.column + 2
      BY <1>1
    <2> QED BY <1>4, <1>7, <2>1 DEF Rows
  <1>9. From(s) \in Atoms
    BY <1>1, AtomsType DEF Sources, From
  <1>10. Key(s, y) = Distance(From(s), y) + Distance(y, 0)
    <2>1. CASE s = Start
      <3>1. y \in input.firstBounce /\ y # Start
        <4>1. Moved(node).source = Start /\ Moved(node).column + 1 = node.column + 2
          BY <1>1, <2>1, MovedIs
        <4>2. y \in input.firstBounce
          BY <1>4, <2>1, <4>1 DEF HasCandidate
        <4> QED BY <1>1, <1>4, <4>2, AtomsType DEF Start
      <3> QED BY <2>1, <3>1 DEF Key
    <2>2. CASE s # Start
      <3>1. s \in Atoms
        BY <1>1, <2>2 DEF Sources
      <3>2. y # s
        BY <1>1, <1>4, <1>7, <3>1, NotExcluded
      <3> QED BY <2>2, <3>2 DEF Key
    <2> QED BY <2>1, <2>2
  <1>11. Distance(From(s), x) + Distance(x, 0) <= Key(s, x)
    <2>1. /\ Distance(From(s), x) \in Nat /\ Distance(x, 0) \in Nat
          /\ Distance(From(s), x) + Distance(x, 0) < Far
      BY <1>1, <1>4, <1>9, Metric, AtomsType
    <2>2. Key(s, x) = Far \/ Key(s, x) = Distance(From(s), x) + Distance(x, 0)
      BY DEF Key
    <2> QED BY <2>1, <2>2, FarAssumption
  <1>12. /\ Distance(From(s), x) \in Nat /\ Distance(x, 0) \in Nat
         /\ Distance(From(s), y) \in Nat /\ Distance(y, 0) \in Nat
    BY <1>1, <1>4, <1>9, Metric, AtomsType
  <1>13. Distance(From(s), x) + Distance(x, 0) <= Distance(From(s), y) + Distance(y, 0)
    <2>1. Key(s, x) \in Nat
      <3>1. Key(s, x) = Far \/ Key(s, x) = Distance(From(s), x) + Distance(x, 0)
        BY DEF Key
      <3> QED BY <1>12, <3>1, FarAssumption
    <2> QED BY <1>8, <1>10, <1>11, <1>12, <2>1
  <1>14. /\ Length(p) = Walked(p)[Len(p) - 1] + Leg(p, Len(p)) + Distance(x, 0)
         /\ Length(q) = Walked(q)[Len(q) - 1] + Leg(q, Len(q)) + Distance(y, 0)
         /\ Walked(p)[Len(p) - 1] \in Nat
    BY <1>1, LengthIs
  <1> HIDE DEF p, q, s, x, y
  <1>15. /\ Length(p) = Walked(p)[Len(p) - 1] + Distance(From(s), x) + Distance(x, 0)
         /\ Length(q) = Walked(p)[Len(p) - 1] + Distance(From(s), y) + Distance(y, 0)
    BY <1>2, <1>5, <1>6, <1>14
  <1>16. Length(p) <= Length(q)
    <2>1. Distance(From(s), x) + Distance(x, 0) <= Distance(From(s), y) + Distance(y, 0)
      BY <1>13
    <2> QED BY <1>12, <1>14, <1>15, <2>1, SMTT(20)
  <1> QED BY <1>16 DEF p, q

\* A path is not longer than its extension: going on to an atom and home from
\* there is no shorter than going home at once.
LEMMA ChildLonger ==
    ASSUME TypeInv, pc # "prepare", NEW p \in Paths
    PROVE  Length(p) <= Length(Child(p))
  <1> DEFINE q == Child(p)
             n == Len(p)
             c == rows[Last(p)][1]
  <1>1. /\ input \in Inputs /\ Last(p) \in Atoms /\ c \in Atoms /\ 0 \in Atoms
        /\ q \in Seq(Atoms) /\ q # <<>> /\ Len(q) = n + 1 /\ Last(q) = c
        /\ \A i \in 1 .. n : q[i] = p[i]
        /\ p \in Seq(Atoms) /\ p # <<>> /\ n \in Nat /\ n >= 1
    <2>1. input \in Inputs /\ 0 \in Atoms
      BY AtomsType DEF TypeInv
    <2>2. /\ Last(p) \in Atoms /\ c \in Atoms
          /\ q \in Seq(Atoms) /\ q # <<>> /\ Len(q) = n + 1 /\ Last(q) = c
          /\ \A i \in 1 .. n : q[i] = p[i]
      BY ChildIs
    <2>3. p \in Seq(Atoms) /\ p # <<>>
      BY DEF Paths
    <2>4. n \in Nat /\ n >= 1
      BY <2>3, EmptySeq
    <2> QED BY <2>1, <2>2, <2>3, <2>4
  <1> HIDE DEF q
  <1>2. Walked(q)[n] = Walked(p)[n]
    BY <1>1, SamePrefix
  <1>3. /\ Walked(q)[n + 1] = Walked(q)[n] + Leg(q, n + 1)
        /\ Walked(p)[n] \in Nat
    <2>1. n + 1 \in 1 .. Len(q) /\ n \in 0 .. Len(p) /\ (n + 1) - 1 = n
      BY <1>1
    <2> QED BY <1>1, <2>1, WalkedIs
  <1>4. Leg(q, n + 1) = Distance(Last(p), c)
    <2>1. q[n] = Last(p) /\ q[n + 1] = c /\ n + 1 # 1 /\ (n + 1) - 1 = n
      BY <1>1 DEF Last
    <2> HIDE DEF n, c
    <2> QED BY <2>1 DEF Leg
  <1>5. /\ Length(q) = Walked(p)[n] + Distance(Last(p), c) + Distance(c, 0)
        /\ Length(p) = Walked(p)[n] + Distance(Last(p), 0)
    <2> HIDE DEF c
    <2> QED BY <1>1, <1>2, <1>3, <1>4 DEF Length
  <1>6. /\ Distance(Last(p), 0) <= Distance(Last(p), c) + Distance(c, 0)
        /\ Distance(Last(p), c) \in Nat /\ Distance(c, 0) \in Nat /\ Distance(Last(p), 0) \in Nat
    BY <1>1, Metric
  <1> HIDE DEF n, c
  <1>7. Length(p) <= Length(q)
    BY <1>3, <1>5, <1>6
  <1> QED BY <1>7 DEF q

\* Every node fits, the records are in order, and nothing that is still on the
\* heap, or is still to extend, is shorter than a record.
OrderInv ==
    /\ \A n \in 1 .. Len(nodes) : Fits(nodes[n])
    /\ ShortestFirst
    /\ \A r \in 1 .. Len(records), i \in 1 .. Len(heap) :
          Length(records[r]) <= heap[i].key
    /\ pc \in {"sink", "extend"} =>
          /\ \A r \in 1 .. Len(records) : Length(records[r]) <= Length(saved)
          /\ \A i \in 1 .. Len(heap) : Length(saved) <= heap[i].key
    /\ pc \in {"prepare", "begin"} => nodes = <<>> /\ records = <<>>

\* The order invariant holds initially.
LEMMA OrderInit == Init => OrderInv
  BY DEF Init, OrderInv, ShortestFirst

\* A longest path may be recorded next.
LEMMA RecordNext ==
    ASSUME TypeInv, ShortestFirst, NEW p \in Seq(Atoms) \ {<<>>}, input' = input,
           \A r \in 1 .. Len(records) : Length(records[r]) <= Length(p),
           records' = Append(records, p)
    PROVE  /\ ShortestFirst'
           /\ \A r \in 1 .. Len(records') : Length(records'[r]) <= Length(p)
  <1>1. records \in Seq(Seq(Atoms) \ {<<>>}) /\ Len(records) \in Nat /\ Length(p) \in Nat
    BY LengthType DEF TypeInv
  <1>2. /\ Len(records') = Len(records) + 1 /\ records'[Len(records) + 1] = p
        /\ \A r \in 1 .. Len(records) : records'[r] = records[r]
        /\ DOMAIN records' = 1 .. Len(records) + 1
        /\ DOMAIN records = 1 .. Len(records)
    BY <1>1, AppendProperties
  <1>3. \A r \in 1 .. Len(records') : Length(records'[r]) <= Length(p)
    BY <1>1, <1>2
  <1>4. ASSUME NEW i \in 1 .. Len(records) + 1, NEW j \in 1 .. Len(records) + 1, i < j
        PROVE  Length(records'[i]) <= Length(records'[j])
    <2>1. CASE j = Len(records) + 1
      BY <1>2, <1>3, <2>1
    <2>2. CASE j # Len(records) + 1
      <3>1. i \in 1 .. Len(records) /\ j \in 1 .. Len(records)
        BY <1>1, <1>4, <2>2
      <3> QED BY <1>2, <1>4, <3>1 DEF ShortestFirst
    <2> QED BY <2>1, <2>2
  <1>5. ShortestFirst'
    BY <1>2, <1>4, SameInput DEF ShortestFirst
  <1> QED BY <1>3, <1>5

\* Visiting records no path that is shorter than a record.
LEMMA VisitRecords ==
    ASSUME TypeInv, HeapInv, OrderInv, Visit, NEW n, n = heap[1].node
    PROVE  /\ ShortestFirst'
           /\ \A r \in 1 .. Len(records') : Length(records'[r]) <= Length(nodes[n].path)
           /\ \A i \in 1 .. Len(heap) : Length(nodes[n].path) <= heap[i].key
           /\ Length(nodes[n].path) = heap[1].key
  <1>1. /\ input' = input /\ input \in Inputs /\ pc = "visit" /\ Ordered(heap) /\ Keyed
        /\ heap \in Seq(Entry) /\ ShortestFirst
        /\ \A r \in 1 .. Len(records), i \in 1 .. Len(heap) :
              Length(records[r]) <= heap[i].key
    BY DEF TypeInv, HeapInv, OrderInv, Visit
  <1>2. heap # <<>> /\ nodes[n] \in Node /\ records' = Recorded(nodes[n])
    BY VisitIs
  <1>3. 1 \in 1 .. Len(heap)
    BY <1>1, <1>2, EmptySeq
  <1>4. Length(nodes[n].path) = heap[1].key
    BY <1>1, <1>3 DEF Keyed
  <1>5. \A i \in 1 .. Len(heap) : Length(nodes[n].path) <= heap[i].key
    BY <1>1, <1>4, RootLeast
  <1>6. \A r \in 1 .. Len(records) : Length(records[r]) <= Length(nodes[n].path)
    BY <1>1, <1>3, <1>4
  <1>7. nodes[n].path \in Seq(Atoms) \ {<<>>}
    BY <1>2, NodeType DEF Paths
  <1>8. CASE records' = Append(records, nodes[n].path)
    BY <1>1, <1>4, <1>5, <1>6, <1>7, <1>8, RecordNext
  <1>9. CASE records' = records
    BY <1>1, <1>4, <1>5, <1>6, <1>9, SameInput DEF ShortestFirst
  <1> QED BY <1>2, <1>8, <1>9 DEF Recorded

\* The renewed node fits again.
LEMMA RenewedFits ==
    ASSUME TypeInv, pc # "prepare", NEW node \in Node, Fits(node),
           HasCandidate(Moved(node))
    PROVE  Fits(Renewed(node))
  <1> DEFINE n == Len(node.path)
  <1>1. /\ Candidate(Moved(node)) = rows[node.source][node.column + 2]
        /\ Candidate(Moved(node)) \in Atoms
        /\ Renewed(node).path = Sibling(node)
        /\ Renewed(node).source = node.source
        /\ Renewed(node).column = node.column + 1
    BY RenewedIs
  <1>2. node.path \in Paths /\ node.column \in Int
    BY NodeType
  <1>3. n \in Nat /\ n >= 1
    BY <1>2, EmptySeq DEF Paths
  <1>4. Sibling(node) = [node.path EXCEPT ![n] = Candidate(Moved(node))]
    BY DEF Sibling
  <1>5. /\ Len(Sibling(node)) = n
        /\ Sibling(node)[n] = Candidate(Moved(node))
        /\ \A i \in 1 .. n - 1 : Sibling(node)[i] = node.path[i]
    BY <1>1, <1>2, <1>4, SiblingType
  <1>6. (node.column + 1) + 1 = node.column + 2
    BY <1>2
  <1>7. Last(Renewed(node).path) = rows[Renewed(node).source][Renewed(node).column + 1]
    BY <1>1, <1>5, <1>6 DEF Last
  <1>8. IF n = 1 THEN node.source = Start ELSE node.source = node.path[n - 1]
    BY DEF Fits
  <1> HIDE DEF n
  <1>9. n # 1 => n - 1 \in 1 .. n - 1
    BY <1>3
  <1>10. IF n = 1 THEN node.source = Start ELSE node.source = Sibling(node)[n - 1]
    BY <1>5, <1>8, <1>9
  <1> QED BY <1>1, <1>5, <1>7, <1>10 DEF Fits

\* A visit keeps the order of what is found.
LEMMA OrderVisit == TypeInv /\ HeapInv /\ OrderInv /\ Visit => OrderInv'
  <1> SUFFICES ASSUME TypeInv, HeapInv, OrderInv, Visit PROVE OrderInv'
    OBVIOUS
  <1> DEFINE n == heap[1].node
             node == nodes[n]
  <1>1. /\ input' = input /\ input \in Inputs /\ rows' = rows /\ pc = "visit"
        /\ heap \in Seq(Entry) /\ nodes \in Seq(Node)
        /\ \A m \in 1 .. Len(nodes) : Fits(nodes[m])
    BY DEF TypeInv, OrderInv, Visit
  <1>2. heap # <<>> /\ n \in 1 .. Len(nodes) /\ node \in Node /\ saved' = node.path
    BY VisitIs
  <1>3. /\ ShortestFirst'
        /\ \A r \in 1 .. Len(records') : Length(records'[r]) <= Length(node.path)
        /\ \A i \in 1 .. Len(heap) : Length(node.path) <= heap[i].key
    BY VisitRecords
  <1>4. Len(heap) \in Nat /\ Len(heap) >= 1 /\ heap[1] \in Entry
    BY <1>1, <1>2, EmptySeq, ElementOfSeq
  <1>5. /\ \A m \in 1 .. Len(nodes') : Fits(nodes'[m])
        /\ \A i \in 1 .. Len(heap') : heap'[i].key \in Nat /\ Length(node.path) <= heap'[i].key
        /\ pc' \in {"sink", "done"}
    <2>1. CASE pc' = "done" /\ nodes' = nodes /\ heap' = heap
      BY <1>1, <1>3, <2>1, EntryType
    <2>2. CASE /\ HasCandidate(Moved(node)) /\ AddToHeap(Sibling(node))
               /\ nodes' = [nodes EXCEPT ![n] = Renewed(node)]
               /\ heap' = [heap EXCEPT ![1].key = Length(Sibling(node))]
               /\ pc' = "sink"
      <3>1. Fits(node)
        BY <1>1, <1>2
      <3>2. Length(node.path) <= Length(Sibling(node))
        BY <1>1, <1>2, <2>2, <3>1, SiblingLonger
      <3>3. Sibling(node) \in Paths
        BY <1>1, <1>2, <2>2, RenewedIs
      <3>6. Fits(Renewed(node))
        BY <1>1, <1>2, <2>2, <3>1, RenewedFits
      <3>7. \A m \in 1 .. Len(nodes') : Fits(nodes'[m])
        <4>1. Len(nodes') = Len(nodes) /\ nodes'[n] = Renewed(node)
              /\ \A m \in 1 .. Len(nodes) : m # n => nodes'[m] = nodes[m]
          BY <1>1, <1>2, <2>2
        <4> QED BY <1>1, <3>6, <4>1
      <3>8. /\ Len(heap') = Len(heap) /\ heap'[1].key = Length(Sibling(node))
            /\ \A i \in 2 .. Len(heap) : heap'[i] = heap[i]
        BY <1>1, <1>4, <2>2 DEF Entry
      <3>9. Length(Sibling(node)) \in Nat
        BY <1>1, <3>3, LengthIs
      <3>10. \A i \in 1 .. Len(heap) : i = 1 \/ i \in 2 .. Len(heap)
        BY <1>4
      <3>11. \A i \in 1 .. Len(heap) : heap[i].key \in Nat
        BY <1>1, EntryType
      <3> HIDE DEF node, n
      <3>12. \A i \in 1 .. Len(heap') :
                heap'[i].key \in Nat /\ Length(node.path) <= heap'[i].key
        BY <1>3, <3>2, <3>8, <3>9, <3>10, <3>11
      <3> QED BY <2>2, <3>7, <3>12
    <2>3. CASE heap' = WithoutRoot(heap) /\ nodes' = nodes /\ pc' = "sink"
      <3>1. /\ heap' \in Seq(Entry) /\ Len(heap') = Len(heap) - 1
            /\ Len(heap) > 1 => heap'[1] = heap[Len(heap)]
            /\ \A i \in 2 .. Len(heap) - 1 : heap'[i] = heap[i]
        BY <1>1, <1>2, <2>3, WithoutRootIs
      <3>2. \A i \in 1 .. Len(heap') : \E j \in 1 .. Len(heap) : heap'[i] = heap[j]
        BY <1>4, <3>1
      <3> QED BY <1>1, <1>3, <2>3, <3>2, EntryType
    <2> QED BY <2>1, <2>2, <2>3, VisitIs
  <1>6. \A r \in 1 .. Len(records') : Length(records'[r]) \in Nat
    <2>1. TypeInv'
      BY TypeVisit
    <2>2. records' \in Seq(Seq(Atoms) \ {<<>>})
      BY <1>1, <2>1, SameInput DEF TypeInv
    <2> QED BY <1>1, <2>2, ElementOfSeq, LengthType
  <1>7. Length(node.path) \in Nat
    BY <1>1, <1>2, NodeType, LengthIs
  <1>8. \A r \in 1 .. Len(records'), i \in 1 .. Len(heap') :
           Length(records'[r]) <= heap'[i].key
    <2> HIDE DEF node
    <2> QED BY <1>3, <1>5, <1>6, <1>7
  <1>9. \A nd : Fits(nd)' = Fits(nd)
    BY <1>1 DEF Fits
  <1> HIDE DEF node, n
  <1> QED BY <1>1, <1>2, <1>3, <1>5, <1>8, <1>9, SameInput DEF OrderInv

\* A step that only reorders the heap.
LEMMA OrderSwap ==
    ASSUME TypeInv, OrderInv, UNCHANGED <<input, rows, nodes, records, saved>>,
           pc' \in {pc, "extend", "visit"}, pc' = "extend" => pc = "sink",
           pc \in {"sink", "rise"},
           \A k \in 1 .. Len(heap') : \E j \in 1 .. Len(heap) : heap'[k] = heap[j]
    PROVE  OrderInv'
  <1>1. \A n : Fits(n)' = Fits(n)
    BY DEF Fits
  <1>2. \A r \in 1 .. Len(records), i \in 1 .. Len(heap') :
           Length(records[r]) <= heap'[i].key
    BY DEF OrderInv
  <1>3. ShortestFirst'
    BY SameInput DEF OrderInv, ShortestFirst
  <1>4. pc' \in {"sink", "extend"} =>
           /\ \A r \in 1 .. Len(records) : Length(records[r]) <= Length(saved)
           /\ \A i \in 1 .. Len(heap') : Length(saved) <= heap'[i].key
    <2>1. pc' \in {"sink", "extend"} => pc = "sink"
      OBVIOUS
    <2> QED BY <2>1 DEF OrderInv
  <1> QED BY <1>1, <1>2, <1>3, <1>4, SameInput DEF OrderInv

\* Every entry of a heap with two positions swapped was there before.
LEMMA SwapEntries ==
    ASSUME NEW h \in Seq(Entry), NEW a \in 1 .. Len(h), NEW b \in 1 .. Len(h), a # b
    PROVE  \A k \in 1 .. Len(Swap(h, a, b)) :
              \E j \in 1 .. Len(h) : Swap(h, a, b)[k] = h[j]
  <1> DEFINE g == Swap(h, a, b)
  <1>1. /\ Len(g) = Len(h) /\ g[a] = h[b] /\ g[b] = h[a]
        /\ \A k \in 1 .. Len(h) : k \notin {a, b} => g[k] = h[k]
    BY SwapIs
  <1> HIDE DEF g
  <1>2. \A k \in 1 .. Len(g) : \E j \in 1 .. Len(h) : g[k] = h[j]
    BY <1>1
  <1> QED BY <1>2 DEF g

\* A step of the sinking keeps the order of what is found.
LEMMA OrderSink == TypeInv /\ OrderInv /\ Sink => OrderInv'
  <1> SUFFICES ASSUME TypeInv, OrderInv, Sink PROVE OrderInv'
    OBVIOUS
  <1>1. /\ UNCHANGED <<input, rows, nodes, records, saved>> /\ pc = "sink"
        /\ pc' \in {pc, "extend"} /\ heap \in Seq(Entry) /\ at \in Int /\ at >= 1
    BY DEF TypeInv, Sink
  <1>2. CASE 2 * at <= Len(heap) /\ heap[at].key > heap[SmallerChild(at)].key
    <2>1. heap' = Swap(heap, at, SmallerChild(at))
      BY <1>2 DEF Sink
    <2>2. /\ SmallerChild(at) \in 1 .. Len(heap) /\ SmallerChild(at) > at
          /\ at \in 1 .. Len(heap)
      BY <1>1, <1>2, SmallerChildIs
    <2>3. \A k \in 1 .. Len(heap') : \E j \in 1 .. Len(heap) : heap'[k] = heap[j]
      BY <1>1, <2>1, <2>2, SwapEntries
    <2> QED BY <1>1, <2>3, OrderSwap
  <1>3. CASE ~(2 * at <= Len(heap) /\ heap[at].key > heap[SmallerChild(at)].key)
    <2>1. heap' = heap
      BY <1>3 DEF Sink
    <2> QED BY <1>1, <2>1, OrderSwap
  <1> QED BY <1>2, <1>3

\* A step of the rising keeps the order of what is found.
LEMMA OrderRise == TypeInv /\ OrderInv /\ Rise => OrderInv'
  <1> SUFFICES ASSUME TypeInv, OrderInv, Rise PROVE OrderInv'
    OBVIOUS
  <1>1. /\ UNCHANGED <<input, rows, nodes, records, saved>> /\ pc = "rise"
        /\ pc' \in {pc, "visit"} /\ heap \in Seq(Entry) /\ at \in 1 .. Len(heap)
        /\ Len(heap) \in Nat
    BY DEF TypeInv, Rise
  <1>2. CASE at > 1 /\ heap[at].key < heap[Parent(at)].key
    <2>1. heap' = Swap(heap, at, Parent(at))
      BY <1>2 DEF Rise
    <2>2. Parent(at) \in 1 .. Len(heap) /\ Parent(at) # at
      <3>1. at \in 2 .. Len(heap)
        BY <1>1, <1>2
      <3> QED BY <1>1, <3>1, ParentPosition
    <2>3. \A k \in 1 .. Len(heap') : \E j \in 1 .. Len(heap) : heap'[k] = heap[j]
      BY <1>1, <2>1, <2>2, SwapEntries
    <2> QED BY <1>1, <2>3, OrderSwap
  <1>3. CASE ~(at > 1 /\ heap[at].key < heap[Parent(at)].key)
    <2>1. heap' = heap
      BY <1>3 DEF Rise
    <2> QED BY <1>1, <2>1, OrderSwap
  <1> QED BY <1>2, <1>3

\* Beginning keeps the order of what is found.
LEMMA OrderBegin == TypeInv /\ HeapInv /\ OrderInv /\ Begin => OrderInv'
  <1> SUFFICES ASSUME TypeInv, HeapInv, OrderInv, Begin PROVE OrderInv'
    OBVIOUS
  <1> DEFINE first == <<rows[Start][1]>>
             node == [path |-> first, source |-> Start, column |-> 0,
                      keep |-> KeepForOutput(first)]
  <1>1. input' = input /\ rows' = rows /\ records' = records /\ records = <<>>
        /\ nodes = <<>>
    BY DEF Begin, OrderInv
  <1>2. \A nd : Fits(nd)' = Fits(nd)
    BY <1>1 DEF Fits
  <1>3. ShortestFirst'
    BY <1>1 DEF ShortestFirst
  <1>4. Fits(node)
    BY DEF Fits, Last
  <1> HIDE DEF first, node
  <1>5. (nodes' = <<node>> /\ pc' = "visit") \/ (nodes' = nodes /\ pc' = "done")
    BY DEF Begin, node, first
  <1>6. \A n \in 1 .. Len(nodes') : Fits(nodes'[n])
    BY <1>1, <1>4, <1>5
  <1> QED BY <1>1, <1>2, <1>3, <1>5, <1>6 DEF OrderInv

\* An extension keeps the order of what is found.
LEMMA OrderExtend == TypeInv /\ OrderInv /\ Extend => OrderInv'
  <1> SUFFICES ASSUME TypeInv, OrderInv, Extend PROVE OrderInv'
    OBVIOUS
  <1>1. /\ input' = input /\ rows' = rows /\ records' = records /\ saved' = saved
        /\ pc = "extend" /\ input \in Inputs /\ saved \in Paths
        /\ heap \in Seq(Entry) /\ nodes \in Seq(Node)
        /\ Len(heap) \in Nat /\ Len(nodes) \in Nat
        /\ records \in Seq(Seq(Atoms) \ {<<>>})
    BY DEF TypeInv, Extend
  <1>2. /\ \A n \in 1 .. Len(nodes) : Fits(nodes[n])
        /\ \A r \in 1 .. Len(records), i \in 1 .. Len(heap) :
              Length(records[r]) <= heap[i].key
        /\ \A r \in 1 .. Len(records) : Length(records[r]) <= Length(saved)
    BY <1>1 DEF OrderInv
  <1>3. ShortestFirst'
    BY <1>1, SameInput DEF OrderInv, ShortestFirst
  <1>4. \A nd : Fits(nd)' = Fits(nd)
    BY <1>1 DEF Fits
  <1> DEFINE entry == [key |-> Length(Child(saved)), node |-> Len(nodes) + 1]
  <1>5. CASE /\ Child(saved) \in Paths
             /\ \E node \in Node :
                   /\ node.path = Child(saved) /\ node.source = Last(saved)
                   /\ node.column = 0
                   /\ nodes' = Append(nodes, node)
             /\ entry \in Entry /\ heap' = Append(heap, entry)
             /\ pc' = "rise"
    <2>1. PICK node \in Node :
             /\ node.path = Child(saved) /\ node.source = Last(saved) /\ node.column = 0
             /\ nodes' = Append(nodes, node)
      BY <1>5
    <2>2. /\ Last(saved) \in Atoms /\ Last(Child(saved)) = rows[Last(saved)][1]
          /\ Len(Child(saved)) = Len(saved) + 1
          /\ \A i \in 1 .. Len(saved) : Child(saved)[i] = saved[i]
      BY <1>1, ChildIs
    <2>3. Len(saved) \in Nat /\ Len(saved) >= 1
      BY <1>1, EmptySeq DEF Paths
    <2>4. Fits(node)
      <3>1. Child(saved)[Len(saved)] = Last(saved)
        BY <2>2, <2>3 DEF Last
      <3>2. Len(node.path) # 1 /\ Len(node.path) - 1 = Len(saved) /\ node.column + 1 = 1
        BY <2>1, <2>2, <2>3
      <3> QED BY <2>1, <2>2, <3>1, <3>2 DEF Fits
    <2>5. \A n \in 1 .. Len(nodes') : Fits(nodes'[n])
      <3>1. /\ Len(nodes') = Len(nodes) + 1 /\ nodes'[Len(nodes) + 1] = node
            /\ \A n \in 1 .. Len(nodes) : nodes'[n] = nodes[n]
        BY <1>1, <2>1, AppendProperties
      <3> QED BY <1>1, <1>2, <2>4, <3>1
    <2>6. Length(saved) <= Length(Child(saved))
      BY <1>1, ChildLonger
    <2>7. entry.key = Length(Child(saved))
      OBVIOUS
    <2> HIDE DEF entry
    <2>8. /\ Len(heap') = Len(heap) + 1 /\ heap'[Len(heap) + 1] = entry
          /\ \A i \in 1 .. Len(heap) : heap'[i] = heap[i]
      BY <1>1, <1>5, AppendProperties
    <2>9. /\ Length(saved) \in Nat /\ Length(Child(saved)) \in Nat
          /\ \A r \in 1 .. Len(records) : Length(records[r]) \in Nat
      <3>1. saved \in Paths /\ Child(saved) \in Paths /\ input \in Inputs
        BY <1>1, <1>5
      <3>2. Length(saved) \in Nat /\ Length(Child(saved)) \in Nat
        BY <3>1, LengthType DEF Paths
      <3>3. \A r \in 1 .. Len(records) : Length(records[r]) \in Nat
        BY <1>1, <3>1, ElementOfSeq, LengthType
      <3> QED BY <3>2, <3>3
    <2>10. \A r \in 1 .. Len(records), i \in 1 .. Len(heap') :
              Length(records[r]) <= heap'[i].key
      <3> SUFFICES ASSUME NEW r \in 1 .. Len(records), NEW i \in 1 .. Len(heap')
                   PROVE  Length(records[r]) <= heap'[i].key
        OBVIOUS
      <3>1. CASE i = Len(heap) + 1
        BY <1>2, <2>6, <2>7, <2>8, <2>9, <3>1
      <3>2. CASE i # Len(heap) + 1
        <4>1. Len(heap) \in Nat
          BY <1>1, LenProperties
        <4>2. i \in 1 .. Len(heap)
          BY <4>1, <2>8, <3>2
        <4> QED BY <1>2, <2>8, <4>2
      <3> QED BY <3>1, <3>2
    <2> QED BY <1>1, <1>3, <1>4, <1>5, <2>5, <2>10, SameInput DEF OrderInv
  <1>6. CASE nodes' = nodes /\ heap' = heap /\ at' = at /\ pc' = "visit"
    BY <1>1, <1>2, <1>3, <1>4, <1>6, SameInput DEF OrderInv
  <1> QED BY <1>5, <1>6, ExtendIs

\* Every step keeps the order of what is found.
LEMMA OrderStep == TypeInv /\ HeapInv /\ OrderInv /\ [Next]_vars => OrderInv'
  <1> SUFFICES ASSUME TypeInv, HeapInv, OrderInv, [Next]_vars PROVE OrderInv'
    OBVIOUS
  <1>1. CASE Prepare
    <2>1. input' = input /\ nodes' = nodes /\ heap' = heap /\ records' = records
          /\ pc = "prepare" /\ pc' \in {"begin", "prepare"}
      BY <1>1 DEF Prepare
    <2>2. nodes = <<>> /\ records = <<>>
      BY <2>1 DEF OrderInv
    <2> QED BY <2>1, <2>2 DEF OrderInv, ShortestFirst
  <1>2. CASE Exhaust
    <2>1. UNCHANGED <<input, rows, nodes, heap, records, saved>> /\ pc' = "done"
      BY <1>2 DEF Exhaust
    <2>2. \A nd : Fits(nd)' = Fits(nd)
      BY <2>1 DEF Fits
    <2> QED BY <2>1, <2>2, SameInput DEF OrderInv, ShortestFirst
  <1>3. CASE UNCHANGED vars
    <2>1. UNCHANGED <<input, rows, nodes, heap, records, saved, pc>>
      BY <1>3 DEF vars
    <2>2. \A nd : Fits(nd)' = Fits(nd)
      BY <2>1 DEF Fits
    <2> QED BY <2>1, <2>2, SameInput DEF OrderInv, ShortestFirst
  <1> QED BY <1>1, <1>2, <1>3, OrderBegin, OrderVisit, OrderSink, OrderExtend, OrderRise
             DEF Next

\* No path is recorded after a longer one, for any cluster that is a metric
\* space, any limits and any criteria.
THEOREM FoundShortestFirst == Spec => []ShortestFirst
  <1>1. OrderInv => ShortestFirst
    BY DEF OrderInv
  <1> QED BY <1>1, TypeInit, TypeStep, HeapInit, HeapStep, OrderInit, OrderStep, PTL DEF Spec

-----------------------------------------------------------------------------
\* No path is found twice

\* The paths are siblings: they differ in their last atoms at most.
SameFront(p, q) == Len(p) = Len(q) /\ \A i \in 1 .. Len(p) - 1 : p[i] = q[i]

\* The first path is the second and one atom more.
Extends(p, q) == Len(p) = Len(q) + 1 /\ \A i \in 1 .. Len(q) : p[i] = q[i]

OnHeap(n) == \E i \in 1 .. Len(heap) : heap[i].node = n

\* How much of its row a node has been through.
Count(n) == nodes[n].column + IF OnHeap(n) THEN 0 ELSE 1

\* The path was visited.
Visited(p) ==
    \E n \in 1 .. Len(nodes) :
        /\ SameFront(p, nodes[n].path)
        /\ \E c \in 1 .. Count(n) : Last(p) = rows[nodes[n].source][c]

\* No two nodes walk the same siblings; what was recorded or extended was
\* visited, and what was visited last was not extended before.
Walks ==
    /\ \A m, n \in 1 .. Len(nodes) :
          m # n => ~SameFront(nodes[m].path, nodes[n].path)
    /\ \A r \in 1 .. Len(records) : Visited(records[r])
    /\ \A n \in 1 .. Len(nodes), p \in Paths : Extends(nodes[n].path, p) => Visited(p)
    /\ pc \in {"sink", "extend"} =>
          /\ Visited(saved)
          /\ \A n \in 1 .. Len(nodes) : ~Extends(nodes[n].path, saved)

OnceInv == FoundOnce /\ (pc # "done" => Walks)

\* Counts are natural numbers.
LEMMA CountType == TypeInv => \A m \in 1 .. Len(nodes) : Count(m) \in Nat
  <1> SUFFICES ASSUME TypeInv, NEW m \in 1 .. Len(nodes) PROVE Count(m) \in Nat
    OBVIOUS
  <1>1. nodes[m] \in Node /\ input.atoms \in Nat
    BY ElementOfSeq, AtomsType DEF TypeInv
  <1>2. nodes[m].column \in Nat
    BY <1>1, NodeType
  <1> QED BY <1>2 DEF Count

\* They are so in the next state too.
LEMMA CountTypeNext == (TypeInv => \A m \in 1 .. Len(nodes) : Count(m) \in Nat)'
  BY CountType, PTL

\* What was visited stays so when nodes only move on along their rows.
LEMMA VisitedStays ==
    ASSUME rows' = rows, Len(nodes) \in Nat, Len(nodes') \in Nat, Len(nodes) <= Len(nodes'),
           \A n \in 1 .. Len(nodes) :
              /\ nodes'[n].source = nodes[n].source
              /\ SameFront(nodes[n].path, nodes'[n].path)
              /\ Count(n) \in Nat /\ Count(n)' \in Nat /\ Count(n) <= Count(n)'
    PROVE  \A p : Visited(p) => Visited(p)'
  <1> SUFFICES ASSUME NEW p, Visited(p) PROVE Visited(p)'
    OBVIOUS
  <1>1. PICK n \in 1 .. Len(nodes) :
           /\ SameFront(p, nodes[n].path)
           /\ \E c \in 1 .. Count(n) : Last(p) = rows[nodes[n].source][c]
    BY DEF Visited
  <1>2. PICK c \in 1 .. Count(n) : Last(p) = rows[nodes[n].source][c]
    BY <1>1
  <1>3. n \in 1 .. Len(nodes')
    OBVIOUS
  <1>4. SameFront(p, nodes'[n].path)
    BY <1>1 DEF SameFront
  <1>5. c \in 1 .. Count(n)'
    BY <1>2
  <1>6. Last(p) = rows'[nodes'[n].source][c]
    BY <1>2
  <1> QED BY <1>3, <1>4, <1>5, <1>6 DEF Visited

\* The candidate at the root was not visited before.
LEMMA RootIsNew ==
    ASSUME TypeInv, OrderInv, Walks, pc = "visit", heap # <<>>, NEW n, n = heap[1].node
    PROVE  ~Visited(nodes[n].path)
  <1> DEFINE path == nodes[n].path
  <1>1. /\ input \in Inputs /\ heap \in Seq(Entry) /\ nodes \in Seq(Node)
        /\ \A i \in 1 .. Len(heap) : heap[i].node \in 1 .. Len(nodes)
    BY DEF TypeInv
  <1>2. 1 \in 1 .. Len(heap)
    BY <1>1, EmptySeq
  <1>3. n \in 1 .. Len(nodes) /\ OnHeap(n)
    BY <1>1, <1>2 DEF OnHeap
  <1>4. nodes[n] \in Node
    BY <1>1, <1>3, ElementOfSeq
  <1>5. nodes[n].source \in Sources /\ nodes[n].column \in 0 .. input.atoms - 2
        /\ input.atoms \in Nat
    BY <1>1, <1>4, NodeType, AtomsType
  <1>6. Count(n) = nodes[n].column
    BY <1>3, <1>5 DEF Count
  <1>7. Last(path) = rows[nodes[n].source][nodes[n].column + 1]
    BY <1>3 DEF OrderInv, Fits
  <1>8. \A a, b \in 1 .. input.atoms :
           rows[nodes[n].source][a] = rows[nodes[n].source][b] => a = b
    BY <1>5, RowIs DEF Rows, Injection, IsInjective
  <1> SUFFICES ASSUME NEW m \in 1 .. Len(nodes), SameFront(path, nodes[m].path),
                      NEW c \in 1 .. Count(m), Last(path) = rows[nodes[m].source][c]
               PROVE  FALSE
    BY DEF Visited
  <1>9. m = n
    <2>1. m # n => ~SameFront(nodes[n].path, nodes[m].path)
      BY <1>3 DEF Walks
    <2> QED BY <2>1
  <1>10. Count(m) = nodes[n].column
    BY <1>6, <1>9
  <1>11. c \in 1 .. nodes[n].column
    BY <1>10
  <1>a. nodes[n].column \in Nat /\ nodes[n].column + 1 <= input.atoms
    BY <1>5
  <1>12. c \in 1 .. input.atoms
    BY <1>5, <1>a, <1>11, SMTT(30)
  <1>13. nodes[n].column + 1 \in 1 .. input.atoms
    BY <1>5, <1>a, SMTT(30)
  <1>14. c # nodes[n].column + 1
    BY <1>a, <1>11, SMTT(30)
  <1>15. rows[nodes[n].source][c] = rows[nodes[n].source][nodes[n].column + 1]
    BY <1>7, <1>9
  <1> QED BY <1>8, <1>12, <1>13, <1>14, <1>15

\* A visit adds the candidate at the root to what was visited.
LEMMA VisitWalks ==
    ASSUME TypeInv, HeapInv, OrderInv, Walks, Visit, pc' # "done"
    PROVE  Walks' /\ \A p : Visited(p) => Visited(p)'
  <1>a. PICK n : n = heap[1].node
    OBVIOUS
  <1>b. PICK path : path = nodes[n].path
    OBVIOUS
  <1>1. /\ input' = input /\ input \in Inputs /\ rows' = rows /\ pc = "visit"
        /\ heap \in Seq(Entry) /\ nodes \in Seq(Node) /\ Keyed
        /\ Len(heap) \in Nat /\ Len(nodes) \in Nat
    BY SMTT(30) DEF TypeInv, HeapInv, Visit
  <1>2. /\ heap # <<>> /\ n \in 1 .. Len(nodes) /\ nodes[n] \in Node
        /\ records' = Recorded(nodes[n]) /\ saved' = path
    BY <1>a, <1>b, VisitIs
  <1>3. 1 \in 1 .. Len(heap) /\ OnHeap(n)
    BY <1>1, <1>2, <1>a, EmptySeq DEF OnHeap
  <1>4. TypeInv'
    BY TypeVisit
  <1>5. path \in Paths /\ nodes[n].column \in Nat /\ nodes[n].source \in Sources
        /\ Len(path) \in Nat /\ Len(path) >= 1 /\ Last(path) \in Atoms
    <2>1. path \in Paths /\ nodes[n].column \in 0 .. input.atoms - 2
          /\ nodes[n].source \in Sources
      BY <1>2, <1>b, NodeType
    <2>2. input.atoms \in Nat
      BY <1>1, AtomsType
    <2>3. nodes[n].column \in Nat
      BY <2>1, <2>2
    <2>4. Len(path) \in Nat /\ Len(path) >= 1
      BY <2>1, EmptySeq DEF Paths
    <2> QED BY <1>1, <2>1, <2>3, <2>4, LengthIs
  <1>6. Count(n) = nodes[n].column
    BY <1>3, <1>5 DEF Count
  <1>7. /\ Len(nodes') = Len(nodes)
        /\ Count(n)' = nodes[n].column + 1
        /\ \A m \in 1 .. Len(nodes) :
              /\ nodes'[m].source = nodes[m].source
              /\ SameFront(nodes[m].path, nodes'[m].path)
              /\ m # n => Count(m) <= Count(m)'
    <2>1. CASE /\ HasCandidate(Moved(nodes[n]))
               /\ nodes' = [nodes EXCEPT ![n] = Renewed(nodes[n])]
               /\ heap' = [heap EXCEPT ![1].key = Length(Sibling(nodes[n]))]
      <3>1. /\ Renewed(nodes[n]).path = Sibling(nodes[n])
            /\ Renewed(nodes[n]).source = nodes[n].source
            /\ Renewed(nodes[n]).column = nodes[n].column + 1
            /\ Candidate(Moved(nodes[n])) \in Atoms
        BY <1>1, <1>2, <2>1, RenewedIs
      <3>2. /\ Len(nodes') = Len(nodes) /\ nodes'[n] = Renewed(nodes[n])
            /\ \A m \in 1 .. Len(nodes) : m # n => nodes'[m] = nodes[m]
        BY <1>1, <1>2, <2>1
      <3>3. heap[1] \in Entry
        BY <1>1, <1>3, ElementOfSeq
      <3>4. /\ Len(heap') = Len(heap)
            /\ \A i \in 1 .. Len(heap) : heap'[i].node = heap[i].node
        BY <1>1, <1>3, <2>1, <3>3 DEF Entry
      <3>5. \A m : OnHeap(m)' <=> OnHeap(m)
        BY <3>4 DEF OnHeap
      <3>6. SameFront(path, nodes'[n].path)
        <4>1. /\ Len(Sibling(nodes[n])) = Len(path)
              /\ \A i \in 1 .. Len(path) - 1 : Sibling(nodes[n])[i] = path[i]
          BY <1>5, <1>b, <3>1, SiblingType DEF Sibling
        <4> QED BY <3>1, <3>2, <4>1 DEF SameFront
      <3>7. Count(n)' = nodes[n].column + 1
        BY <1>3, <1>5, <3>1, <3>2, <3>5 DEF Count
      <3>8. \A m \in 1 .. Len(nodes) : m # n => Count(m)' = Count(m)
        BY <3>2, <3>5 DEF Count
      <3>9. \A m \in 1 .. Len(nodes) : Count(m) \in Nat
        BY CountType
      <3>10. \A m \in 1 .. Len(nodes) :
                /\ nodes'[m].source = nodes[m].source
                /\ SameFront(nodes[m].path, nodes'[m].path)
        BY <1>b, <3>1, <3>2, <3>6 DEF SameFront
      <3> QED BY <3>2, <3>7, <3>8, <3>9, <3>10
    <2>2. CASE heap' = WithoutRoot(heap) /\ nodes' = nodes
      <3>1. /\ Len(heap') = Len(heap) - 1
            /\ Len(heap) > 1 => heap'[1] = heap[Len(heap)]
            /\ \A i \in 2 .. Len(heap) - 1 : heap'[i] = heap[i]
        BY <1>1, <1>2, <2>2, WithoutRootIs
      <3>2. \A i \in 1 .. Len(heap') : \E j \in 2 .. Len(heap) : heap'[i] = heap[j]
        <4> SUFFICES ASSUME NEW i \in 1 .. Len(heap')
                     PROVE  \E j \in 2 .. Len(heap) : heap'[i] = heap[j]
          OBVIOUS
        <4>1. CASE i = 1
          BY <1>1, <3>1, <4>1
        <4>2. CASE i # 1
          BY <1>1, <3>1, <4>2
        <4> QED BY <4>1, <4>2
      <3>3. \A j \in 2 .. Len(heap) : heap[j].node # n
        BY <1>1, <1>3, <1>a DEF Keyed
      <3>4. ~OnHeap(n)'
        BY <3>2, <3>3 DEF OnHeap
      <3>5. \A m : OnHeap(m)' => OnHeap(m)
        BY <1>1, <3>2 DEF OnHeap
      <3>6. Count(n)' = nodes[n].column + 1
        BY <2>2, <3>4 DEF Count
      <3>7. \A m \in 1 .. Len(nodes) : nodes[m].column \in Int
        BY <1>1, ElementOfSeq, NodeType
      <3>8. \A m \in 1 .. Len(nodes) : Count(m) <= Count(m)'
        BY <2>2, <3>5, <3>7 DEF Count
      <3> QED BY <2>2, <3>6, <3>8 DEF SameFront
    <2> QED BY <1>a, <2>1, <2>2, VisitIs
  <1>8. \A m \in 1 .. Len(nodes) : Count(m) \in Nat /\ Count(m)' \in Nat /\ Count(m) <= Count(m)'
    <2>1. \A m \in 1 .. Len(nodes) : Count(m) \in Nat
      BY CountType
    <2>2. \A m \in 1 .. Len(nodes) : Count(m)' \in Nat
      BY <1>4, <1>7, CountTypeNext
    <2> QED BY <1>5, <1>6, <1>7, <2>1, <2>2
  <1>9. \A p : Visited(p) => Visited(p)'
    BY <1>1, <1>7, <1>8, VisitedStays
  <1>10. Visited(path)'
    <2>1. nodes[n].column + 1 \in 1 .. Count(n)'
      BY <1>5, <1>7
    <2>2. Last(path) = rows'[nodes'[n].source][nodes[n].column + 1]
      BY <1>1, <1>2, <1>7, <1>b DEF OrderInv, Fits
    <2>3. SameFront(path, nodes'[n].path)
      BY <1>2, <1>7, <1>b
    <2> QED BY <1>2, <1>7, <2>1, <2>2, <2>3 DEF Visited
  <1>11. ~Visited(path)
    BY <1>1, <1>2, <1>a, <1>b, RootIsNew
  <1>12. \A p, q, m : SameFront(nodes[m].path, nodes'[m].path)
                      => (Extends(nodes'[m].path, q) => Extends(nodes[m].path, q))
    BY DEF SameFront, Extends
  <1>13. \A l, m \in 1 .. Len(nodes') : l # m => ~SameFront(nodes'[l].path, nodes'[m].path)
    <2> SUFFICES ASSUME NEW l \in 1 .. Len(nodes), NEW m \in 1 .. Len(nodes), l # m,
                        SameFront(nodes'[l].path, nodes'[m].path)
                 PROVE  FALSE
      BY <1>7
    <2>1. SameFront(nodes[l].path, nodes'[l].path) /\ SameFront(nodes[m].path, nodes'[m].path)
      BY <1>7
    <2>2. SameFront(nodes[l].path, nodes[m].path)
      BY <2>1 DEF SameFront
    <2> QED BY <2>2 DEF Walks
  <1>14. \A p : \A r \in 1 .. Len(records') : p = records'[r] => Visited(p)'
    <2>1. \A p : \A r \in 1 .. Len(records) : p = records[r] => Visited(p)'
      BY <1>9 DEF Walks
    <2>2. CASE records' = records
      BY <2>1, <2>2
    <2>3. CASE records' = Append(records, path)
      <3>1. /\ Len(records') = Len(records) + 1 /\ records'[Len(records) + 1] = path
            /\ \A r \in 1 .. Len(records) : records'[r] = records[r]
            /\ Len(records) \in Nat
        BY <2>3, <1>5, AppendProperties DEF TypeInv, Paths
      <3> QED BY <1>10, <2>1, <3>1
    <2> QED BY <1>2, <1>b, <2>2, <2>3 DEF Recorded
  <1>15. \A m \in 1 .. Len(nodes), p \in Paths : Extends(nodes'[m].path, p) => Visited(p)'
    BY <1>7, <1>9, <1>12 DEF Walks
  <1>16. \A m \in 1 .. Len(nodes) : ~Extends(nodes'[m].path, path)
    BY <1>5, <1>7, <1>11, <1>12 DEF Walks
  <1>17. Paths' = Paths
    BY <1>1, SameInput
  <1>18. Walks'
    BY <1>2, <1>7, <1>10, <1>13, <1>14, <1>15, <1>16, <1>17 DEF Walks
  <1> QED BY <1>9, <1>18

\* A visit finds a path that was not found before.
LEMMA OnceVisit == TypeInv /\ HeapInv /\ OrderInv /\ OnceInv /\ Visit => OnceInv'
  <1> SUFFICES ASSUME TypeInv, HeapInv, OrderInv, OnceInv, Visit PROVE OnceInv'
    OBVIOUS
  <1>1. Walks /\ FoundOnce /\ pc = "visit" /\ records \in Seq(Seq(Atoms) \ {<<>>})
        /\ Len(records) \in Nat
    BY SMTT(30) DEF OnceInv, Visit, TypeInv
  <1>2. pc' # "done" => Walks'
    BY <1>1, VisitWalks
  <1>3. PICK n : n = heap[1].node
    OBVIOUS
  <1>4. PICK path : path = nodes[n].path
    OBVIOUS
  <1>5. /\ records' = Recorded(nodes[n]) /\ heap # <<>> /\ nodes[n] \in Node
    BY <1>3, VisitIs
  <1>6. \A r \in 1 .. Len(records) : records[r] # path
    <2>1. ~Visited(path)
      BY <1>1, <1>3, <1>4, <1>5, RootIsNew
    <2> QED BY <1>1, <2>1 DEF Walks
  <1>7. FoundOnce'
    <2>1. CASE records' = records
      BY <1>1, <2>1 DEF FoundOnce
    <2>2. CASE records' = Append(records, path)
      <3>1. path \in Seq(Atoms) \ {<<>>}
        BY <1>4, <1>5, NodeType DEF Paths
      <3>2. /\ Len(records') = Len(records) + 1 /\ records'[Len(records) + 1] = path
            /\ \A r \in 1 .. Len(records) : records'[r] = records[r]
            /\ DOMAIN records' = 1 .. Len(records) + 1
            /\ DOMAIN records = 1 .. Len(records)
        BY <1>1, <2>2, <3>1, AppendProperties
      <3> SUFFICES ASSUME NEW i \in 1 .. Len(records) + 1, NEW j \in 1 .. Len(records) + 1,
                          i # j, records'[i] = records'[j]
                   PROVE  FALSE
        BY <3>2 DEF FoundOnce
      <3>3. \A k \in 1 .. Len(records) + 1 : k = Len(records) + 1 \/ k \in 1 .. Len(records)
        BY <1>1
      <3> QED BY <1>1, <1>6, <3>2, <3>3 DEF FoundOnce
    <2> QED BY <1>4, <1>5, <2>1, <2>2 DEF Recorded
  <1> QED BY <1>2, <1>7 DEF OnceInv

\* A step that only reorders the heap.
LEMMA OnceSwap ==
    ASSUME OnceInv, pc # "done",
           UNCHANGED <<input, rows, nodes, records, saved>>,
           pc' = "extend" => pc \in {"sink", "extend"}, pc' = "sink" => pc = "sink",
           \A i \in 1 .. Len(heap') : \E j \in 1 .. Len(heap) : heap'[i] = heap[j],
           \A j \in 1 .. Len(heap) : \E i \in 1 .. Len(heap') : heap[j] = heap'[i]
    PROVE  OnceInv' /\ \A p : Visited(p)' <=> Visited(p)
  <1>1. \A n : OnHeap(n)' <=> OnHeap(n)
    BY DEF OnHeap
  <1>2. \A n : Count(n)' = Count(n)
    BY <1>1 DEF Count
  <1>3. \A p : Visited(p)' <=> Visited(p)
    BY <1>2 DEF Visited
  <1>4. FoundOnce'
    BY DEF OnceInv, FoundOnce
  <1>5. Walks'
    BY <1>3, SameInput DEF OnceInv, Walks
  <1>6. OnceInv'
    BY <1>4, <1>5 DEF OnceInv
  <1> QED BY <1>3, <1>6

\* A heap with two positions swapped has the entries it had before.
LEMMA SwapPermutes ==
    ASSUME NEW h \in Seq(Entry), NEW a \in 1 .. Len(h), NEW b \in 1 .. Len(h), a # b
    PROVE  \A j \in 1 .. Len(h) :
              \E k \in 1 .. Len(Swap(h, a, b)) : h[j] = Swap(h, a, b)[k]
  <1> DEFINE g == Swap(h, a, b)
  <1>1. /\ Len(g) = Len(h) /\ g[a] = h[b] /\ g[b] = h[a]
        /\ \A k \in 1 .. Len(h) : k \notin {a, b} => g[k] = h[k]
    BY SwapIs
  <1> HIDE DEF g
  <1>2. \A j \in 1 .. Len(h) : \E k \in 1 .. Len(g) : h[j] = g[k]
    BY <1>1
  <1> QED BY <1>2 DEF g

\* Sinking and rising reorder the heap and change nothing else.
LEMMA SinkPermutes ==
    ASSUME TypeInv, Sink
    PROVE  /\ UNCHANGED <<input, rows, nodes, records, saved, complete>>
           /\ pc = "sink" /\ pc' \in {"sink", "extend"}
           /\ \A i \in 1 .. Len(heap') : \E j \in 1 .. Len(heap) : heap'[i] = heap[j]
           /\ \A j \in 1 .. Len(heap) : \E i \in 1 .. Len(heap') : heap[j] = heap'[i]
  <1>1. /\ UNCHANGED <<input, rows, nodes, records, saved, complete>> /\ pc = "sink"
        /\ pc' \in {"sink", "extend"} /\ heap \in Seq(Entry) /\ at \in Int /\ at >= 1
    BY DEF TypeInv, Sink
  <1>2. CASE 2 * at <= Len(heap) /\ heap[at].key > heap[SmallerChild(at)].key
    <2>1. heap' = Swap(heap, at, SmallerChild(at))
      BY <1>2 DEF Sink
    <2>2. /\ SmallerChild(at) \in 1 .. Len(heap) /\ SmallerChild(at) > at
          /\ at \in 1 .. Len(heap)
      BY <1>1, <1>2, SmallerChildIs
    <2>3. \A k \in 1 .. Len(heap') : \E j \in 1 .. Len(heap) : heap'[k] = heap[j]
      BY <1>1, <2>1, <2>2, SwapEntries
    <2>4. \A j \in 1 .. Len(heap) : \E k \in 1 .. Len(heap') : heap[j] = heap'[k]
      BY <1>1, <2>1, <2>2, SwapPermutes
    <2> QED BY <1>1, <2>3, <2>4
  <1>3. CASE ~(2 * at <= Len(heap) /\ heap[at].key > heap[SmallerChild(at)].key)
    <2>1. heap' = heap
      BY <1>3 DEF Sink
    <2> QED BY <1>1, <2>1
  <1> QED BY <1>2, <1>3

\* The same of rising.
LEMMA RisePermutes ==
    ASSUME TypeInv, Rise
    PROVE  /\ UNCHANGED <<input, rows, nodes, records, saved, complete>>
           /\ pc = "rise" /\ pc' \in {"rise", "visit"}
           /\ \A i \in 1 .. Len(heap') : \E j \in 1 .. Len(heap) : heap'[i] = heap[j]
           /\ \A j \in 1 .. Len(heap) : \E i \in 1 .. Len(heap') : heap[j] = heap'[i]
  <1>1. /\ UNCHANGED <<input, rows, nodes, records, saved, complete>> /\ pc = "rise"
        /\ pc' \in {"rise", "visit"} /\ heap \in Seq(Entry) /\ at \in 1 .. Len(heap)
        /\ Len(heap) \in Nat
    BY DEF TypeInv, Rise
  <1>2. CASE at > 1 /\ heap[at].key < heap[Parent(at)].key
    <2>1. heap' = Swap(heap, at, Parent(at))
      BY <1>2 DEF Rise
    <2>2. Parent(at) \in 1 .. Len(heap) /\ Parent(at) # at
      <3>1. at \in 2 .. Len(heap)
        BY <1>1, <1>2
      <3> QED BY <1>1, <3>1, ParentPosition
    <2>3. \A k \in 1 .. Len(heap') : \E j \in 1 .. Len(heap) : heap'[k] = heap[j]
      BY <1>1, <2>1, <2>2, SwapEntries
    <2>4. \A j \in 1 .. Len(heap) : \E k \in 1 .. Len(heap') : heap[j] = heap'[k]
      BY <1>1, <2>1, <2>2, SwapPermutes
    <2> QED BY <1>1, <2>3, <2>4
  <1>3. CASE ~(at > 1 /\ heap[at].key < heap[Parent(at)].key)
    <2>1. heap' = heap
      BY <1>3 DEF Rise
    <2> QED BY <1>1, <2>1
  <1> QED BY <1>2, <1>3

\* Neither changes anything about what was visited.
LEMMA OnceSink ==
    TypeInv /\ OnceInv /\ Sink => OnceInv' /\ \A p : Visited(p)' <=> Visited(p)
  <1> SUFFICES ASSUME TypeInv, OnceInv, Sink
               PROVE  OnceInv' /\ \A p : Visited(p)' <=> Visited(p)
    OBVIOUS
  <1> QED BY SinkPermutes, OnceSwap

\* The same of rising.
LEMMA OnceRise ==
    TypeInv /\ OnceInv /\ Rise => OnceInv' /\ \A p : Visited(p)' <=> Visited(p)
  <1> SUFFICES ASSUME TypeInv, OnceInv, Rise
               PROVE  OnceInv' /\ \A p : Visited(p)' <=> Visited(p)
    OBVIOUS
  <1> QED BY RisePermutes, OnceSwap

\* Beginning makes the first node, and nothing was visited.
LEMMA OnceBegin == TypeInv /\ OrderInv /\ OnceInv /\ Begin => OnceInv'
  <1> SUFFICES ASSUME TypeInv, OrderInv, OnceInv, Begin PROVE OnceInv'
    OBVIOUS
  <1> DEFINE first == <<rows[Start][1]>>
             node == [path |-> first, source |-> Start, column |-> 0,
                      keep |-> KeepForOutput(first)]
  <1>1. records' = records /\ records = <<>> /\ nodes = <<>>
    BY DEF Begin, OrderInv
  <1>2. FoundOnce'
    BY <1>1 DEF FoundOnce
  <1>3. node.path = first
    OBVIOUS
  <1>4. Len(first) = 1
    OBVIOUS
  <1> HIDE DEF first, node
  <1>5. (nodes' = <<node>> /\ pc' = "visit") \/ pc' = "done"
    BY DEF Begin, node, first
  <1>6. ASSUME nodes' = <<node>>, pc' = "visit"
        PROVE  Walks'
    <2>1. Len(nodes') = 1 /\ nodes'[1] = node
      BY <1>6
    <2>2. \A n \in 1 .. Len(nodes'), p \in Paths' : ~Extends(nodes'[n].path, p)
      <3> SUFFICES ASSUME NEW p \in Paths', Extends(first, p) PROVE FALSE
        BY <1>3, <2>1
      <3>1. Len(p) \in Nat /\ Len(p) >= 1
        BY EmptySeq DEF Paths
      <3>2. Len(first) = Len(p) + 1
        BY DEF Extends
      <3> QED BY <1>4, <3>1, <3>2
    <2> QED BY <1>1, <1>6, <2>1, <2>2 DEF Walks
  <1> QED BY <1>2, <1>5, <1>6 DEF OnceInv

\* An extension starts a walk of siblings nobody walks.
LEMMA OnceExtend ==
    TypeInv /\ OnceInv /\ Extend => OnceInv' /\ \A p : Visited(p) => Visited(p)'
  <1> SUFFICES ASSUME TypeInv, OnceInv, Extend
               PROVE  OnceInv' /\ \A p : Visited(p) => Visited(p)'
    OBVIOUS
  <1>1. /\ input' = input /\ rows' = rows /\ records' = records /\ saved' = saved
        /\ pc = "extend" /\ saved \in Paths /\ heap \in Seq(Entry) /\ nodes \in Seq(Node)
        /\ Len(heap) \in Nat /\ Len(nodes) \in Nat
        /\ \A i \in 1 .. Len(heap) : heap[i].node \in 1 .. Len(nodes)
    BY DEF TypeInv, Extend
  <1>2. Walks /\ FoundOnce /\ Paths' = Paths
    BY <1>1, SameInput DEF OnceInv
  <1>3. FoundOnce'
    BY <1>1, <1>2 DEF FoundOnce
  <1> DEFINE entry == [key |-> Length(Child(saved)), node |-> Len(nodes) + 1]
  <1>4. CASE /\ \E node \in Node : node.path = Child(saved) /\ nodes' = Append(nodes, node)
             /\ entry \in Entry /\ heap' = Append(heap, entry)
             /\ pc' = "rise"
    <2>1. PICK node \in Node : node.path = Child(saved) /\ nodes' = Append(nodes, node)
      BY <1>4
    <2>2. entry.node = Len(nodes) + 1
      OBVIOUS
    <2> HIDE DEF entry
    <2>3. /\ Len(nodes') = Len(nodes) + 1 /\ nodes'[Len(nodes) + 1] = node
          /\ \A n \in 1 .. Len(nodes) : nodes'[n] = nodes[n]
          /\ Len(heap') = Len(heap) + 1 /\ heap'[Len(heap) + 1] = entry
          /\ \A i \in 1 .. Len(heap) : heap'[i] = heap[i]
      BY <1>1, <1>4, <2>1, AppendProperties
    <2>4. \A n \in 1 .. Len(nodes) : OnHeap(n)' <=> OnHeap(n)
      <3> SUFFICES ASSUME NEW n \in 1 .. Len(nodes) PROVE OnHeap(n)' <=> OnHeap(n)
        OBVIOUS
      <3>1. \A i \in 1 .. Len(heap') : i = Len(heap) + 1 \/ i \in 1 .. Len(heap)
        BY <1>1, <2>3
      <3>2. n # Len(nodes) + 1
        BY <1>1
      <3>3. heap'[Len(heap) + 1].node # n
        BY <2>2, <2>3, <3>2
      <3>4. \A i \in 1 .. Len(heap) : i \in 1 .. Len(heap') /\ heap'[i].node = heap[i].node
        BY <1>1, <2>3
      <3> QED BY <3>1, <3>3, <3>4 DEF OnHeap
    <2>5. \A n \in 1 .. Len(nodes) : Count(n)' = Count(n) /\ Count(n) \in Nat
      <3>1. \A n \in 1 .. Len(nodes) : Count(n)' = Count(n)
        BY <2>3, <2>4 DEF Count
      <3> QED BY <3>1, CountType
    <2>6. \A p : Visited(p) => Visited(p)'
      <3>1. \A n \in 1 .. Len(nodes) : SameFront(nodes[n].path, nodes'[n].path)
        BY <2>3 DEF SameFront
      <3>2. Len(nodes') \in Nat /\ Len(nodes) <= Len(nodes')
        BY <1>1, <2>3
      <3>3. \A n \in 1 .. Len(nodes) : Count(n)' \in Nat /\ Count(n) <= Count(n)'
        BY <2>5
      <3> QED BY <1>1, <2>3, <2>5, <3>1, <3>2, <3>3, VisitedStays
    <2>7. Extends(node.path, saved)
      BY <1>1, <2>1, ChildIs DEF Extends
    <2>8. \A n \in 1 .. Len(nodes) : ~Extends(nodes[n].path, saved)
      BY <1>1, <1>2 DEF Walks
    <2>9. Len(saved) \in Nat
      BY <1>1 DEF Paths
    <2>10. \A n \in 1 .. Len(nodes) :
              ~SameFront(node.path, nodes[n].path) /\ ~SameFront(nodes[n].path, node.path)
      BY <2>7, <2>8, <2>9 DEF SameFront, Extends
    <2>11. \A n \in 1 .. Len(nodes') : n = Len(nodes) + 1 \/ n \in 1 .. Len(nodes)
      BY <1>1, <2>3
    <2>12. \A m, n \in 1 .. Len(nodes') :
              m # n => ~SameFront(nodes'[m].path, nodes'[n].path)
      BY <1>2, <2>3, <2>10, <2>11 DEF Walks
    <2>13. \A p \in Paths : Extends(node.path, p) => Visited(p)'
      <3> SUFFICES ASSUME NEW p \in Paths, Extends(node.path, p) PROVE Visited(p)'
        OBVIOUS
      <3>1. Len(p) = Len(saved) /\ \A i \in 1 .. Len(p) : p[i] = saved[i]
        <4>1. Len(p) \in Nat
          BY DEF Paths
        <4> QED BY <2>7, <2>9, <4>1 DEF Extends
      <3>2. p = saved
        <4>1. p \in Seq(Atoms) /\ saved \in Seq(Atoms)
          BY <1>1 DEF Paths
        <4> QED BY <3>1, <4>1, SeqEqual
      <3>3. Visited(p)
        BY <1>1, <1>2, <3>2 DEF Walks
      <3> QED BY <2>6, <3>3
    <2>14. \A n \in 1 .. Len(nodes'), p \in Paths : Extends(nodes'[n].path, p) => Visited(p)'
      BY <1>2, <2>3, <2>6, <2>11, <2>13 DEF Walks
    <2>15. \A p : \A r \in 1 .. Len(records') : p = records'[r] => Visited(p)'
      BY <1>1, <1>2, <2>6 DEF Walks
    <2>16. Walks'
      BY <1>2, <1>4, <2>12, <2>14, <2>15 DEF Walks
    <2>17. OnceInv'
      BY <1>3, <2>16 DEF OnceInv
    <2> QED BY <2>6, <2>17
  <1>5. CASE nodes' = nodes /\ heap' = heap /\ at' = at /\ pc' = "visit"
    BY <1>1, <1>5, OnceSwap
  <1> QED BY <1>4, <1>5, ExtendIs

\* Every step keeps the walks apart.
LEMMA OnceStep == TypeInv /\ HeapInv /\ OrderInv /\ OnceInv /\ [Next]_vars => OnceInv'
  <1> SUFFICES ASSUME TypeInv, HeapInv, OrderInv, OnceInv, [Next]_vars PROVE OnceInv'
    OBVIOUS
  <1>1. CASE Prepare
    <2>1. nodes' = <<>> /\ records' = <<>> /\ pc' \in {"begin", "prepare"}
      BY <1>1 DEF Prepare, OrderInv
    <2> QED BY <2>1 DEF OnceInv, FoundOnce, Walks
  <1>2. CASE Exhaust
    BY <1>2 DEF Exhaust, OnceInv, FoundOnce
  <1>3. CASE UNCHANGED vars
    <2>1. UNCHANGED <<input, rows, nodes, heap, records, saved, pc>>
      BY <1>3 DEF vars
    <2>2. CASE pc = "done"
      BY <2>1, <2>2 DEF OnceInv, FoundOnce
    <2>3. CASE pc # "done"
      BY <2>1, <2>3, OnceSwap
    <2> QED BY <2>2, <2>3
  <1> QED BY <1>1, <1>2, <1>3, OnceBegin, OnceVisit, OnceSink, OnceExtend, OnceRise DEF Next

\* No path is recorded twice, for any cluster, limits and criteria.
THEOREM EachFoundOnce == Spec => []FoundOnce
  <1>1. Init => OnceInv
    BY DEF Init, OnceInv, FoundOnce, Walks
  <1>2. OnceInv => FoundOnce
    BY DEF OnceInv
  <1> QED BY <1>1, <1>2, TypeInit, TypeStep, HeapInit, HeapStep, OrderInit, OrderStep,
             OnceStep, PTL DEF Spec

-----------------------------------------------------------------------------
\* Nothing is missed

\* The atom a path comes from on its i-th leg.
Before(p, i) == IF i = 1 THEN Start ELSE p[i - 1]

\* No path goes on to the atom from there.
Excluded(s, a) == a = s \/ (s = Start /\ a \notin input.firstBounce)

\* Excluded atoms have a key above all others.
LEMMA KeyIs ==
    ASSUME input \in Inputs, NEW s \in Sources, NEW a \in Atoms
    PROVE  /\ Key(s, a) \in Nat
           /\ Excluded(s, a) => Key(s, a) = Far
           /\ ~Excluded(s, a) =>
                 /\ Key(s, a) < Far
                 /\ Key(s, a) = Distance(From(s), a) + Distance(a, 0)
  <1>1. From(s) \in Atoms /\ 0 \in Atoms
    BY AtomsType DEF From, Sources
  <1>2. /\ Distance(From(s), a) \in Nat /\ Distance(a, 0) \in Nat
        /\ Distance(From(s), a) + Distance(a, 0) < Far
    BY <1>1, Metric
  <1>3. CASE Excluded(s, a)
    <2>1. Key(s, a) = Far
      BY <1>3 DEF Key, Excluded
    <2> QED BY <1>3, <2>1, FarAssumption
  <1>4. CASE ~Excluded(s, a)
    <2>1. Key(s, a) = Distance(From(s), a) + Distance(a, 0)
      BY <1>4 DEF Key, Excluded
    <2> QED BY <1>2, <1>4, <2>1
  <1> QED BY <1>3, <1>4

\* A row is sorted.
LEMMA RowSorted ==
    ASSUME input \in Inputs, NEW s \in Sources, NEW row \in Rows(s),
           NEW i \in 1 .. input.atoms, NEW j \in 1 .. input.atoms, i <= j
    PROVE  Key(s, row[i]) <= Key(s, row[j])
  <1>1. input.atoms \in Nat
    BY AtomsType
  <1>2. \A k \in 1 .. input.atoms : row[k] \in Atoms /\ Key(s, row[k]) \in Nat
    BY RowType, KeyIs
  <1>3. \A k \in 1 .. input.atoms - 1 : Key(s, row[k]) <= Key(s, row[k + 1])
    BY DEF Rows
  <1> DEFINE Bad == {k \in i .. input.atoms : ~(Key(s, row[i]) <= Key(s, row[k]))}
  <1>4. SUFFICES ASSUME Bad # {} PROVE FALSE
    BY <1>1
  <1>5. PICK m \in Bad : \A k \in Bad : m <= k
    <2>1. Bad \in SUBSET Nat
      BY <1>1
    <2> HIDE DEF Bad
    <2> QED BY <1>4, <2>1, Least
  <1>6. m \in i .. input.atoms /\ ~(Key(s, row[i]) <= Key(s, row[m]))
    OBVIOUS
  <1>7. m # i
    BY <1>2, <1>6
  <1>8. m - 1 \in i .. input.atoms /\ m - 1 \in 1 .. input.atoms - 1 /\ m \in 1 .. input.atoms
    BY <1>1, <1>6, <1>7
  <1>9. Key(s, row[i]) <= Key(s, row[m - 1])
    <2>1. m - 1 \notin Bad
      BY <1>1, <1>5, <1>8
    <2> QED BY <1>8, <2>1
  <1>10. Key(s, row[m - 1]) <= Key(s, row[m])
    <2>1. (m - 1) + 1 = m
      BY <1>8
    <2> QED BY <1>3, <1>8, <2>1
  <1>11. m - 1 \in 1 .. input.atoms
    BY <1>1, <1>8
  <1> QED BY <1>2, <1>6, <1>8, <1>9, <1>10, <1>11

\* A row has every atom.
LEMMA RowOnto ==
    ASSUME input \in Inputs, NEW s, NEW row \in Rows(s), NEW a \in Atoms
    PROVE  \E d \in 1 .. input.atoms : row[d] = a
  <1>1. input.atoms \in Nat /\ input.atoms >= 2 /\ Atoms = 0 .. input.atoms - 1
    BY AtomsType DEF Atoms, AtomsOf
  <1>2. row \in Injection(1 .. input.atoms, Atoms)
    BY DEF Rows
  <1>3. /\ IsFiniteSet(Atoms) /\ Cardinality(Atoms) = input.atoms
        /\ Cardinality(1 .. input.atoms) = input.atoms
    BY <1>1, FS_Interval
  <1>4. row \in Surjection(1 .. input.atoms, Atoms)
    BY <1>2, <1>3, FS_Injection
  <1> QED BY <1>4 DEF Surjection

\* In a row the excluded atoms come last; there is one, and one that is not.
LEMMA RowEnds ==
    ASSUME input \in Inputs, NEW s \in Sources, NEW row \in Rows(s)
    PROVE  /\ \A i, j \in 1 .. input.atoms :
                 i <= j /\ Excluded(s, row[i]) => Excluded(s, row[j])
           /\ Excluded(s, row[input.atoms])
           /\ ~Excluded(s, row[1])
  <1>1. /\ input.atoms \in Nat /\ input.atoms >= 2 /\ 0 \in Atoms /\ Atoms \subseteq Nat
        /\ input.firstBounce \subseteq Atoms \ {0} /\ input.firstBounce # {}
    BY AtomsType
  <1>2. \A k \in 1 .. input.atoms :
           /\ row[k] \in Atoms /\ Key(s, row[k]) \in Nat
           /\ Excluded(s, row[k]) => Key(s, row[k]) = Far
           /\ ~Excluded(s, row[k]) => Key(s, row[k]) < Far
    BY RowType, KeyIs
  <1>3. ASSUME NEW i \in 1 .. input.atoms, NEW j \in 1 .. input.atoms, i <= j,
               Excluded(s, row[i])
        PROVE  Excluded(s, row[j])
    <2>1. Key(s, row[i]) <= Key(s, row[j])
      BY <1>3, RowSorted
    <2> QED BY <1>2, <1>3, <2>1, FarAssumption
  <1>4. Excluded(s, row[input.atoms])
    <2>1. PICK a \in Atoms : Excluded(s, a)
      BY <1>1 DEF Excluded, Sources
    <2>2. PICK d \in 1 .. input.atoms : row[d] = a
      BY RowOnto
    <2>3. d <= input.atoms /\ input.atoms \in 1 .. input.atoms
      BY <1>1
    <2> QED BY <1>3, <2>1, <2>2, <2>3
  <1>5. ~Excluded(s, row[1])
    <2>1. PICK a \in Atoms : ~Excluded(s, a)
      <3>1. CASE s = Start
        <4>1. PICK a \in input.firstBounce : TRUE
          BY <1>1
        <4>2. a \in Atoms /\ a \in Nat
          BY <1>1, <4>1
        <4>3. a # Start
          BY <4>2 DEF Start
        <4> QED BY <3>1, <4>1, <4>2, <4>3 DEF Excluded
      <3>2. CASE s # Start
        <4>1. s = 0 => 1 \in Atoms /\ 1 # s
          BY <1>1 DEF Atoms, AtomsOf
        <4> QED BY <1>1, <3>2, <4>1 DEF Excluded
      <3> QED BY <3>1, <3>2
    <2>2. PICK d \in 1 .. input.atoms : row[d] = a
      BY RowOnto
    <2>3. 1 <= d /\ 1 \in 1 .. input.atoms
      BY <1>1
    <2> QED BY <1>3, <2>1, <2>2, <2>3
  <1> QED BY <1>3, <1>4, <1>5

-----------------------------------------------------------------------------
\* Paths that begin alike

\* The path begins as the other does, but perhaps for the other's last atom.
Branches(p, q) == Len(q) <= Len(p) /\ \A i \in 1 .. Len(q) - 1 : p[i] = q[i]

\* The length of the closed path of the first atoms.
Closed(p, i) == Walked(p)[i] + Distance(p[i], 0)

\* A part of a path is not longer than the path.
LEMMA PartShorter ==
    ASSUME input \in Inputs, NEW p \in Paths, NEW i \in 1 .. Len(p)
    PROVE  Closed(p, i) \in Nat /\ Closed(p, i) <= Length(p)
  <1>1. /\ p \in Seq(Atoms) /\ Len(p) \in Nat /\ Len(p) >= 1 /\ 0 \in Atoms
        /\ \A k \in 1 .. Len(p) : p[k] \in Atoms
    BY EmptySeq, AtomsType DEF Paths
  <1>2. \A k \in 1 .. Len(p) : Walked(p)[k] \in Nat /\ Distance(p[k], 0) \in Nat
    <2> SUFFICES ASSUME NEW k \in 1 .. Len(p)
                 PROVE  Walked(p)[k] \in Nat /\ Distance(p[k], 0) \in Nat
      OBVIOUS
    <2>1. Walked(p)[k] \in Nat
      <3>1. k \in 0 .. Len(p) /\ Walked(p) \in [0 .. Len(p) -> Nat]
        BY <1>1, WalkedIs
      <3> QED BY <3>1
    <2> QED BY <1>1, <2>1, Metric
  <1>3. \A k \in 1 .. Len(p) : Closed(p, k) \in Nat
    BY <1>2 DEF Closed
  <1>4. \A k \in 2 .. Len(p) : Closed(p, k - 1) <= Closed(p, k)
    <2> SUFFICES ASSUME NEW k \in 2 .. Len(p) PROVE Closed(p, k - 1) <= Closed(p, k)
      OBVIOUS
    <2>1. k \in 1 .. Len(p) /\ k - 1 \in 1 .. Len(p) /\ k # 1
      BY <1>1
    <2>2. Walked(p)[k] = Walked(p)[k - 1] + Distance(p[k - 1], p[k])
      BY <1>1, <2>1, WalkedIs DEF Leg
    <2>3. /\ Distance(p[k - 1], 0) <= Distance(p[k - 1], p[k]) + Distance(p[k], 0)
          /\ Distance(p[k - 1], p[k]) \in Nat
      BY <1>1, <2>1, Metric
    <2>4. /\ Walked(p)[k - 1] \in Nat
          /\ Distance(p[k - 1], 0) \in Nat /\ Distance(p[k], 0) \in Nat
      BY <1>2, <2>1
    <2>5. Walked(p)[k - 1] + Distance(p[k - 1], 0) <= Walked(p)[k] + Distance(p[k], 0)
      BY <2>2, <2>3, <2>4
    <2> QED BY <2>5 DEF Closed
  <1>5. Length(p) = Closed(p, Len(p))
    BY DEF Length, Closed, Last
  <1> DEFINE Bad == {k \in i .. Len(p) : ~(Closed(p, i) <= Closed(p, k))}
  <1>6. Bad = {}
    <2> SUFFICES ASSUME Bad # {} PROVE FALSE
      OBVIOUS
    <2>1. PICK m \in Bad : \A k \in Bad : m <= k
      <3>1. Bad \in SUBSET Nat
        BY <1>1
      <3> HIDE DEF Bad
      <3> QED BY <3>1, Least
    <2>2. m \in i .. Len(p) /\ ~(Closed(p, i) <= Closed(p, m))
      OBVIOUS
    <2>3. m # i
      BY <1>3, <2>2
    <2>4. m - 1 \in i .. Len(p) /\ m \in 2 .. Len(p)
      BY <1>1, <2>2, <2>3
    <2>5. Closed(p, i) <= Closed(p, m - 1)
      <3>1. m - 1 \notin Bad
        BY <1>1, <2>1, <2>4
      <3> QED BY <2>4, <3>1
    <2>6. Closed(p, m - 1) <= Closed(p, m)
      BY <1>4, <2>4
    <2>7. m \in 1 .. Len(p) /\ m - 1 \in 1 .. Len(p)
      BY <1>1, <2>4
    <2> QED BY <1>3, <2>2, <2>5, <2>6, <2>7
  <1>7. Len(p) \in i .. Len(p)
    BY <1>1
  <1> QED BY <1>3, <1>5, <1>6, <1>7

\* A path that takes a later turn is not shorter.
LEMMA BranchLonger ==
    ASSUME input \in Inputs, NEW p \in Paths, NEW q \in Paths, Branches(p, q),
           NEW s \in Sources, s = Before(q, Len(q)),
           ~Excluded(s, Last(q)), ~Excluded(s, p[Len(q)]),
           Key(s, Last(q)) <= Key(s, p[Len(q)])
    PROVE  Length(q) <= Length(p)
  <1> DEFINE n == Len(q)
  <1>1. /\ p \in Seq(Atoms) /\ q \in Seq(Atoms) /\ n \in Nat /\ n >= 1 /\ n <= Len(p)
        /\ \A k \in 1 .. n - 1 : p[k] = q[k]
        /\ Len(p) \in Nat
    BY EmptySeq DEF Paths, Branches
  <1>2. n \in 1 .. Len(p) /\ n \in 1 .. Len(q) /\ Last(q) = q[n]
        /\ p[n] \in Atoms /\ q[n] \in Atoms
    BY <1>1 DEF Last
  <1>3. Walked(p)[n - 1] = Walked(q)[n - 1] /\ Walked(q)[n - 1] \in Nat
    <2>1. n - 1 \in Nat /\ n - 1 <= Len(p) /\ n - 1 <= Len(q)
      BY <1>1
    <2> HIDE DEF n
    <2>2. Walked(p)[n - 1] = Walked(q)[n - 1]
      BY <1>1, <2>1, SamePrefix
    <2> QED BY <2>2, LengthIs DEF n
  <1>4. Leg(q, n) = Distance(From(s), q[n]) /\ Leg(p, n) = Distance(From(s), p[n])
    <2>1. CASE n = 1
      BY <1>2, <2>1 DEF Leg, Before, From
    <2>2. CASE n # 1
      <3>1. n - 1 \in 1 .. n - 1 /\ n - 1 \in 1 .. Len(q)
        <4> HIDE DEF n
        <4>1. n - 1 \in 1 .. n - 1 /\ n - 1 \in 1 .. n
          BY <1>1, <2>2
        <4> QED BY <4>1 DEF n
      <3>2. q[n - 1] \in Atoms /\ q[n - 1] \in Nat
        BY <1>1, <3>1, AtomsType
      <3>3. s = q[n - 1] /\ p[n - 1] = q[n - 1]
        BY <1>1, <2>2, <3>1 DEF Before
      <3>4. s # Start
        BY <3>2, <3>3 DEF Start
      <3> QED BY <1>2, <2>2, <3>3, <3>4 DEF Leg, From
    <2> QED BY <2>1, <2>2
  <1>5. /\ Key(s, q[n]) = Leg(q, n) + Distance(q[n], 0)
        /\ Key(s, p[n]) = Leg(p, n) + Distance(p[n], 0)
    BY <1>2, <1>4, KeyIs
  <1>6. Walked(p)[n] = Walked(p)[n - 1] + Leg(p, n)
    BY <1>1, <1>2, WalkedIs
  <1>7. Length(q) = Walked(q)[n - 1] + Leg(q, n) + Distance(q[n], 0)
    BY <1>2, LengthIs
  <1>8. /\ Leg(q, n) \in Nat /\ Leg(p, n) \in Nat
        /\ Distance(q[n], 0) \in Nat /\ Distance(p[n], 0) \in Nat
    BY <1>1, <1>2, LegType, Metric, AtomsType
  <1>9. Length(q) <= Closed(p, n)
    <2>1. Closed(p, n) = Walked(q)[n - 1] + Leg(p, n) + Distance(p[n], 0)
      BY <1>3, <1>6 DEF Closed
    <2>2. Leg(q, n) + Distance(q[n], 0) <= Leg(p, n) + Distance(p[n], 0)
      BY <1>2, <1>5
    <2> HIDE DEF n
    <2> QED BY <1>3, <1>7, <1>8, <2>1, <2>2
  <1>10. Closed(p, n) \in Nat /\ Closed(p, n) <= Length(p)
    BY <1>2, PartShorter
  <1>11. Length(p) \in Nat /\ Length(q) \in Nat
    BY LengthIs
  <1> QED BY <1>9, <1>10, <1>11

-----------------------------------------------------------------------------
\* What the criteria turn away

\* The importance criterion turned the i-th atom away, or one before it in its
\* row.
Turned(p, i) ==
    \E c, d \in 1 .. input.atoms :
        /\ rows[Before(p, i)][d] = p[i] /\ c <= d
        /\ Append(SubSeq(p, 1, i - 1), rows[Before(p, i)][c]) \in input.weak

Passable(p, i) == ~Excluded(Before(p, i), p[i]) /\ ~Turned(p, i)

\* The search may find the path, or passes it on the way to others.
Good(p) == (\A i \in 1 .. Len(p) : Passable(p, i)) /\ Length(p) <= input.maxLength

\* The atoms before a path's i-th are sources of rows.
LEMMA BeforeType ==
    ASSUME NEW p \in Paths, NEW i \in 1 .. Len(p)
    PROVE  Before(p, i) \in Sources /\ p[i] \in Atoms
  <1>1. p \in Seq(Atoms) /\ Len(p) \in Nat
    BY DEF Paths
  <1>2. p[i] \in Atoms
    BY <1>1
  <1>3. CASE i = 1
    BY <1>2, <1>3 DEF Before, Sources
  <1>4. CASE i # 1
    <2>1. i - 1 \in 1 .. Len(p)
      BY <1>1, <1>4
    <2>2. p[i - 1] \in Atoms
      BY <1>1, <2>1
    <2> QED BY <1>2, <1>4, <2>2 DEF Before, Sources
  <1> QED BY <1>3, <1>4

\* The front of a path with an atom after it.
LEMMA FrontIs ==
    ASSUME NEW p \in Seq(Atoms), NEW i \in 1 .. Len(p), NEW a \in Atoms
    PROVE  /\ Append(SubSeq(p, 1, i - 1), a) \in Seq(Atoms)
           /\ Len(Append(SubSeq(p, 1, i - 1), a)) = i
           /\ Append(SubSeq(p, 1, i - 1), a)[i] = a
           /\ \A k \in 1 .. i - 1 : Append(SubSeq(p, 1, i - 1), a)[k] = p[k]
  <1> DEFINE f == SubSeq(p, 1, i - 1)
  <1>1. Len(p) \in Nat /\ i - 1 \in 0 .. Len(p) /\ i \in Nat
    OBVIOUS
  <1>2. \A k \in 1 .. i - 1 : p[k] \in Atoms
    BY <1>1
  <1>3. f \in Seq(Atoms) /\ Len(f) = i - 1 /\ \A k \in 1 .. i - 1 : f[k] = p[k]
    BY <1>1, <1>2, SubSeqProperties
  <1> HIDE DEF f
  <1>4. /\ Append(f, a) \in Seq(Atoms) /\ Len(Append(f, a)) = (i - 1) + 1
        /\ Append(f, a)[(i - 1) + 1] = a
        /\ \A k \in 1 .. i - 1 : Append(f, a)[k] = p[k]
    BY <1>1, <1>3, AppendProperties
  <1>5. (i - 1) + 1 = i
    BY <1>1
  <1> QED BY <1>4, <1>5 DEF f

\* It depends on the front alone.
LEMMA FrontSame ==
    ASSUME NEW p \in Seq(Atoms), NEW q \in Seq(Atoms), NEW i \in 1 .. Len(p),
           i <= Len(q), \A k \in 1 .. i - 1 : p[k] = q[k], NEW a \in Atoms
    PROVE  /\ Append(SubSeq(p, 1, i - 1), a) = Append(SubSeq(q, 1, i - 1), a)
           /\ i = Len(q) /\ a = q[i] => Append(SubSeq(p, 1, i - 1), a) = q
  <1> DEFINE f == Append(SubSeq(p, 1, i - 1), a)
             g == Append(SubSeq(q, 1, i - 1), a)
  <1>1. i \in Nat /\ i >= 1 /\ i \in 1 .. Len(q)
    OBVIOUS
  <1>2. /\ f \in Seq(Atoms) /\ Len(f) = i /\ f[i] = a
        /\ \A k \in 1 .. i - 1 : f[k] = p[k]
    BY FrontIs
  <1>3. /\ g \in Seq(Atoms) /\ Len(g) = i /\ g[i] = a
        /\ \A k \in 1 .. i - 1 : g[k] = q[k]
    BY <1>1, FrontIs
  <1> HIDE DEF f, g
  <1>4. \A k \in 1 .. i : k = i \/ k \in 1 .. i - 1
    BY <1>1
  <1>5. f = g
    <2>1. \A k \in 1 .. Len(f) : f[k] = g[k]
      BY <1>2, <1>3, <1>4
    <2> QED BY <1>2, <1>3, <2>1, SeqEqual
  <1>6. ASSUME i = Len(q), a = q[i] PROVE f = q
    <2>1. \A k \in 1 .. Len(f) : f[k] = q[k]
      BY <1>2, <1>4, <1>6
    <2> QED BY <1>2, <1>6, <2>1, SeqEqual
  <1> QED BY <1>5, <1>6 DEF f, g

\* What is asked of an atom of a path depends on the path up to it.
LEMMA PassableSame ==
    ASSUME TypeInv, pc # "prepare", NEW p \in Paths, NEW q \in Paths,
           NEW i \in 1 .. Len(p), i <= Len(q), \A k \in 1 .. i : p[k] = q[k],
           Passable(p, i)
    PROVE  Passable(q, i)
  <1>1. /\ p \in Seq(Atoms) /\ q \in Seq(Atoms) /\ Len(p) \in Nat /\ Len(q) \in Nat
        /\ i \in Nat /\ i >= 1 /\ i \in 1 .. i
    BY DEF Paths
  <1>2. p[i] = q[i]
    BY <1>1
  <1>3. Before(p, i) = Before(q, i)
    <2>1. i # 1 => i - 1 \in 1 .. i
      BY <1>1
    <2> QED BY <2>1 DEF Before
  <1>4. \A c \in 1 .. input.atoms : rows[Before(p, i)][c] \in Atoms
    BY BeforeType, RowIs
  <1>5. \A k \in 1 .. i - 1 : p[k] = q[k]
    BY <1>1
  <1>6. \A c \in 1 .. input.atoms :
           Append(SubSeq(p, 1, i - 1), rows[Before(p, i)][c])
              = Append(SubSeq(q, 1, i - 1), rows[Before(q, i)][c])
    BY <1>1, <1>3, <1>4, <1>5, FrontSame
  <1> QED BY <1>2, <1>3, <1>6 DEF Passable, Turned

\* The wanted paths are the good ones that the output criterion keeps.
LEMMA WantedIs ==
    ASSUME TypeInv, pc # "prepare", NEW p
    PROVE  p \in Wanted <=> p \in Paths /\ Good(p) /\ KeepForOutput(p)
  <1>1. /\ input.maxAtoms \in Nat /\ Atoms \subseteq Nat
        /\ input.firstBounce \subseteq Atoms \ {0}
    BY AtomsType DEF TypeInv
  <1>2. p \in UNION {[1 .. n -> Atoms] : n \in 1 .. input.maxAtoms} <=> p \in Paths
    <2>1. ASSUME NEW n \in 1 .. input.maxAtoms, p \in [1 .. n -> Atoms] PROVE p \in Paths
      <3>1. n \in Nat /\ n >= 1
        BY <1>1
      <3>2. p \in Seq(Atoms) /\ Len(p) = n
        BY <2>1, <3>1
      <3> QED BY <1>1, <3>1, <3>2 DEF Paths
    <2>2. ASSUME p \in Paths
          PROVE  Len(p) \in 1 .. input.maxAtoms /\ p \in [1 .. Len(p) -> Atoms]
      BY <1>1, <2>2, EmptySeq DEF Paths
    <2> QED BY <2>1, <2>2
  <1> SUFFICES ASSUME p \in Paths
               PROVE  (IsPath(p) /\ ~Pruned(p)) <=> \A i \in 1 .. Len(p) : Passable(p, i)
    BY <1>2 DEF Wanted, Good
  <1>3. p \in Seq(Atoms) /\ p # <<>> /\ Len(p) \in Nat /\ Len(p) >= 1 /\ DOMAIN p = 1 .. Len(p)
    BY EmptySeq DEF Paths
  <1>4. \A i \in 1 .. Len(p) : DOMAIN rows[Before(p, i)] = 1 .. input.atoms
    <2> SUFFICES ASSUME NEW i \in 1 .. Len(p)
                 PROVE  DOMAIN rows[Before(p, i)] = 1 .. input.atoms
      OBVIOUS
    <2>1. rows[Before(p, i)] \in [1 .. input.atoms -> Atoms]
      BY BeforeType, RowIs, RowType
    <2> QED BY <2>1
  <1>5. Pruned(p) <=> \E i \in 1 .. Len(p) : Turned(p, i)
    BY <1>3, <1>4 DEF Pruned, Turned, Before
  <1>6. IsPath(p) <=> \A i \in 1 .. Len(p) : ~Excluded(Before(p, i), p[i])
    <2>1. ~Excluded(Before(p, 1), p[1]) <=> p[1] \in input.firstBounce
      <3>1. p[1] \in Nat
        <4>1. 1 \in 1 .. Len(p)
          BY <1>3
        <4>2. p[1] \in Atoms
          BY <4>1, BeforeType
        <4> QED BY <1>1, <4>2
      <3>2. p[1] # Start
        BY <3>1 DEF Start
      <3> QED BY <3>2 DEF Excluded, Before
    <2>2. \A i \in 2 .. Len(p) : ~Excluded(Before(p, i), p[i]) <=> p[i - 1] # p[i]
      <3> SUFFICES ASSUME NEW i \in 2 .. Len(p)
                   PROVE  ~Excluded(Before(p, i), p[i]) <=> p[i - 1] # p[i]
        OBVIOUS
      <3>1. i - 1 \in 1 .. Len(p) /\ i # 1
        BY <1>3
      <3>2. p[i - 1] \in Nat
        <4>1. p[i - 1] \in Atoms
          BY <3>1, BeforeType
        <4> QED BY <1>1, <4>1
      <3>3. Before(p, i) = p[i - 1] /\ Before(p, i) # Start
        BY <3>1, <3>2 DEF Before, Start
      <3> QED BY <3>3 DEF Excluded
    <2>3. (\A i \in 1 .. Len(p) - 1 : p[i] # p[i + 1])
             <=> \A i \in 2 .. Len(p) : p[i - 1] # p[i]
      <3>1. ASSUME \A i \in 1 .. Len(p) - 1 : p[i] # p[i + 1], NEW i \in 2 .. Len(p)
            PROVE  p[i - 1] # p[i]
        <4>1. i - 1 \in 1 .. Len(p) - 1 /\ (i - 1) + 1 = i
          BY <1>3
        <4> QED BY <3>1, <4>1
      <3>2. ASSUME \A i \in 2 .. Len(p) : p[i - 1] # p[i], NEW i \in 1 .. Len(p) - 1
            PROVE  p[i] # p[i + 1]
        <4>1. i + 1 \in 2 .. Len(p) /\ (i + 1) - 1 = i
          BY <1>3
        <4> QED BY <3>2, <4>1
      <3> QED BY <3>1, <3>2
    <2>4. \A i : i \in 1 .. Len(p) <=> i = 1 \/ i \in 2 .. Len(p)
      BY <1>3
    <2> QED BY <1>3, <2>1, <2>2, <2>3, <2>4 DEF IsPath
  <1> QED BY <1>5, <1>6 DEF Passable

\* In a full row a free candidate stands before the row's last place, and one
\* that stands there or is no first bounce is excluded.
LEMMA CandidateIs ==
    ASSUME TypeInv, pc # "prepare", NEW node \in Node
    PROVE  /\ node.source \in Sources /\ node.column \in Nat /\ input.atoms \in Nat
           /\ node.column + 1 \in 1 .. input.atoms /\ node.column + 2 \in 1 .. input.atoms
           /\ HasCandidate(Moved(node))
                 <=> ~Excluded(node.source, rows[node.source][node.column + 2])
  <1> DEFINE s == node.source
             c == node.column + 2
             a == rows[s][c]
  <1>1. /\ s \in Sources /\ node.column \in 0 .. input.atoms - 2
        /\ input \in Inputs /\ input.atoms \in Nat /\ Atoms \subseteq Nat
    BY NodeType, AtomsType DEF TypeInv
  <1>2. /\ node.column \in Nat /\ node.column + 1 \in 1 .. input.atoms
        /\ c \in 1 .. input.atoms
    BY <1>1
  <1>3. rows[s] \in Rows(s) /\ a \in Atoms
    BY <1>1, <1>2, RowIs
  <1>4. HasCandidate(Moved(node)) <=> c < input.atoms /\ (s = Start => a \in input.firstBounce)
    <2>1. Moved(node).column + 1 = c /\ Moved(node).source = s
      BY <1>2, MovedIs
    <2>2. Moved(node).column < input.atoms - 1 <=> c < input.atoms
      BY <1>1, <1>2, MovedIs
    <2> QED BY <2>1, <2>2 DEF HasCandidate
  <1>5. a # Start /\ 0 # Start
    <2>1. a \in Nat
      BY <1>1, <1>3
    <2> QED BY <2>1 DEF Start
  <1>6. CASE c < input.atoms
    <2>1. c \in 1 .. input.atoms - 1
      BY <1>1, <1>2, <1>6
    <2>2. s \in Atoms => a # s
      BY <1>1, <1>3, <2>1, NotExcluded
    <2>3. a # s
      BY <1>1, <1>5, <2>2 DEF Sources
    <2>4. Excluded(s, a) <=> s = Start /\ a \notin input.firstBounce
      BY <2>3 DEF Excluded
    <2>5. HasCandidate(Moved(node)) <=> (s = Start => a \in input.firstBounce)
      BY <1>4, <1>6
    <2> QED BY <1>1, <1>2, <2>4, <2>5
  <1>7. CASE ~(c < input.atoms)
    <2>1. c = input.atoms
      BY <1>1, <1>2, <1>7
    <2>2. Excluded(s, a)
      BY <1>1, <1>3, <2>1, RowEnds
    <2> QED BY <1>1, <1>2, <1>4, <1>7, <2>2
  <1> QED BY <1>6, <1>7

\* A candidate that is added to the heap is passable at its last atom, if
\* none before it in its row was turned away.
LEMMA LastPassable ==
    ASSUME TypeInv, pc # "prepare", NEW p \in Paths, AddToHeap(p),
           NEW d \in 1 .. input.atoms, Last(p) = rows[Before(p, Len(p))][d],
           ~Excluded(Before(p, Len(p)), Last(p)),
           \A c \in 1 .. d - 1 :
              Append(SubSeq(p, 1, Len(p) - 1), rows[Before(p, Len(p))][c]) \notin input.weak
    PROVE  Passable(p, Len(p))
  <1> DEFINE n == Len(p)
             s == Before(p, n)
  <1>1. /\ p \in Seq(Atoms) /\ n \in Nat /\ n >= 1 /\ n \in 1 .. Len(p) /\ Last(p) = p[n]
        /\ input \in Inputs
    BY EmptySeq DEF Paths, Last, TypeInv
  <1>2. s \in Sources /\ p[n] \in Atoms
    BY <1>1, BeforeType
  <1>3. \A a, b \in 1 .. input.atoms : rows[s][a] = rows[s][b] => a = b
    BY <1>2, RowIs DEF Rows, Injection, IsInjective
  <1>4. p \notin input.weak
    BY <1>1, InputsAssumption DEF AddToHeap
  <1>5. Append(SubSeq(p, 1, n - 1), p[n]) = p
    BY <1>1, <1>2, FrontSame
  <1> SUFFICES ASSUME Turned(p, n) PROVE FALSE
    BY <1>1 DEF Passable
  <1>6. PICK c, e \in 1 .. input.atoms :
           /\ rows[s][e] = p[n] /\ c <= e
           /\ Append(SubSeq(p, 1, n - 1), rows[s][c]) \in input.weak
    BY DEF Turned
  <1>7. e = d
    BY <1>1, <1>3, <1>6
  <1>8. c = d \/ c \in 1 .. d - 1
    BY <1>6, <1>7
  <1>9. c # d
    BY <1>1, <1>4, <1>5, <1>6
  <1> QED BY <1>6, <1>8, <1>9

\* A candidate that is not added takes no good path with it: neither a path
\* through itself nor one through what comes after it in its row.
LEMMA NothingBehind ==
    ASSUME TypeInv, pc # "prepare", NEW q \in Paths, ~AddToHeap(q),
           NEW s, s = Before(q, Len(q)), NEW c \in 1 .. input.atoms, Last(q) = rows[s][c],
           ~Excluded(s, Last(q)),
           NEW p \in Paths, Branches(p, q),
           NEW d \in 1 .. input.atoms, c <= d, p[Len(q)] = rows[s][d]
    PROVE  ~Good(p)
  <1> SUFFICES ASSUME Good(p) PROVE FALSE
    OBVIOUS
  <1> DEFINE n == Len(q)
  <1>1. /\ p \in Seq(Atoms) /\ q \in Seq(Atoms) /\ n \in Nat /\ n >= 1
        /\ n \in 1 .. Len(p) /\ n \in 1 .. Len(q) /\ Last(q) = q[n]
        /\ \A k \in 1 .. n - 1 : p[k] = q[k]
        /\ input \in Inputs
    BY EmptySeq DEF Paths, Branches, Last, TypeInv
  <1>2. s \in Sources /\ q[n] \in Atoms /\ p[n] \in Atoms
    BY <1>1, BeforeType
  <1>3. Before(p, n) = s
    <2>1. n # 1 => n - 1 \in 1 .. n - 1
      <3>1. n \in Nat /\ n >= 1
        BY <1>1
      <3> HIDE DEF n
      <3> QED BY <3>1
    <2> QED BY <1>1, <2>1 DEF Before
  <1>4. Passable(p, n)
    BY <1>1 DEF Good
  <1>5. CASE q \in input.weak
    <2>1. Append(SubSeq(p, 1, n - 1), q[n]) = q
      BY <1>1, <1>2, FrontSame
    <2>2. Turned(p, n)
      BY <1>1, <1>3, <1>5, <2>1 DEF Turned
    <2> QED BY <1>4, <2>2 DEF Passable
  <1>6. CASE ~(Length(q) <= input.maxLength)
    <2>1. rows[s] \in Rows(s)
      BY <1>2, RowIs
    <2>2. Key(s, Last(q)) <= Key(s, p[n])
      BY <1>1, <1>2, <2>1, RowSorted
    <2>3. Length(q) <= Length(p)
      BY <1>1, <1>2, <1>3, <1>4, <2>2, BranchLonger DEF Passable
    <2>4. Length(p) <= input.maxLength /\ Length(p) \in Nat /\ Length(q) \in Nat
          /\ input.maxLength \in Nat
      BY <1>1, LengthIs, InputsAssumption DEF Good
    <2> QED BY <1>6, <2>3, <2>4
  <1> QED BY <1>5, <1>6 DEF AddToHeap

-----------------------------------------------------------------------------
\* What is still to come

\* The path goes on from the other.
Below(p, q) == Len(p) > Len(q) /\ \A i \in 1 .. Len(q) : p[i] = q[i]

\* The path is the node's candidate, comes after it in its row, or goes on
\* from one of these.
Ahead(p, node) ==
    /\ Branches(p, node.path)
    /\ \E d \in node.column + 1 .. input.atoms :
          p[Len(node.path)] = rows[node.source][d]

Pending(p) == \E i \in 1 .. Len(heap) : Ahead(p, nodes[heap[i].node])

Found(p) == \E r \in 1 .. Len(records) : records[r] = p

\* What is found is wanted, and what is wanted is found or will be.
Search ==
    /\ \A r \in 1 .. Len(records) : records[r] \in Wanted
    /\ \A n \in 1 .. Len(nodes) :
          /\ Good(nodes[n].path)
          /\ nodes[n].keep = KeepForOutput(nodes[n].path)
    /\ pc \in {"sink", "extend"} => Good(saved)
    /\ \A p \in Wanted :
          Found(p) \/ Pending(p) \/ (pc \in {"sink", "extend"} /\ Below(p, saved))

MissInv ==
    /\ complete => pc = "done"
    /\ NothingMissed
    /\ pc \in {"visit", "sink", "extend", "rise"} => Search

\* A node's source is the atom before its last.
LEMMA FitsIs ==
    ASSUME TypeInv, NEW node \in Node, Fits(node)
    PROVE  /\ node.path \in Paths /\ node.source = Before(node.path, Len(node.path))
           /\ Last(node.path) = rows[node.source][node.column + 1]
           /\ Len(node.path) \in 1 .. Len(node.path)
           /\ Last(node.path) = node.path[Len(node.path)]
  <1>1. node.path \in Paths
    BY NodeType
  <1>2. Len(node.path) \in Nat /\ Len(node.path) >= 1
    BY <1>1, EmptySeq DEF Paths
  <1> QED BY <1>1, <1>2 DEF Fits, Before, Last

\* Paths that branch late come from the same atom.
LEMMA BranchBefore ==
    ASSUME NEW p \in Paths, NEW q \in Paths, Branches(p, q)
    PROVE  /\ Before(p, Len(q)) = Before(q, Len(q)) /\ Len(q) \in 1 .. Len(p)
           /\ Len(q) \in Nat /\ Len(q) >= 1 /\ Len(p) \in Nat
  <1>1. Len(q) \in Nat /\ Len(q) >= 1 /\ Len(p) \in Nat /\ Len(q) <= Len(p)
    BY EmptySeq DEF Paths, Branches
  <1>2. Len(q) # 1 => Len(q) - 1 \in 1 .. Len(q) - 1
    <2> DEFINE n == Len(q)
    <2>1. n \in Nat /\ n >= 1
      BY <1>1
    <2> HIDE DEF n
    <2>2. n # 1 => n - 1 \in 1 .. n - 1
      BY <2>1
    <2> QED BY <2>2 DEF n
  <1> QED BY <1>1, <1>2 DEF Before, Branches

\* What is ahead is the candidate, goes on from it, or comes later in its row.
LEMMA AheadIs ==
    ASSUME TypeInv, pc # "prepare", NEW node \in Node, Fits(node), NEW p \in Paths,
           Ahead(p, node)
    PROVE  \/ p = node.path
           \/ Below(p, node.path)
           \/ \E d \in node.column + 2 .. input.atoms :
                 p[Len(node.path)] = rows[node.source][d]
  <1> DEFINE q == node.path
             n == Len(node.path)
  <1>1. PICK d \in node.column + 1 .. input.atoms : p[n] = rows[node.source][d]
    BY DEF Ahead
  <1>2. Branches(p, q) /\ q \in Paths /\ Last(q) = rows[node.source][node.column + 1]
        /\ Last(q) = q[n]
    BY FitsIs DEF Ahead
  <1>3. /\ n \in Nat /\ n >= 1 /\ Len(p) \in Nat /\ n <= Len(p)
        /\ \A i \in 1 .. n - 1 : p[i] = q[i]
        /\ p \in Seq(Atoms) /\ q \in Seq(Atoms)
    BY <1>2, BranchBefore DEF Branches, Paths
  <1>4. node.column \in Nat /\ input.atoms \in Nat
    BY CandidateIs
  <1>5. CASE d # node.column + 1
    <2>1. d \in node.column + 2 .. input.atoms
      BY <1>4, <1>5
    <2> QED BY <1>1, <2>1
  <1>6. CASE d = node.column + 1
    <2>1. p[n] = q[n]
      BY <1>1, <1>2, <1>6
    <2>2. \A i \in 1 .. n : p[i] = q[i]
      <3> SUFFICES ASSUME NEW i \in 1 .. n PROVE p[i] = q[i]
        OBVIOUS
      <3>1. i = n \/ i \in 1 .. n - 1
        <4> HIDE DEF n
        <4> QED BY <1>3
      <3> QED BY <1>3, <2>1, <3>1
    <2>3. CASE Len(p) = n
      BY <1>3, <2>2, <2>3, SeqEqual
    <2>4. CASE Len(p) # n
      BY <1>3, <2>2, <2>4 DEF Below
    <2> QED BY <2>3, <2>4
  <1> QED BY <1>5, <1>6

\* What is ahead of a good candidate is not shorter, if it is good itself.
LEMMA AheadLonger ==
    ASSUME TypeInv, pc # "prepare", NEW node \in Node, Fits(node), Good(node.path),
           NEW p \in Paths, Good(p), Ahead(p, node)
    PROVE  Length(node.path) <= Length(p)
  <1> DEFINE q == node.path
             n == Len(node.path)
             s == node.source
  <1>1. PICK d \in node.column + 1 .. input.atoms : p[n] = rows[s][d]
    BY DEF Ahead
  <1>2. /\ Branches(p, q) /\ q \in Paths /\ Last(q) = rows[s][node.column + 1]
        /\ n \in 1 .. n /\ Last(q) = q[n] /\ s = Before(q, n)
    BY FitsIs DEF Ahead
  <1>3. s = Before(p, n) /\ n \in 1 .. Len(p)
    BY <1>2, BranchBefore
  <1>4. ~Excluded(s, Last(q)) /\ ~Excluded(s, p[n])
    BY <1>2, <1>3 DEF Good, Passable
  <1>5. node.column + 1 \in 1 .. input.atoms /\ d \in 1 .. input.atoms /\ node.column + 1 <= d
        /\ s \in Sources
    BY <1>1, CandidateIs
  <1>6. rows[s] \in Rows(s) /\ input \in Inputs
    BY <1>5, RowIs DEF TypeInv
  <1>7. Key(s, Last(q)) <= Key(s, p[n])
    BY <1>1, <1>2, <1>5, <1>6, RowSorted
  <1> QED BY <1>2, <1>4, <1>5, <1>6, <1>7, BranchLonger

\* The sibling of a candidate, as a branch of its row.
LEMMA SiblingIs ==
    ASSUME TypeInv, pc # "prepare", NEW node \in Node, Fits(node),
           HasCandidate(Moved(node))
    PROVE  /\ Sibling(node) \in Paths /\ Len(Sibling(node)) = Len(node.path)
           /\ \A i \in 1 .. Len(node.path) - 1 : Sibling(node)[i] = node.path[i]
           /\ node.source = Before(Sibling(node), Len(Sibling(node)))
           /\ Last(Sibling(node)) = rows[node.source][node.column + 2]
           /\ Last(Sibling(node)) = Sibling(node)[Len(node.path)]
           /\ ~Excluded(node.source, Last(Sibling(node)))
  <1> DEFINE q == Sibling(node)
             n == Len(node.path)
  <1>1. /\ Candidate(Moved(node)) = rows[node.source][node.column + 2]
        /\ Candidate(Moved(node)) \in Atoms /\ node.path \in Paths
    BY RenewedIs, NodeType
  <1>2. /\ q \in Paths /\ Len(q) = n /\ q[n] = Candidate(Moved(node))
        /\ \A i \in 1 .. n - 1 : q[i] = node.path[i]
    BY <1>1, SiblingType DEF Sibling
  <1>3. Last(q) = q[n]
    BY <1>2 DEF Last
  <1>4. n \in Nat /\ n >= 1
    BY <1>1, EmptySeq DEF Paths
  <1>5. node.source = Before(q, n)
    <2>1. n # 1 => n - 1 \in 1 .. n - 1
      <3> HIDE DEF n
      <3> QED BY <1>4
    <2> QED BY <1>2, <2>1, FitsIs DEF Before
  <1>6. ~Excluded(node.source, Last(q))
    BY <1>1, <1>2, <1>3, CandidateIs
  <1> HIDE DEF q
  <1>7. /\ q \in Paths /\ Len(q) = n /\ Last(q) = rows[node.source][node.column + 2]
        /\ \A i \in 1 .. n - 1 : q[i] = node.path[i]
        /\ node.source = Before(q, Len(q)) /\ Last(q) = q[n]
        /\ ~Excluded(node.source, Last(q))
    BY <1>1, <1>2, <1>3, <1>5, <1>6
  <1> QED BY <1>7 DEF q

\* The sibling of a good candidate is good if it is added.
LEMMA SiblingGood ==
    ASSUME TypeInv, pc # "prepare", NEW node \in Node, Fits(node), Good(node.path),
           HasCandidate(Moved(node)), AddToHeap(Sibling(node))
    PROVE  Good(Sibling(node))
  <1> DEFINE p == node.path
             n == Len(node.path)
             s == node.source
             e == node.column + 2
  <1>a. PICK q : q = Sibling(node)
    OBVIOUS
  <1>1. /\ q \in Paths /\ Len(q) = n /\ Last(q) = rows[s][e] /\ Last(q) = q[n]
        /\ \A i \in 1 .. n - 1 : q[i] = p[i]
        /\ s = Before(q, n) /\ ~Excluded(s, Last(q))
    BY <1>a, SiblingIs
  <1>2. /\ p \in Paths /\ s = Before(p, n) /\ p[n] = rows[s][node.column + 1]
        /\ n \in 1 .. n
    BY FitsIs
  <1>3. n \in Nat /\ n >= 1 /\ p \in Seq(Atoms) /\ q \in Seq(Atoms)
    BY <1>1, <1>2 DEF Paths
  <1>4. /\ s \in Sources /\ node.column + 1 \in 1 .. input.atoms /\ e \in 1 .. input.atoms
        /\ node.column \in Nat /\ input.atoms \in Nat
    BY CandidateIs
  <1>5. Passable(p, n)
    BY <1>2 DEF Good
  <1>6. \A c \in 1 .. e - 1 : Append(SubSeq(q, 1, n - 1), rows[s][c]) \notin input.weak
    <2> SUFFICES ASSUME NEW c \in 1 .. e - 1
                 PROVE  Append(SubSeq(q, 1, n - 1), rows[s][c]) \notin input.weak
      OBVIOUS
    <2>1. c \in 1 .. input.atoms /\ c <= node.column + 1
      BY <1>4
    <2>2. rows[s][c] \in Atoms
      BY <1>4, <2>1, RowIs
    <2>3. Append(SubSeq(q, 1, n - 1), rows[s][c]) = Append(SubSeq(p, 1, n - 1), rows[s][c])
      <3>1. n \in 1 .. Len(q) /\ n <= Len(p) /\ \A k \in 1 .. n - 1 : q[k] = p[k]
        BY <1>1, <1>2, <1>3
      <3> HIDE DEF n, s
      <3> QED BY <1>3, <2>2, <3>1, FrontSame
    <2>4. ~Turned(p, n)
      BY <1>5 DEF Passable
    <2> QED BY <1>2, <1>4, <2>1, <2>3, <2>4 DEF Turned
  <1>7. Passable(q, n)
    BY <1>1, <1>4, <1>6, <1>a, LastPassable
  <1>8. \A i \in 1 .. n - 1 : Passable(q, i)
    <2> SUFFICES ASSUME NEW i \in 1 .. n - 1 PROVE Passable(q, i)
      OBVIOUS
    <2>1. i \in 1 .. n /\ \A k \in 1 .. i : q[k] = p[k]
      <3> HIDE DEF n
      <3> QED BY <1>1, <1>3
    <2>2. Passable(p, i)
      BY <2>1 DEF Good
    <2>3. i <= Len(q)
      BY <1>1, <1>3, <2>1
    <2> QED BY <1>1, <1>2, <2>1, <2>2, <2>3, PassableSame
  <1>9. \A i \in 1 .. Len(q) : Passable(q, i)
    <2>1. \A i \in 1 .. n : i = n \/ i \in 1 .. n - 1
      <3> HIDE DEF n
      <3> QED BY <1>3
    <2> QED BY <1>1, <1>7, <1>8, <2>1
  <1> QED BY <1>9, <1>a DEF Good, AddToHeap

\* When a candidate has no sibling on the heap, no good path comes later in its
\* row.
LEMMA NothingLater ==
    ASSUME TypeInv, pc # "prepare", NEW node \in Node, Fits(node),
           ~(HasCandidate(Moved(node)) /\ AddToHeap(Sibling(node))),
           NEW p \in Paths, Branches(p, node.path),
           NEW d \in node.column + 2 .. input.atoms,
           p[Len(node.path)] = rows[node.source][d]
    PROVE  ~Good(p)
  <1> DEFINE n == Len(node.path)
             s == node.source
             e == node.column + 2
  <1>1. /\ s \in Sources /\ e \in 1 .. input.atoms /\ d \in 1 .. input.atoms /\ e <= d
        /\ node.path \in Paths /\ s = Before(node.path, n)
    BY CandidateIs, FitsIs
  <1>2. s = Before(p, n) /\ n \in 1 .. Len(p) /\ n <= Len(p)
    BY <1>1, BranchBefore
  <1>3. CASE ~HasCandidate(Moved(node))
    <2>1. Excluded(s, rows[s][e])
      BY <1>3, CandidateIs
    <2>2. rows[s] \in Rows(s) /\ input \in Inputs
      BY <1>1, RowIs DEF TypeInv
    <2>3. Excluded(s, rows[s][d])
      BY <1>1, <2>1, <2>2, RowEnds
    <2> QED BY <1>2, <2>3 DEF Good, Passable
  <1>4. CASE HasCandidate(Moved(node)) /\ ~AddToHeap(Sibling(node))
    <2>a. PICK q : q = Sibling(node)
      OBVIOUS
    <2>1. /\ q \in Paths /\ Len(q) = n /\ Last(q) = rows[s][e]
          /\ \A i \in 1 .. n - 1 : q[i] = node.path[i]
          /\ s = Before(q, Len(q)) /\ ~Excluded(s, Last(q)) /\ ~AddToHeap(q)
      BY <1>4, <2>a, SiblingIs
    <2>2. Branches(p, q)
      BY <1>2, <2>1 DEF Branches
    <2> QED BY <1>1, <2>1, <2>2, NothingBehind
  <1> QED BY <1>3, <1>4

-----------------------------------------------------------------------------
\* The steps of the search

\* What is wanted depends on the search and its rows alone.
LEMMA SameSearch ==
    ASSUME input' = input, rows' = rows
    PROVE  /\ Wanted' = Wanted
           /\ \A p : Good(p)' <=> Good(p)
           /\ \A p : KeepForOutput(p)' = KeepForOutput(p)
           /\ \A p, node : Ahead(p, node)' <=> Ahead(p, node)
  <1>1. /\ Atoms' = Atoms
        /\ \A p : Length(p)' = Length(p)
    BY SameInput
  <1>2. \A p : KeepForOutput(p)' = KeepForOutput(p)
    BY DEF KeepForOutput
  <1>3. \A p : Good(p)' <=> Good(p)
    BY <1>1 DEF Good, Passable, Turned, Excluded
  <1>4. \A p, node : Ahead(p, node)' <=> Ahead(p, node)
    BY DEF Ahead
  <1>5. (\A p : IsPath(p)' <=> IsPath(p)) /\ (\A p : Pruned(p)' <=> Pruned(p))
    BY DEF IsPath, Pruned
  <1>6. Wanted' = Wanted
    BY <1>1, <1>2, <1>5 DEF Wanted
  <1> QED BY <1>2, <1>3, <1>4, <1>6

\* What a step has to show of the next state.
LEMMA SearchNext ==
    ASSUME input' = input, rows' = rows,
           \A r \in 1 .. Len(records') : records'[r] \in Wanted,
           \A n \in 1 .. Len(nodes') :
              /\ Good(nodes'[n].path)
              /\ nodes'[n].keep = KeepForOutput(nodes'[n].path),
           pc' \in {"sink", "extend"} => Good(saved'),
           \A p \in Wanted :
              \/ \E r \in 1 .. Len(records') : records'[r] = p
              \/ \E i \in 1 .. Len(heap') : Ahead(p, nodes'[heap'[i].node])
              \/ pc' \in {"sink", "extend"} /\ Below(p, saved')
    PROVE  Search'
  <1>1. Wanted' = Wanted
    BY SameSearch
  <1>2. \A p : p = saved' => (Good(p)' <=> Good(p))
    BY SameSearch
  <1>3. \A p, n : p = nodes'[n].path =>
           (Good(p)' <=> Good(p)) /\ KeepForOutput(p)' = KeepForOutput(p)
    BY SameSearch
  <1>4. \A p, n : (Ahead(p, n)' <=> Ahead(p, n))
    BY SameSearch
  <1>5. \A p : Found(p)' <=> \E r \in 1 .. Len(records') : records'[r] = p
    BY DEF Found
  <1>6. \A p : Pending(p)' <=> \E i \in 1 .. Len(heap') : Ahead(p, nodes'[heap'[i].node])
    BY <1>4 DEF Pending
  <1> QED BY <1>1, <1>2, <1>3, <1>5, <1>6 DEF Search

\* A step that only reorders the heap.
LEMMA MissSwap ==
    ASSUME MissInv, pc # "done",
           UNCHANGED <<input, rows, nodes, records, saved, complete>>,
           pc \in {"sink", "extend", "visit", "rise"},
           pc' \in {"sink", "extend", "visit", "rise"},
           pc \in {"sink", "extend"} <=> pc' \in {"sink", "extend"},
           \A i \in 1 .. Len(heap') : \E j \in 1 .. Len(heap) : heap'[i] = heap[j],
           \A j \in 1 .. Len(heap) : \E i \in 1 .. Len(heap') : heap[j] = heap'[i]
    PROVE  MissInv'
  <1>1. Search /\ ~complete
    BY DEF MissInv
  <1>2. \A p : Pending(p) => \E i \in 1 .. Len(heap') : Ahead(p, nodes'[heap'[i].node])
    <2> SUFFICES ASSUME NEW p, Pending(p)
                 PROVE  \E i \in 1 .. Len(heap') : Ahead(p, nodes'[heap'[i].node])
      OBVIOUS
    <2>1. PICK j \in 1 .. Len(heap) : Ahead(p, nodes[heap[j].node])
      BY DEF Pending
    <2>2. PICK i \in 1 .. Len(heap') : heap[j] = heap'[i]
      BY <2>1
    <2> QED BY <2>1, <2>2
  <1>3. Search'
    BY <1>1, <1>2, SearchNext DEF Search, Found
  <1>4. pc' # "done"
    OBVIOUS
  <1> QED BY <1>1, <1>3, <1>4 DEF MissInv, NothingMissed

\* Sinking and rising change nothing about what is to come.
LEMMA MissSink == TypeInv /\ MissInv /\ Sink => MissInv'
  <1> SUFFICES ASSUME TypeInv, MissInv, Sink PROVE MissInv'
    OBVIOUS
  <1> QED BY SinkPermutes, MissSwap

\* The same of rising.
LEMMA MissRise == TypeInv /\ MissInv /\ Rise => MissInv'
  <1> SUFFICES ASSUME TypeInv, MissInv, Rise PROVE MissInv'
    OBVIOUS
  <1> QED BY RisePermutes, MissSwap

\* A visit records the candidate at the root if it is wanted, and nothing else.
LEMMA VisitFinds ==
    ASSUME TypeInv, MissInv, Visit, NEW n, n = heap[1].node
    PROVE  /\ \A r \in 1 .. Len(records') : records'[r] \in Wanted
           /\ \A p : Found(p) => \E r \in 1 .. Len(records') : records'[r] = p
           /\ nodes[n].path \in Wanted =>
                 \E r \in 1 .. Len(records') : records'[r] = nodes[n].path
           /\ Good(nodes[n].path)
  <1>a. PICK path : path = nodes[n].path
    OBVIOUS
  <1>1. /\ pc = "visit" /\ Search /\ records \in Seq(Seq(Atoms) \ {<<>>})
        /\ Len(records) \in Nat
    <2>1. pc = "visit"
      BY DEF Visit
    <2>2. records \in Seq(Seq(Atoms) \ {<<>>})
      BY DEF TypeInv
    <2> QED BY <2>1, <2>2 DEF MissInv
  <1>2. /\ n \in 1 .. Len(nodes) /\ nodes[n] \in Node /\ records' = Recorded(nodes[n])
    BY VisitIs
  <1>3. /\ Good(path) /\ nodes[n].keep = KeepForOutput(path) /\ path \in Paths
    BY <1>1, <1>2, <1>a, NodeType DEF Search
  <1>4. \A p \in Wanted : KeepForOutput(p)
    BY DEF Wanted
  <1>5. CASE KeepForOutput(path)
    <2>1. nodes[n].keep
      BY <1>3, <1>5
    <2>2. Last(path) # 0
      BY <1>5 DEF KeepForOutput
    <2>3. records' = Append(records, path)
      BY <1>2, <1>a, <2>1, <2>2 DEF Recorded
    <2>4. path \in Wanted
      BY <1>1, <1>3, <1>5, WantedIs
    <2>5. path \in Seq(Atoms) \ {<<>>}
      BY <1>3 DEF Paths
    <2>6. /\ Len(records') = Len(records) + 1 /\ records'[Len(records) + 1] = path
          /\ \A r \in 1 .. Len(records) : records'[r] = records[r]
      BY <1>1, <2>3, <2>5, AppendProperties
    <2>7. \A r : r \in 1 .. Len(records') <=> r \in 1 .. Len(records) \/ r = Len(records) + 1
      BY <1>1, <2>6
    <2> QED BY <1>1, <1>3, <1>a, <2>4, <2>6, <2>7 DEF Search, Found
  <1>6. CASE ~KeepForOutput(path)
    <2>1. ~nodes[n].keep
      BY <1>3, <1>6
    <2>2. records' = records
      BY <1>2, <2>1 DEF Recorded
    <2>3. path \notin Wanted
      BY <1>4, <1>6
    <2> QED BY <1>1, <1>3, <1>a, <2>2, <2>3 DEF Search, Found
  <1> QED BY <1>5, <1>6

\* Every path that is left is at least as long as the candidate at the root.
LEMMA RootShortest ==
    ASSUME TypeInv, HeapInv, OrderInv, MissInv, pc = "visit", heap # <<>>,
           NEW n, n = heap[1].node, NEW p \in Wanted, ~Found(p)
    PROVE  Length(nodes[n].path) <= Length(p)
  <1>1. /\ Search /\ Keyed /\ input \in Inputs /\ heap \in Seq(Entry) /\ Ordered(heap)
    BY DEF MissInv, HeapInv, TypeInv
  <1>2. p \in Paths /\ Good(p) /\ Length(p) \in Nat
    BY <1>1, WantedIs, LengthIs
  <1>3. PICK i \in 1 .. Len(heap) : Ahead(p, nodes[heap[i].node])
    BY <1>1 DEF Search, Pending
  <1>4. PICK m : m = heap[i].node
    OBVIOUS
  <1>5. m \in 1 .. Len(nodes) /\ nodes[m] \in Node
    BY <1>4, ElementOfSeq DEF TypeInv
  <1>6. Length(nodes[m].path) <= Length(p)
    <2>1. Fits(nodes[m]) /\ Good(nodes[m].path)
      BY <1>1, <1>5 DEF OrderInv, Search
    <2> QED BY <1>1, <1>2, <1>3, <1>4, <1>5, <2>1, AheadLonger
  <1>7. heap[i].key = Length(nodes[m].path) /\ heap[1].key = Length(nodes[n].path)
    <2>1. 1 \in 1 .. Len(heap)
      BY <1>1, EmptySeq
    <2> QED BY <1>1, <1>4, <2>1 DEF Keyed
  <1>8. heap[1].key <= heap[i].key /\ heap[1].key \in Nat /\ heap[i].key \in Nat
    <2>1. 1 \in 1 .. Len(heap)
      BY <1>1, EmptySeq
    <2> QED BY <1>1, <2>1, RootLeast, EntryType
  <1> QED BY <1>2, <1>6, <1>7, <1>8

\* A visit that fills the records has found the shortest paths.
LEMMA VisitFull ==
    ASSUME TypeInv, HeapInv, OrderInv, MissInv, Visit, pc' = "done"
    PROVE  MissInv'
  <1>a. PICK n : n = heap[1].node
    OBVIOUS
  <1>1. /\ pc = "visit" /\ Search /\ ~complete /\ complete' = complete
        /\ input' = input /\ rows' = rows /\ Keyed /\ input \in Inputs
    BY DEF Visit, MissInv, HeapInv, TypeInv
  <1>2. /\ \A r \in 1 .. Len(records') : records'[r] \in Wanted
        /\ \A p : Found(p) => \E r \in 1 .. Len(records') : records'[r] = p
    BY <1>a, VisitFinds
  <1>3. /\ \A r \in 1 .. Len(records') : Length(records'[r]) <= Length(nodes[n].path)
        /\ \A i \in 1 .. Len(heap) : Length(nodes[n].path) <= heap[i].key
        /\ n \in 1 .. Len(nodes) /\ nodes[n] \in Node /\ heap # <<>>
    BY <1>a, VisitRecords, VisitIs
  <1>4. \A p \in Wanted : p \in Paths /\ Good(p) /\ Length(p) \in Nat
    BY <1>1, WantedIs, LengthIs
  <1>5. ASSUME NEW p \in Wanted, ~Found(p), NEW r \in 1 .. Len(records')
        PROVE  Length(records'[r]) <= Length(p)
    <2>1. Length(nodes[n].path) <= Length(p)
      BY <1>a, <1>1, <1>3, <1>5, RootShortest
    <2>2. Length(records'[r]) <= Length(nodes[n].path)
      BY <1>3
    <2>3. /\ Length(records'[r]) \in Nat /\ Length(nodes[n].path) \in Nat
          /\ Length(p) \in Nat
      <3>1. records'[r] \in Paths /\ nodes[n].path \in Paths
        BY <1>2, <1>3, <1>4, NodeType
      <3> QED BY <1>1, <1>4, <3>1, LengthIs
    <2> QED BY <2>1, <2>2, <2>3
  <1>6. DOMAIN records' = 1 .. Len(records')
    <2>1. TypeInv'
      BY TypeVisit
    <2> QED BY <2>1 DEF TypeInv
  <1>7. ToSet(records') = {records'[r] : r \in 1 .. Len(records')}
    BY <1>6 DEF ToSet
  <1>8. ToSet(records') \subseteq Wanted
    BY <1>2, <1>7
  <1>9. \A p \in Wanted \ ToSet(records') :
           \A q \in ToSet(records') : Length(q) <= Length(p)
    <2> SUFFICES ASSUME NEW p \in Wanted \ ToSet(records'), NEW q \in ToSet(records')
                 PROVE  Length(q) <= Length(p)
      OBVIOUS
    <2>1. PICK r \in 1 .. Len(records') : q = records'[r]
      BY <1>7
    <2>2. ~Found(p)
      BY <1>2, <1>7
    <2> QED BY <1>5, <2>1, <2>2
  <1>10. NothingMissed'
    <2>1. Wanted' = Wanted /\ \A p : Length(p)' = Length(p)
      BY <1>1, SameSearch, SameInput
    <2>2. ToSet(records)' = ToSet(records')
      BY DEF ToSet
    <2> QED BY <1>1, <1>8, <1>9, <2>1, <2>2 DEF NothingMissed
  <1> QED BY <1>1, <1>10 DEF MissInv

\* A visit that goes on leaves every path that is wanted found or to come.
LEMMA VisitGoesOn ==
    ASSUME TypeInv, HeapInv, OrderInv, MissInv, Visit, pc' # "done"
    PROVE  MissInv'
  <1>a. PICK n : n = heap[1].node
    OBVIOUS
  <1>b. PICK node : node = nodes[n]
    OBVIOUS
  <1>c. PICK path : path = node.path
    OBVIOUS
  <1>1. /\ pc = "visit" /\ Search /\ ~complete /\ complete' = complete
        /\ input' = input /\ rows' = rows /\ Keyed /\ input \in Inputs
        /\ heap \in Seq(Entry) /\ nodes \in Seq(Node) /\ Len(heap) \in Nat
    BY DEF Visit, MissInv, HeapInv, TypeInv
  <1>2. /\ \A r \in 1 .. Len(records') : records'[r] \in Wanted
        /\ \A p : Found(p) => \E r \in 1 .. Len(records') : records'[r] = p
        /\ path \in Wanted => \E r \in 1 .. Len(records') : records'[r] = path
        /\ Good(path)
    BY <1>a, <1>b, <1>c, VisitFinds
  <1>3. /\ heap # <<>> /\ n \in 1 .. Len(nodes) /\ node \in Node /\ saved' = path
        /\ pc' = "sink"
        /\ \/ /\ HasCandidate(Moved(node)) /\ AddToHeap(Sibling(node))
              /\ nodes' = [nodes EXCEPT ![n] = Renewed(node)]
              /\ heap' = [heap EXCEPT ![1].key = Length(Sibling(node))]
           \/ /\ ~(HasCandidate(Moved(node)) /\ AddToHeap(Sibling(node)))
              /\ heap' = WithoutRoot(heap) /\ nodes' = nodes
    BY <1>a, <1>b, <1>c, VisitIs
  <1>4. 1 \in 1 .. Len(heap) /\ Fits(node)
    BY <1>1, <1>3, <1>b, EmptySeq DEF OrderInv
  <1>5. \A p \in Wanted : p \in Paths /\ Good(p)
    BY <1>1, WantedIs
  <1>6. ASSUME NEW p \in Wanted
        PROVE  \/ \E r \in 1 .. Len(records') : records'[r] = p
               \/ Below(p, saved')
               \/ /\ Branches(p, path)
                  /\ \E d \in node.column + 2 .. input.atoms :
                        p[Len(path)] = rows[node.source][d]
               \/ \E i \in 2 .. Len(heap) : Ahead(p, nodes[heap[i].node])
    <2>1. CASE Found(p)
      BY <1>2, <2>1
    <2>2. CASE ~Found(p)
      <3>1. PICK i \in 1 .. Len(heap) : Ahead(p, nodes[heap[i].node])
        BY <1>1, <2>2 DEF Search, Pending
      <3>2. CASE i = 1
        <4>1. Ahead(p, node)
          BY <1>a, <1>b, <3>1, <3>2
        <4>2. Branches(p, path)
          BY <1>c, <4>1 DEF Ahead
        <4>3. \/ p = path
              \/ Below(p, path)
              \/ \E d \in node.column + 2 .. input.atoms :
                    p[Len(path)] = rows[node.source][d]
          BY <1>1, <1>3, <1>4, <1>5, <1>6, <1>c, <4>1, AheadIs
        <4> QED BY <1>2, <1>3, <1>6, <4>2, <4>3
      <3>3. CASE i # 1
        BY <1>1, <3>1, <3>3
      <3> QED BY <3>2, <3>3
    <2> QED BY <2>1, <2>2
  <1>7. CASE /\ HasCandidate(Moved(node)) /\ AddToHeap(Sibling(node))
             /\ nodes' = [nodes EXCEPT ![n] = Renewed(node)]
             /\ heap' = [heap EXCEPT ![1].key = Length(Sibling(node))]
    <2>1. /\ Renewed(node).path = Sibling(node) /\ Renewed(node).source = node.source
          /\ Renewed(node).column = node.column + 1
          /\ Renewed(node).keep = KeepForOutput(Sibling(node))
          /\ node.column \in Nat
      BY <1>1, <1>3, <1>7, RenewedIs, CandidateIs
    <2>2. /\ Len(nodes') = Len(nodes) /\ nodes'[n] = Renewed(node)
          /\ \A m \in 1 .. Len(nodes) : m # n => nodes'[m] = nodes[m]
      BY <1>1, <1>3, <1>7
    <2>3. heap[1] \in Entry
      BY <1>1, <1>4, ElementOfSeq
    <2>4. /\ Len(heap') = Len(heap)
          /\ \A i \in 1 .. Len(heap) : heap'[i].node = heap[i].node
      BY <1>1, <1>4, <1>7, <2>3 DEF Entry
    <2>5. Good(Sibling(node))
      BY <1>1, <1>2, <1>3, <1>4, <1>7, <1>c, SiblingGood
    <2>6. \A m \in 1 .. Len(nodes') :
             Good(nodes'[m].path) /\ nodes'[m].keep = KeepForOutput(nodes'[m].path)
      BY <1>1, <2>1, <2>2, <2>5 DEF Search
    <2>7. ASSUME NEW p \in Wanted
          PROVE  \/ \E r \in 1 .. Len(records') : records'[r] = p
                 \/ \E i \in 1 .. Len(heap') : Ahead(p, nodes'[heap'[i].node])
                 \/ pc' \in {"sink", "extend"} /\ Below(p, saved')
      <3>1. CASE /\ Branches(p, path)
                 /\ \E d \in node.column + 2 .. input.atoms :
                       p[Len(path)] = rows[node.source][d]
        <4>1. /\ Len(Sibling(node)) = Len(path)
              /\ \A i \in 1 .. Len(path) - 1 : Sibling(node)[i] = path[i]
          BY <1>1, <1>3, <1>4, <1>7, <1>c, SiblingIs
        <4>2. Branches(p, Sibling(node))
          BY <3>1, <4>1 DEF Branches
        <4>3. (node.column + 1) + 1 = node.column + 2
          BY <2>1
        <4>4. Ahead(p, Renewed(node))
          BY <2>1, <3>1, <4>1, <4>2, <4>3 DEF Ahead
        <4>5. nodes'[heap'[1].node] = Renewed(node) /\ 1 \in 1 .. Len(heap')
          BY <1>4, <1>a, <2>2, <2>4
        <4> QED BY <4>4, <4>5
      <3>2. CASE \E i \in 2 .. Len(heap) : Ahead(p, nodes[heap[i].node])
        <4>1. PICK i \in 2 .. Len(heap) : Ahead(p, nodes[heap[i].node])
          BY <3>2
        <4>2. i \in 1 .. Len(heap) /\ i # 1
          BY <1>1
        <4>3. heap[i].node # n /\ heap[i].node \in 1 .. Len(nodes)
          BY <1>1, <1>4, <1>a, <4>2 DEF Keyed, TypeInv
        <4>4. nodes'[heap'[i].node] = nodes[heap[i].node]
          BY <2>2, <2>4, <4>2, <4>3
        <4> QED BY <2>4, <4>1, <4>2, <4>4
      <3> QED BY <1>3, <1>6, <2>7, <3>1, <3>2
    <2>8. Search'
      BY <1>1, <1>2, <1>3, <2>6, <2>7, SearchNext
    <2> QED BY <1>1, <1>3, <2>8 DEF MissInv, NothingMissed
  <1>8. CASE /\ ~(HasCandidate(Moved(node)) /\ AddToHeap(Sibling(node)))
             /\ heap' = WithoutRoot(heap) /\ nodes' = nodes
    <2>1. /\ Len(heap') = Len(heap) - 1
          /\ Len(heap) > 1 => heap'[1] = heap[Len(heap)]
          /\ \A i \in 2 .. Len(heap) - 1 : heap'[i] = heap[i]
      BY <1>1, <1>3, <1>8, WithoutRootIs
    <2>2. \A i \in 2 .. Len(heap) : \E k \in 1 .. Len(heap') : heap'[k] = heap[i]
      <3> SUFFICES ASSUME NEW i \in 2 .. Len(heap)
                   PROVE  \E k \in 1 .. Len(heap') : heap'[k] = heap[i]
        OBVIOUS
      <3>1. CASE i = Len(heap)
        BY <1>1, <2>1, <3>1
      <3>2. CASE i # Len(heap)
        BY <1>1, <2>1, <3>2
      <3> QED BY <3>1, <3>2
    <2>3. ASSUME NEW p \in Wanted
          PROVE  \/ \E r \in 1 .. Len(records') : records'[r] = p
                 \/ \E i \in 1 .. Len(heap') : Ahead(p, nodes'[heap'[i].node])
                 \/ pc' \in {"sink", "extend"} /\ Below(p, saved')
      <3>1. ~(/\ Branches(p, path)
              /\ \E d \in node.column + 2 .. input.atoms :
                    p[Len(path)] = rows[node.source][d])
        BY <1>1, <1>3, <1>4, <1>5, <1>8, <1>c, <2>3, NothingLater
      <3>2. CASE \E i \in 2 .. Len(heap) : Ahead(p, nodes[heap[i].node])
        BY <1>8, <2>2, <3>2
      <3> QED BY <1>3, <1>6, <2>3, <3>1, <3>2
    <2>4. \A m \in 1 .. Len(nodes') :
             Good(nodes'[m].path) /\ nodes'[m].keep = KeepForOutput(nodes'[m].path)
      BY <1>1, <1>8 DEF Search
    <2>5. Search'
      BY <1>1, <1>2, <1>3, <2>3, <2>4, SearchNext
    <2> QED BY <1>1, <1>3, <2>5 DEF MissInv, NothingMissed
  <1> QED BY <1>3, <1>7, <1>8

\* The first child of a good path is good if it is added; if it is not, no good
\* path goes on from the path.
LEMMA ChildGood ==
    ASSUME TypeInv, pc # "prepare", NEW p \in Paths, Good(p), Child(p) \in Paths
    PROVE  /\ AddToHeap(Child(p)) => Good(Child(p))
           /\ ~AddToHeap(Child(p)) => \A q \in Paths : Below(q, p) => ~Good(q)
           /\ \A q \in Paths : Below(q, p) =>
                 /\ Branches(q, Child(p))
                 /\ \E d \in 1 .. input.atoms : q[Len(p) + 1] = rows[Last(p)][d]
  <1>a. PICK child : child = Child(p)
    OBVIOUS
  <1>1. /\ child \in Paths /\ Len(child) = Len(p) + 1 /\ Last(child) = rows[Last(p)][1]
        /\ \A i \in 1 .. Len(p) : child[i] = p[i]
        /\ Last(p) \in Atoms
    BY <1>a, ChildIs
  <1>2. /\ Len(p) \in Nat /\ Len(p) >= 1 /\ p \in Seq(Atoms) /\ child \in Seq(Atoms)
        /\ Last(p) = p[Len(p)]
    BY <1>1, EmptySeq DEF Paths, Last
  <1>3. /\ input \in Inputs /\ input.atoms \in Nat /\ 1 \in 1 .. input.atoms
        /\ Last(p) \in Sources /\ rows[Last(p)] \in Rows(Last(p))
    BY <1>1, AtomsType, RowIs DEF TypeInv, Sources
  <1>4. Before(child, Len(child)) = Last(p)
    <2>1. Len(child) # 1 /\ Len(child) - 1 = Len(p) /\ Len(p) \in 1 .. Len(p)
      BY <1>1, <1>2
    <2> QED BY <1>1, <1>2, <2>1 DEF Before
  <1>5. ~Excluded(Last(p), Last(child))
    BY <1>1, <1>3, RowEnds
  <1>6. ASSUME AddToHeap(child) PROVE Good(child)
    <2>1. Passable(child, Len(child))
      <3>1. \A c \in 1 .. 1 - 1 :
               Append(SubSeq(child, 1, Len(child) - 1), rows[Last(p)][c]) \notin input.weak
        OBVIOUS
      <3> QED BY <1>1, <1>3, <1>4, <1>5, <1>6, <3>1, LastPassable
    <2>2. \A i \in 1 .. Len(p) : Passable(child, i)
      <3> SUFFICES ASSUME NEW i \in 1 .. Len(p) PROVE Passable(child, i)
        OBVIOUS
      <3>1. i <= Len(child) /\ \A k \in 1 .. i : p[k] = child[k]
        BY <1>1, <1>2
      <3>2. Passable(p, i)
        BY DEF Good
      <3> QED BY <1>1, <3>1, <3>2, PassableSame
    <2>3. \A i \in 1 .. Len(child) : i = Len(child) \/ i \in 1 .. Len(p)
      BY <1>1, <1>2
    <2> QED BY <1>6, <2>1, <2>2, <2>3 DEF Good, AddToHeap
  <1>7. ASSUME NEW q \in Paths, Below(q, p)
        PROVE  /\ Branches(q, child)
               /\ \E d \in 1 .. input.atoms : q[Len(p) + 1] = rows[Last(p)][d]
    <2>1. Len(q) \in Nat /\ Len(p) + 1 \in 1 .. Len(q)
      BY <1>2, <1>7 DEF Below, Paths
    <2>2. \A i \in 1 .. Len(p) : q[i] = p[i]
      BY <1>7 DEF Below
    <2>3. Len(child) <= Len(q) /\ Len(child) - 1 = Len(p)
      BY <1>1, <1>2, <2>1
    <2>4. Branches(q, child)
      BY <1>1, <2>2, <2>3 DEF Branches
    <2>5. q[Len(p) + 1] \in Atoms
      BY <2>1, BeforeType
    <2>6. PICK d \in 1 .. input.atoms : rows[Last(p)][d] = q[Len(p) + 1]
      BY <1>3, <2>5, RowOnto
    <2> QED BY <2>4, <2>6
  <1>8. ASSUME ~AddToHeap(child), NEW q \in Paths, Below(q, p) PROVE ~Good(q)
    <2>1. Branches(q, child)
      BY <1>7, <1>8
    <2>2. PICK d \in 1 .. input.atoms : q[Len(child)] = rows[Last(p)][d]
      BY <1>1, <1>7, <1>8
    <2>3. 1 <= d
      OBVIOUS
    <2> QED BY <1>1, <1>3, <1>4, <1>5, <1>8, <2>1, <2>2, <2>3, NothingBehind
  <1> QED BY <1>6, <1>7, <1>8, <1>a

\* An extension leaves every path that goes on from the path visited to come.
LEMMA MissExtend == TypeInv /\ MissInv /\ Extend => MissInv'
  <1> SUFFICES ASSUME TypeInv, MissInv, Extend PROVE MissInv'
    OBVIOUS
  <1>1. /\ UNCHANGED <<input, rows, records, saved, complete>> /\ pc = "extend"
        /\ Search /\ ~complete /\ saved \in Paths /\ Good(saved)
        /\ heap \in Seq(Entry) /\ nodes \in Seq(Node)
        /\ Len(heap) \in Nat /\ Len(nodes) \in Nat
        /\ \A i \in 1 .. Len(heap) : heap[i].node \in 1 .. Len(nodes)
    BY DEF TypeInv, Extend, MissInv, Search
  <1>2. \A p \in Wanted : p \in Paths /\ Good(p)
    BY <1>1, WantedIs
  <1>3. \A r \in 1 .. Len(records') : records'[r] \in Wanted
    BY <1>1 DEF Search
  <1> DEFINE entry == [key |-> Length(Child(saved)), node |-> Len(nodes) + 1]
  <1>4. CASE /\ Child(saved) \in Paths /\ AddToHeap(Child(saved))
             /\ \E node \in Node :
                   /\ node.path = Child(saved) /\ node.source = Last(saved)
                   /\ node.column = 0 /\ node.keep = KeepForOutput(Child(saved))
                   /\ nodes' = Append(nodes, node)
             /\ entry \in Entry /\ heap' = Append(heap, entry)
             /\ pc' = "rise"
    <2>1. PICK node \in Node :
             /\ node.path = Child(saved) /\ node.source = Last(saved)
             /\ node.column = 0 /\ node.keep = KeepForOutput(Child(saved))
             /\ nodes' = Append(nodes, node)
      BY <1>4
    <2>2. entry.node = Len(nodes) + 1
      OBVIOUS
    <2> HIDE DEF entry
    <2>3. /\ Len(nodes') = Len(nodes) + 1 /\ nodes'[Len(nodes) + 1] = node
          /\ \A n \in 1 .. Len(nodes) : nodes'[n] = nodes[n]
          /\ Len(heap') = Len(heap) + 1 /\ heap'[Len(heap) + 1] = entry
          /\ \A i \in 1 .. Len(heap) : heap'[i] = heap[i]
      BY <1>1, <1>4, <2>1, AppendProperties
    <2>4. Good(node.path) /\ node.keep = KeepForOutput(node.path)
      BY <1>1, <1>4, <2>1, ChildGood
    <2>5. \A n \in 1 .. Len(nodes') :
             Good(nodes'[n].path) /\ nodes'[n].keep = KeepForOutput(nodes'[n].path)
      <3>1. \A n \in 1 .. Len(nodes') : n = Len(nodes) + 1 \/ n \in 1 .. Len(nodes)
        BY <1>1, <2>3
      <3> QED BY <1>1, <2>3, <2>4, <3>1 DEF Search
    <2>6. ASSUME NEW p \in Wanted
          PROVE  \/ \E r \in 1 .. Len(records') : records'[r] = p
                 \/ \E i \in 1 .. Len(heap') : Ahead(p, nodes'[heap'[i].node])
      <3>1. CASE Found(p)
        BY <1>1, <3>1 DEF Found
      <3>2. CASE Pending(p)
        <4>1. PICK i \in 1 .. Len(heap) : Ahead(p, nodes[heap[i].node])
          BY <3>2 DEF Pending
        <4>2. i \in 1 .. Len(heap') /\ nodes'[heap'[i].node] = nodes[heap[i].node]
          BY <1>1, <2>3
        <4> QED BY <4>1, <4>2
      <3>3. CASE Below(p, saved)
        <4>1. /\ Branches(p, node.path) /\ Len(node.path) = Len(saved) + 1
              /\ \E d \in 1 .. input.atoms : p[Len(saved) + 1] = rows[Last(saved)][d]
          <5>1. p \in Paths /\ pc # "prepare"
            BY <1>1, <1>2
          <5>2. /\ Branches(p, Child(saved))
                /\ \E d \in 1 .. input.atoms : p[Len(saved) + 1] = rows[Last(saved)][d]
            BY <1>1, <1>4, <3>3, <5>1, ChildGood
          <5>3. Len(Child(saved)) = Len(saved) + 1
            BY <1>1, <5>1, ChildIs
          <5> QED BY <2>1, <5>2, <5>3
        <4>2. node.column + 1 = 1
          BY <2>1
        <4>3. Ahead(p, node)
          BY <2>1, <4>1, <4>2 DEF Ahead
        <4>4. Len(heap) + 1 \in 1 .. Len(heap') /\ nodes'[heap'[Len(heap) + 1].node] = node
          BY <1>1, <2>2, <2>3
        <4> QED BY <4>3, <4>4
      <3> QED BY <1>1, <2>6, <3>1, <3>2, <3>3 DEF Search
    <2>7. Search'
      BY <1>1, <1>3, <1>4, <2>5, <2>6, SearchNext
    <2> QED BY <1>1, <1>4, <2>7 DEF MissInv, NothingMissed
  <1>5. CASE /\ ~(Len(saved) < input.maxAtoms /\ AddToHeap(Child(saved)))
             /\ nodes' = nodes /\ heap' = heap /\ pc' = "visit"
    <2>1. \A p \in Wanted : ~Below(p, saved)
      <3> SUFFICES ASSUME NEW p \in Wanted, Below(p, saved) PROVE FALSE
        OBVIOUS
      <3>1. Len(saved) < input.maxAtoms
        <4>1. /\ Len(p) \in Nat /\ Len(p) <= input.maxAtoms /\ Len(saved) \in Nat
              /\ input.maxAtoms \in Nat
          BY <1>1, <1>2, AtomsType DEF Paths, TypeInv
        <4> QED BY <4>1 DEF Below
      <3>2. Child(saved) \in Paths /\ ~AddToHeap(Child(saved))
        BY <1>1, <1>5, <3>1, ChildIs
      <3> QED BY <1>1, <1>2, <3>2, ChildGood
    <2>2. \A p \in Wanted :
             \/ \E r \in 1 .. Len(records') : records'[r] = p
             \/ \E i \in 1 .. Len(heap') : Ahead(p, nodes'[heap'[i].node])
      BY <1>1, <1>5, <2>1 DEF Search, Found, Pending
    <2>3. \A n \in 1 .. Len(nodes') :
             Good(nodes'[n].path) /\ nodes'[n].keep = KeepForOutput(nodes'[n].path)
      BY <1>1, <1>5 DEF Search
    <2>4. Search'
      BY <1>1, <1>3, <1>5, <2>2, <2>3, SearchNext
    <2> QED BY <1>1, <1>5, <2>4 DEF MissInv, NothingMissed
  <1> QED BY <1>4, <1>5, ExtendIs

\* Beginning with the nearest first bounce leaves every path to come.
LEMMA MissBegin == TypeInv /\ OrderInv /\ MissInv /\ Begin => MissInv'
  <1> SUFFICES ASSUME TypeInv, OrderInv, MissInv, Begin PROVE MissInv'
    OBVIOUS
  <1> DEFINE first == <<rows[Start][1]>>
             node == [path |-> first, source |-> Start, column |-> 0,
                      keep |-> KeepForOutput(first)]
             entry == [key |-> Length(first), node |-> 1]
  <1>1. /\ UNCHANGED <<input, rows, records, saved>> /\ records = <<>> /\ pc = "begin"
        /\ ~complete /\ input \in Inputs /\ Start \in Sources
    BY DEF Begin, OrderInv, MissInv, TypeInv, Sources
  <1>2. /\ input.atoms \in Nat /\ 1 \in 1 .. input.atoms /\ input.maxAtoms \in Nat
        /\ input.maxAtoms >= 1 /\ rows[Start] \in Rows(Start) /\ rows[Start][1] \in Atoms
    BY <1>1, AtomsType, RowIs
  <1>3. /\ first \in Paths /\ Len(first) = 1 /\ Last(first) = rows[Start][1]
        /\ Before(first, 1) = Start
    <2>1. first \in Seq(Atoms) /\ Len(first) = 1 /\ first[1] = rows[Start][1] /\ first # <<>>
      BY <1>2
    <2> QED BY <1>2, <2>1 DEF Paths, Last, Before
  <1>4. ~Excluded(Start, Last(first))
    BY <1>1, <1>2, <1>3, RowEnds
  <1>5. node.path = first /\ node.source = Start /\ node.column = 0
        /\ node.keep = KeepForOutput(first) /\ entry.node = 1
    OBVIOUS
  <1>6. \/ input.maxRecords > 0 /\ AddToHeap(first) /\ nodes' = <<node>> /\ heap' = <<entry>>
           /\ pc' = "visit" /\ complete' = complete
        \/ ~(input.maxRecords > 0 /\ AddToHeap(first))
           /\ pc' = "done" /\ complete' = (input.maxRecords > 0)
    BY DEF Begin
  <1> HIDE DEF first, node, entry
  <1>7. \A p \in Wanted : p \in Paths /\ Good(p)
    BY <1>1, WantedIs
  <1>8. \A p \in Wanted :
           Branches(p, first) /\ \E d \in 1 .. input.atoms : p[1] = rows[Start][d]
    <2> SUFFICES ASSUME NEW p \in Wanted
                 PROVE  Branches(p, first) /\ \E d \in 1 .. input.atoms : p[1] = rows[Start][d]
      OBVIOUS
    <2>1. Len(p) \in Nat /\ Len(p) >= 1
      BY <1>7, EmptySeq DEF Paths
    <2>2. p[1] \in Atoms
      <3>1. 1 \in 1 .. Len(p)
        BY <2>1
      <3> QED BY <1>7, <3>1, BeforeType
    <2>3. \E d \in 1 .. input.atoms : rows[Start][d] = p[1]
      BY <1>1, <1>2, <2>2, RowOnto
    <2> QED BY <1>3, <2>1, <2>3 DEF Branches
  <1>9. CASE input.maxRecords > 0 /\ AddToHeap(first) /\ nodes' = <<node>>
             /\ heap' = <<entry>> /\ pc' = "visit" /\ complete' = complete
    <2>1. /\ Len(nodes') = 1 /\ nodes'[1] = node /\ Len(heap') = 1 /\ heap'[1] = entry
      BY <1>9
    <2>2. Good(first)
      <3>1. \A c \in 1 .. 1 - 1 :
               Append(SubSeq(first, 1, Len(first) - 1), rows[Start][c]) \notin input.weak
        OBVIOUS
      <3>2. Passable(first, 1)
        BY <1>1, <1>2, <1>3, <1>4, <1>9, <3>1, LastPassable
      <3> QED BY <1>3, <1>9, <3>2 DEF Good, AddToHeap
    <2>3. \A n \in 1 .. Len(nodes') :
             Good(nodes'[n].path) /\ nodes'[n].keep = KeepForOutput(nodes'[n].path)
      BY <1>5, <2>1, <2>2
    <2>4. \A p \in Wanted : \E i \in 1 .. Len(heap') : Ahead(p, nodes'[heap'[i].node])
      <3>1. \A p \in Wanted : Ahead(p, node)
        <4>1. node.column + 1 = 1 /\ Len(node.path) = 1
          BY <1>3, <1>5
        <4> QED BY <1>5, <1>8, <4>1 DEF Ahead
      <3> QED BY <1>5, <2>1, <3>1
    <2>5. \A r \in 1 .. Len(records') : records'[r] \in Wanted
      BY <1>1
    <2>6. Search'
      BY <1>1, <1>9, <2>3, <2>4, <2>5, SearchNext
    <2> QED BY <1>1, <1>9, <2>6 DEF MissInv, NothingMissed
  <1>10. CASE ~(input.maxRecords > 0 /\ AddToHeap(first))
              /\ pc' = "done" /\ complete' = (input.maxRecords > 0)
    <2>1. ToSet(records') = {}
      BY <1>1 DEF ToSet
    <2>2. complete' => Wanted = {}
      <3> SUFFICES ASSUME complete', NEW p \in Wanted PROVE FALSE
        OBVIOUS
      <3>1. ~AddToHeap(first)
        BY <1>10
      <3>2. PICK d \in 1 .. input.atoms : p[1] = rows[Start][d]
        BY <1>8
      <3>3. 1 <= d
        OBVIOUS
      <3>4. p \in Paths /\ Good(p) /\ Branches(p, first) /\ p[Len(first)] = rows[Start][d]
        BY <1>3, <1>7, <1>8, <3>2
      <3>5. Start = Before(first, Len(first)) /\ pc # "prepare"
        BY <1>1, <1>3
      <3> QED BY <1>2, <1>3, <1>4, <3>1, <3>3, <3>4, <3>5, NothingBehind
    <2>3. Wanted' = Wanted
      BY <1>1, SameSearch
    <2>4. ToSet(records)' = ToSet(records')
      BY DEF ToSet
    <2>5. NothingMissed'
      BY <2>1, <2>2, <2>3, <2>4 DEF NothingMissed
    <2> QED BY <1>10, <2>5 DEF MissInv
  <1> QED BY <1>6, <1>9, <1>10

\* When the heap is empty, everything wanted was found.
LEMMA MissExhaust == TypeInv /\ MissInv /\ Exhaust => MissInv'
  <1> SUFFICES ASSUME TypeInv, MissInv, Exhaust PROVE MissInv'
    OBVIOUS
  <1>1. /\ UNCHANGED <<input, rows, records>> /\ pc = "visit" /\ heap = <<>> /\ Search
        /\ pc' = "done" /\ complete' = TRUE
    BY DEF Exhaust, MissInv
  <1>2. DOMAIN records = 1 .. Len(records)
    BY DEF TypeInv
  <1>3. \A p : ~Pending(p)
    BY <1>1 DEF Pending
  <1>4. ToSet(records) = Wanted
    BY <1>1, <1>2, <1>3 DEF ToSet, Search, Found
  <1>5. NothingMissed'
    <2>1. Wanted' = Wanted
      BY <1>1, SameSearch
    <2>2. ToSet(records)' = ToSet(records)
      BY <1>1 DEF ToSet
    <2> QED BY <1>1, <1>4, <2>1, <2>2 DEF NothingMissed
  <1> QED BY <1>1, <1>5 DEF MissInv

\* Every step leaves what is wanted found or to come.
LEMMA MissStep == TypeInv /\ HeapInv /\ OrderInv /\ MissInv /\ [Next]_vars => MissInv'
  <1> SUFFICES ASSUME TypeInv, HeapInv, OrderInv, MissInv, [Next]_vars PROVE MissInv'
    OBVIOUS
  <1>1. CASE Prepare
    <2>1. pc = "prepare" /\ pc' \in {"begin", "prepare"} /\ complete' = complete
      BY <1>1 DEF Prepare
    <2> QED BY <2>1 DEF MissInv, NothingMissed
  <1>2. CASE UNCHANGED vars
    <2>1. /\ UNCHANGED <<input, rows, nodes, heap, records, saved, complete>>
          /\ pc' = pc
      BY <1>2 DEF vars
    <2>2. Wanted' = Wanted /\ \A p : Length(p)' = Length(p)
      BY <2>1, SameSearch, SameInput
    <2>3. NothingMissed'
      BY <2>1, <2>2 DEF MissInv, NothingMissed, ToSet
    <2>4. Search => Search'
      BY <2>1, SearchNext DEF Search, Found, Pending
    <2> QED BY <2>1, <2>3, <2>4 DEF MissInv
  <1>3. CASE Visit
    BY <1>3, VisitFull, VisitGoesOn
  <1> QED BY <1>1, <1>2, <1>3, MissBegin, MissSink, MissExtend, MissRise, MissExhaust DEF Next

\* The search finds exactly the paths within the limits, or the shortest of
\* them if a record limit ends it, for any cluster, limits and criteria.
THEOREM MissesNothing == Spec => []NothingMissed
  <1>1. Init => MissInv
    BY DEF Init, MissInv, NothingMissed
  <1>2. MissInv => NothingMissed
    BY DEF MissInv
  <1> QED BY <1>1, <1>2, TypeInit, TypeStep, HeapInit, HeapStep, OrderInit, OrderStep,
             MissStep, PTL DEF Spec
-----------------------------------------------------------------------------
\* The enumeration

\* While the search goes on, fewer paths were recorded than asked for.
Room == pc \in {"visit", "sink", "extend", "rise"} => Len(records) < input.maxRecords

\* A visit ends the search if it fills the records, and goes on otherwise.
LEMMA VisitEnds ==
    ASSUME Visit
    PROVE  IF Full(records') THEN pc' = "done" ELSE pc' = "sink"
  BY DEF Visit

\* Every step leaves room, or ends the search.
LEMMA RoomStep == TypeInv /\ OrderInv /\ Room /\ [Next]_vars => Room'
  <1> SUFFICES ASSUME TypeInv, OrderInv, Room, [Next]_vars PROVE Room'
    OBVIOUS
  <1>a. input.maxRecords \in Nat /\ Len(records) \in Nat
    BY InputsAssumption DEF TypeInv
  <1>1. CASE Prepare
    <2>1. pc' \in {"begin", "prepare"}
      BY <1>1 DEF Prepare
    <2> QED BY <2>1 DEF Room
  <1>2. CASE Begin
    <2>1. input' = input /\ records' = <<>> /\ Len(records') = 0
      BY <1>2 DEF Begin, OrderInv
    <2>2. pc' = "visit" => input.maxRecords > 0
      BY <1>2 DEF Begin
    <2>3. pc' \in {"visit", "done"}
      BY <1>2 DEF Begin
    <2> QED BY <1>a, <2>1, <2>2, <2>3 DEF Room
  <1>3. CASE Visit
    <2>1. TypeInv'
      BY <1>3, TypeVisit
    <2>2. Len(records') \in Nat /\ input' = input
      BY <1>3, <2>1 DEF TypeInv, Visit
    <2>3. Full(records') => pc' = "done"
      BY <1>3, VisitEnds
    <2> QED BY <1>a, <2>2, <2>3 DEF Room, Full
  <1>4. CASE Sink
    <2>1. input' = input /\ records' = records /\ pc = "sink"
      BY <1>4 DEF Sink
    <2> QED BY <2>1 DEF Room
  <1>5. CASE Extend
    <2>1. input' = input /\ records' = records /\ pc = "extend"
      BY <1>5 DEF Extend
    <2> QED BY <2>1 DEF Room
  <1>6. CASE Rise
    <2>1. input' = input /\ records' = records /\ pc = "rise"
      BY <1>6 DEF Rise
    <2> QED BY <2>1 DEF Room
  <1>7. CASE Exhaust
    <2>1. pc' = "done"
      BY <1>7 DEF Exhaust
    <2> QED BY <2>1 DEF Room
  <1>8. CASE UNCHANGED vars
    BY <1>8 DEF Room, vars
  <1> QED BY <1>1, <1>2, <1>3, <1>4, <1>5, <1>6, <1>7, <1>8 DEF Next

\* What the enumeration has found, of a sequence of paths.
Taken(paths) == [i \in DOMAIN paths |-> Measured(paths[i])]

\* A function on the first natural numbers is a sequence.
LEMMA SeqOfFunction ==
    ASSUME NEW S, NEW n \in Nat, NEW f \in [1 .. n -> S]
    PROVE  f \in Seq(S) /\ Len(f) = n
  OBVIOUS

\* Recording one more path takes one more.
LEMMA TakenAppend ==
    ASSUME NEW paths \in Seq(Seq(Atoms) \ {<<>>}), NEW p \in Seq(Atoms) \ {<<>>}
    PROVE  /\ Taken(Append(paths, p)) = Append(Taken(paths), Measured(p))
           /\ Len(Taken(paths)) = Len(paths) /\ Len(paths) \in Nat
           /\ Len(Taken(Append(paths, p))) = Len(paths) + 1
  <1> DEFINE M == {Measured(q) : q \in Seq(Atoms) \ {<<>>}}
             longer == Append(paths, p)
             taken == Taken(paths)
             more == Append(taken, Measured(p))
  <1>1. /\ longer \in Seq(Seq(Atoms) \ {<<>>}) /\ Len(paths) \in Nat
        /\ Len(longer) = Len(paths) + 1
        /\ DOMAIN longer = 1 .. Len(paths) + 1 /\ DOMAIN paths = 1 .. Len(paths)
        /\ longer[Len(paths) + 1] = p /\ \A i \in 1 .. Len(paths) : longer[i] = paths[i]
    BY AppendProperties
  <1>2. taken \in [1 .. Len(paths) -> M] /\ Taken(longer) \in [1 .. Len(paths) + 1 -> M]
    <2>1. \A i \in 1 .. Len(paths) : Measured(paths[i]) \in M
      BY ElementOfSeq
    <2>2. \A i \in 1 .. Len(paths) + 1 : Measured(longer[i]) \in M
      BY <1>1, ElementOfSeq
    <2> QED BY <1>1, <2>1, <2>2 DEF Taken
  <1>3. Measured(p) \in M
    OBVIOUS
  <1>4. /\ \A i \in 1 .. Len(paths) : taken[i] = Measured(paths[i])
        /\ \A i \in 1 .. Len(paths) + 1 : Taken(longer)[i] = Measured(longer[i])
    BY <1>1 DEF Taken
  <1> HIDE DEF M, longer, taken
  <1>5. /\ taken \in Seq(M) /\ Len(taken) = Len(paths)
        /\ Taken(longer) \in Seq(M) /\ Len(Taken(longer)) = Len(paths) + 1
    <2>1. Len(paths) + 1 \in Nat
      BY <1>1
    <2>2. taken \in Seq(M) /\ Len(taken) = Len(paths)
      BY <1>1, <1>2, SeqOfFunction
    <2>3. Taken(longer) \in Seq(M) /\ Len(Taken(longer)) = Len(paths) + 1
      BY <1>2, <2>1, SeqOfFunction
    <2> QED BY <2>2, <2>3
  <1>6. /\ more \in Seq(M) /\ Len(more) = Len(paths) + 1
        /\ more[Len(paths) + 1] = Measured(p)
        /\ \A i \in 1 .. Len(paths) : more[i] = taken[i]
    BY <1>3, <1>5, AppendProperties
  <1> HIDE DEF more
  <1>7. \A i \in 1 .. Len(paths) + 1 : Taken(longer)[i] = more[i]
    <2> SUFFICES ASSUME NEW i \in 1 .. Len(paths) + 1 PROVE Taken(longer)[i] = more[i]
      OBVIOUS
    <2>1. CASE i = Len(paths) + 1
      BY <1>1, <1>4, <1>6, <2>1
    <2>2. CASE i \in 1 .. Len(paths)
      BY <1>1, <1>4, <1>6, <2>2
    <2> QED BY <1>1, <2>1, <2>2
  <1>8. Taken(longer) = more
    BY <1>5, <1>6, <1>7, SeqEqual
  <1> QED BY <1>1, <1>5, <1>8 DEF longer, taken, more

\* What is left of the enumeration is what is wanted and was not found.
LEMMA LeftIs ==
    ASSUME TypeInv, pc # "prepare"
    PROVE  \A m : m \in Enumeration!Left <=> \E p \in Wanted : m = Measured(p) /\ ~Found(p)
  <1>1. DOMAIN records = 1 .. Len(records)
    BY DEF TypeInv
  <1>2. \A m : m \in Enumeration!Left <=>
           /\ \E p \in Wanted : m = Measured(p)
           /\ ~ \E i \in 1 .. Len(records) : m = Measured(records[i])
    BY <1>1 DEF Enumeration!Left
  <1>3. \A p, q : Measured(p) = Measured(q) => p = q
    <2>1. \A p : Measured(p).path = p
      BY DEF Measured
    <2> QED BY <2>1
  <1>4. \A p : Found(p) <=> \E i \in 1 .. Len(records) : Measured(p) = Measured(records[i])
    BY <1>3 DEF Found
  <1> QED BY <1>2, <1>4

\* The paths and their lengths are the same after a step.
LEMMA SameMeasured ==
    ASSUME input' = input
    PROVE  \A p : Measured(p)' = Measured(p)
  BY SameInput DEF Measured

\* A step the enumeration does not see.
LEMMA Unseen ==
    ASSUME UNCHANGED <<input, rows, records>>, Phase' = Phase,
           pc' = "prepare" <=> pc = "prepare"
    PROVE  UNCHANGED Enumeration!vars
  <1>1. Wanted' = Wanted /\ \A p : Measured(p)' = Measured(p)
    BY SameSearch, SameMeasured
  <1>2. {Measured(p) : p \in Wanted}' = {Measured(p) : p \in Wanted}
    BY <1>1
  <1>3. [i \in DOMAIN records |-> Measured(records[i])]'
            = [i \in DOMAIN records |-> Measured(records[i])]
    BY <1>1
  <1> QED BY <1>2, <1>3 DEF Enumeration!vars

\* The search starts where the enumeration starts.
LEMMA EnumerationInit == Init => Enumeration!Init
  <1> SUFFICES ASSUME Init PROVE Enumeration!Init
    OBVIOUS
  <1>1. pc = "prepare" /\ records = <<>> /\ input.maxRecords \in Nat
    BY InputsAssumption DEF Init
  <1>2. [i \in DOMAIN records |-> Measured(records[i])] = <<>>
    BY <1>1
  <1> QED BY <1>1, <1>2 DEF Enumeration!Init, Phase

\* Beginning without a candidate ends the enumeration, for one reason or another.
LEMMA BeginEnumerates ==
    ASSUME TypeInv, OrderInv, MissInv, Begin
    PROVE  [Enumeration!Next]_(Enumeration!vars)
  <1>1. /\ pc = "begin" /\ UNCHANGED <<input, rows, records>> /\ records = <<>>
        /\ input.maxRecords \in Nat /\ ~complete
    BY InputsAssumption DEF Begin, OrderInv, MissInv, TypeInv
  <1>2. \/ pc' = "visit"
        \/ pc' = "done" /\ complete' = (input.maxRecords > 0)
    BY DEF Begin
  <1>3. CASE pc' = "visit"
    BY <1>1, <1>3, Unseen DEF Phase
  <1>4. CASE pc' = "done" /\ complete' = (input.maxRecords > 0)
    <2>1. {Measured(p) : p \in Wanted}' = {Measured(p) : p \in Wanted}
      BY <1>1, SameSearch, SameMeasured
    <2>2. [i \in DOMAIN records |-> Measured(records[i])] = <<>>
          /\ [i \in DOMAIN records |-> Measured(records[i])]' = <<>> /\ Len(<<>>) = 0
      BY <1>1
    <2>3. Phase = "finding" /\ Phase' = IF complete' THEN "exhausted" ELSE "limit"
      BY <1>1, <1>4 DEF Phase
    <2>4. CASE input.maxRecords = 0
      <3>1. ~(input.maxRecords > 0)
        BY <2>4
      <3>2. ~complete'
        BY <1>4, <3>1, Zenon
      <3>3. Phase' = "limit"
        BY <2>3, <3>2
      <3>4. Enumeration!Refuse
        BY <1>1, <1>4, <2>1, <2>2, <2>3, <2>4, <3>3 DEF Enumeration!Refuse
      <3> QED BY <3>4 DEF Enumeration!Next
    <2>5. CASE input.maxRecords # 0
      <3>1. complete' = TRUE
        <4>1. input.maxRecords > 0
          BY <1>1, <2>5
        <4> QED BY <1>4, <4>1, Zenon
      <3>2. Wanted = {}
        <4>1. MissInv'
          BY MissBegin
        <4>2. ToSet(records)' = {}
          BY <1>1 DEF ToSet
        <4>3. Wanted' = {}
          BY <1>4, <3>1, <4>1, <4>2 DEF MissInv, NothingMissed
        <4> QED BY <1>1, <4>3, SameSearch
      <3>3. Enumeration!Left = {}
        BY <1>1, <3>2, LeftIs
      <3>4. Enumeration!Exhaust
        BY <1>1, <1>4, <2>1, <2>2, <2>3, <2>5, <3>1, <3>3 DEF Enumeration!Exhaust
      <3> QED BY <3>4 DEF Enumeration!Next
    <2> QED BY <2>4, <2>5
  <1> QED BY <1>2, <1>3, <1>4

\* A visit that records takes the shortest path that is left.
LEMMA VisitEnumerates ==
    ASSUME TypeInv, HeapInv, OrderInv, OnceInv, MissInv, Room, Visit
    PROVE  [Enumeration!Next]_(Enumeration!vars)
  <1>a. PICK n : n = heap[1].node
    OBVIOUS
  <1>b. PICK path : path = nodes[n].path
    OBVIOUS
  <1>1. /\ pc = "visit" /\ UNCHANGED <<input, rows, complete>> /\ ~complete /\ Search /\ Walks
        /\ Len(records) < input.maxRecords /\ input.maxRecords \in Nat
        /\ records \in Seq(Seq(Atoms) \ {<<>>}) /\ Len(records) \in Nat
    BY InputsAssumption DEF Visit, MissInv, OnceInv, Room, TypeInv
  <1>2. /\ heap # <<>> /\ n \in 1 .. Len(nodes) /\ nodes[n] \in Node
        /\ records' = Recorded(nodes[n])
    BY <1>a, VisitIs
  <1>3. path \in Paths /\ path \in Seq(Atoms) \ {<<>>}
    BY <1>2, <1>b, NodeType DEF Paths
  <1>4. CASE records' = records
    <2>1. ~Full(records')
      BY <1>1, <1>4 DEF Full
    <2>2. pc' = "sink"
      BY <2>1, VisitEnds
    <2> QED BY <1>1, <1>4, <2>2, Unseen DEF Phase
  <1>5. CASE records' = Append(records, path)
    <2>1. /\ Taken(records') = Append(Taken(records), Measured(path))
          /\ Len(Taken(records)) = Len(records)
          /\ Len(Taken(records')) = Len(records) + 1 /\ Len(records') = Len(records) + 1
      BY <1>1, <1>3, <1>5, TakenAppend, AppendProperties
    <2>2. /\ [i \in DOMAIN records |-> Measured(records[i])] = Taken(records)
          /\ [i \in DOMAIN records |-> Measured(records[i])]' = Taken(records')
      BY <1>1, SameMeasured DEF Taken
    <2>3. Phase = "finding"
          /\ Phase' = IF Len(Taken(records')) = input.maxRecords THEN "limit" ELSE "finding"
      <3>1. Full(records') <=> Len(Taken(records')) = input.maxRecords
        BY <1>1, <2>1 DEF Full
      <3>2. IF Full(records') THEN pc' = "done" ELSE pc' = "sink"
        BY VisitEnds
      <3> QED BY <1>1, <3>1, <3>2 DEF Phase
    <2>4. Measured(path) \in Enumeration!Left
      <3>1. path \in Wanted
        <4>1. \A r \in 1 .. Len(records') : records'[r] \in Wanted
          BY <1>a, VisitFinds
        <4>2. Len(records) + 1 \in 1 .. Len(records') /\ records'[Len(records) + 1] = path
          BY <1>1, <1>3, <1>5, <2>1, AppendProperties
        <4> QED BY <4>1, <4>2
      <3>2. ~Found(path)
        <4>1. ~Visited(path)
          BY <1>1, <1>2, <1>a, <1>b, RootIsNew
        <4> QED BY <1>1, <4>1 DEF Walks, Found
      <3> QED BY <1>1, <3>1, <3>2, LeftIs
    <2>5. \A other \in Enumeration!Left : Measured(path).length <= other.length
      <3> SUFFICES ASSUME NEW other \in Enumeration!Left
                   PROVE  Measured(path).length <= other.length
        OBVIOUS
      <3>1. PICK p \in Wanted : other = Measured(p) /\ ~Found(p)
        BY <1>1, LeftIs
      <3>2. Length(path) <= Length(p)
        BY <1>1, <1>2, <1>a, <1>b, <3>1, RootShortest
      <3> QED BY <3>1, <3>2 DEF Measured
    <2>6. {Measured(p) : p \in Wanted}' = {Measured(p) : p \in Wanted}
      BY <1>1, SameSearch, SameMeasured
    <2>7. pc # "prepare" /\ pc' # "prepare"
      BY <1>1, VisitEnds
    <2>8. Enumeration!Find(Measured(path))
      BY <1>1, <2>1, <2>2, <2>3, <2>4, <2>5, <2>6, <2>7 DEF Enumeration!Find
    <2> QED BY <2>4, <2>8 DEF Enumeration!Next
  <1> QED BY <1>2, <1>b, <1>4, <1>5 DEF Recorded

\* The enumeration ends when the heap is empty.
LEMMA ExhaustEnumerates ==
    ASSUME TypeInv, MissInv, Room, Exhaust
    PROVE  [Enumeration!Next]_(Enumeration!vars)
  <1>1. /\ pc = "visit" /\ UNCHANGED <<input, rows, records>> /\ heap = <<>> /\ Search
        /\ pc' = "done" /\ complete' = TRUE /\ Len(records) < input.maxRecords
        /\ records \in Seq(Seq(Atoms) \ {<<>>})
    BY DEF Exhaust, MissInv, Room, TypeInv
  <1>2. Enumeration!Left = {}
    <2>1. \A p \in Wanted : Found(p)
      BY <1>1 DEF Search, Pending
    <2> QED BY <1>1, <2>1, LeftIs
  <1>3. {Measured(p) : p \in Wanted}' = {Measured(p) : p \in Wanted}
    BY <1>1, SameSearch, SameMeasured
  <1>4. /\ [i \in DOMAIN records |-> Measured(records[i])] = Taken(records)
        /\ [i \in DOMAIN records |-> Measured(records[i])]' = Taken(records)
    BY <1>1, SameMeasured DEF Taken
  <1>5. Len(Taken(records)) = Len(records)
    <2>1. <<0>> \in Seq(Atoms) \ {<<>>}
      BY AtomsType DEF TypeInv
    <2> QED BY <1>1, <2>1, TakenAppend
  <1>6. Phase = "finding" /\ Phase' = "exhausted"
    BY <1>1 DEF Phase
  <1>7. Enumeration!Exhaust
    BY <1>1, <1>2, <1>3, <1>4, <1>5, <1>6 DEF Enumeration!Exhaust
  <1> QED BY <1>7 DEF Enumeration!Next

\* Every step of the search is a step of the enumeration, or none.
LEMMA EnumerationStep ==
    TypeInv /\ HeapInv /\ OrderInv /\ OnceInv /\ MissInv /\ Room /\ [Next]_vars
        => [Enumeration!Next]_(Enumeration!vars)
  <1> SUFFICES ASSUME TypeInv, HeapInv, OrderInv, OnceInv, MissInv, Room, [Next]_vars
               PROVE  [Enumeration!Next]_(Enumeration!vars)
    OBVIOUS
  <1>1. CASE Prepare
    <2>1. /\ pc = "prepare" /\ pc' \in {"begin", "prepare"} /\ input' = input
          /\ records' = records /\ records = <<>>
      BY <1>1 DEF Prepare, OrderInv
    <2>2. /\ [i \in DOMAIN records |-> Measured(records[i])] = <<>>
          /\ [i \in DOMAIN records |-> Measured(records[i])]' = <<>>
      BY <2>1
    <2>3. CASE pc' = "begin"
      <3>1. Phase = "preparing" /\ Phase' = "finding"
        BY <2>1, <2>3 DEF Phase
      <3>2. Enumeration!Choose
        BY <2>1, <2>2, <3>1 DEF Enumeration!Choose
      <3> QED BY <3>2 DEF Enumeration!Next
    <2>4. CASE pc' = "prepare"
      BY <2>1, <2>2, <2>4 DEF Enumeration!vars, Phase
    <2> QED BY <2>1, <2>3, <2>4
  <1>2. CASE Sink
    <2>1. UNCHANGED <<input, rows, records>> /\ pc = "sink" /\ pc' \in {"sink", "extend"}
      BY <1>2 DEF Sink
    <2> QED BY <2>1, Unseen DEF Phase
  <1>3. CASE Extend
    <2>1. UNCHANGED <<input, rows, records>> /\ pc = "extend" /\ pc' \in {"rise", "visit"}
      BY <1>3 DEF Extend
    <2> QED BY <2>1, Unseen DEF Phase
  <1>4. CASE Rise
    <2>1. UNCHANGED <<input, rows, records>> /\ pc = "rise" /\ pc' \in {"rise", "visit"}
      BY <1>4 DEF Rise
    <2> QED BY <2>1, Unseen DEF Phase
  <1>5. CASE UNCHANGED vars
    <2>1. UNCHANGED <<input, rows, records, pc, complete>>
      BY <1>5 DEF vars
    <2> QED BY <2>1, Unseen DEF Phase
  <1> QED BY <1>1, <1>2, <1>3, <1>4, <1>5, BeginEnumerates, VisitEnumerates,
             ExhaustEnumerates DEF Next

\* The search implements the enumeration that takes the shortest path left, again
\* and again, until none is left or enough were taken: for any cluster, limits and
\* criteria, what is found is at every moment the shortest there is.
THEOREM SearchImplemented == Spec => EnumerationRefined
  <1>1. Init => OnceInv /\ MissInv /\ Room
    BY DEF Init, OnceInv, FoundOnce, Walks, MissInv, NothingMissed, Room
  <1>2. Enumeration!Spec <=> EnumerationRefined
    BY DEF EnumerationRefined
  <1> QED BY <1>1, <1>2, EnumerationInit, EnumerationStep, TypeInit, TypeStep, HeapInit,
             HeapStep, OrderInit, OrderStep, OnceStep, MissStep, RoomStep,
             PTL DEF Spec, Enumeration!Spec
-----------------------------------------------------------------------------
\* Progress

\* The paths of at most so many atoms are finitely many.
UpTo(k) == {p \in Seq(Atoms) : Len(p) <= k}

\* One more atom on every path leaves them finitely many.
LEMMA UpToNext ==
    ASSUME input \in Inputs, NEW k \in Nat, IsFiniteSet(UpTo(k))
    PROVE  IsFiniteSet(UpTo(k + 1))
  <1> DEFINE pairs == UpTo(k) \X Atoms
             longer == {Append(x[1], x[2]) : x \in pairs}
             f == [x \in pairs |-> Append(x[1], x[2])]
  <1>1. IsFiniteSet(Atoms)
    <2>1. 0 \in Int /\ input.atoms - 1 \in Int
      BY AtomsType
    <2>2. IsFiniteSet(0 .. input.atoms - 1)
      BY <2>1, FS_Interval
    <2> QED BY <2>2 DEF Atoms, AtomsOf
  <1>2. IsFiniteSet(pairs)
    BY <1>1, FS_Product
  <1>3. f \in Surjection(pairs, longer)
    BY DEF Surjection
  <1>4. IsFiniteSet(longer)
    <2> HIDE DEF f, pairs, longer
    <2> QED BY <1>2, <1>3, FS_Surjection
  <1>5. IsFiniteSet(UpTo(k) \cup longer)
    <2> HIDE DEF longer
    <2> QED BY <1>4, FS_Union
  <1>6. UpTo(k + 1) \subseteq UpTo(k) \cup longer
    <2> SUFFICES ASSUME NEW p \in UpTo(k + 1), p \notin UpTo(k) PROVE p \in longer
      OBVIOUS
    <2>1. p \in Seq(Atoms) /\ Len(p) = k + 1
      BY DEF UpTo
    <2>2. k + 1 \in 1 .. Len(p) /\ p[k + 1] \in Atoms /\ (k + 1) - 1 = k
      BY <2>1
    <2> DEFINE q == SubSeq(p, 1, k)
               r == Append(q, p[k + 1])
    <2>3. /\ r \in Seq(Atoms) /\ Len(r) = k + 1 /\ r[k + 1] = p[k + 1]
          /\ \A i \in 1 .. k : r[i] = p[i]
      BY <2>1, <2>2, FrontIs
    <2>4. q \in UpTo(k)
      <3>1. \A i \in 1 .. k : p[i] \in Atoms
        BY <2>1
      <3>2. q \in Seq(Atoms) /\ Len(q) = k
        BY <3>1, SubSeqProperties
      <3> QED BY <3>2 DEF UpTo
    <2>5. r = p
      <3>1. \A i \in 1 .. Len(r) : r[i] = p[i]
        <4> HIDE DEF r
        <4>1. \A i \in 1 .. k + 1 : i = k + 1 \/ i \in 1 .. k
          OBVIOUS
        <4> QED BY <2>3, <4>1
      <3> HIDE DEF r
      <3> QED BY <2>1, <2>3, <3>1, SeqEqual
    <2>6. <<q, p[k + 1]>> \in pairs
      <3> HIDE DEF q
      <3> QED BY <2>2, <2>4
    <2> HIDE DEF q
    <2> QED BY <2>5, <2>6
  <1> QED
    <2> HIDE DEF longer
    <2> QED BY <1>5, <1>6, FS_Subset

\* There are finitely many paths to visit.
LEMMA PathsFinite ==
    ASSUME input \in Inputs
    PROVE  IsFiniteSet(Paths)
  <1> DEFINE Bad == {k \in Nat : ~IsFiniteSet(UpTo(k))}
  <1>1. \A k \in Nat : IsFiniteSet(UpTo(k))
    <2> SUFFICES ASSUME Bad # {} PROVE FALSE
      OBVIOUS
    <2>1. PICK m \in Bad : \A k \in Bad : m <= k
      <3>1. Bad \in SUBSET Nat
        OBVIOUS
      <3> HIDE DEF Bad
      <3> QED BY <3>1, Least
    <2>2. m # 0
      <3>1. UpTo(0) \subseteq {<<>>}
        BY EmptySeq DEF UpTo
      <3>2. IsFiniteSet({<<>>})
        BY FS_Singleton
      <3>3. IsFiniteSet(UpTo(0))
        BY <3>1, <3>2, FS_Subset
      <3> QED BY <3>3
    <2>3. m - 1 \in Nat /\ (m - 1) + 1 = m
      BY <2>2
    <2>4. m - 1 \notin Bad
      <3>1. m \in Nat
        OBVIOUS
      <3> HIDE DEF Bad
      <3> QED BY <2>1, <2>3, <3>1
    <2>5. IsFiniteSet(UpTo(m - 1))
      BY <2>3, <2>4
    <2> QED BY <2>3, <2>5, UpToNext
  <1>2. Paths \subseteq UpTo(input.maxAtoms) /\ input.maxAtoms \in Nat
    BY AtomsType DEF Paths, UpTo
  <1> QED BY <1>1, <1>2, FS_Subset

\* The paths that can still be visited.
Unvisited == {p \in Paths : ~Visited(p)}

\* How much of the search is to come: what is before the search, the paths it did
\* not visit, how much of a round, and how far an entry may move in the heap.
Measure ==
    <<IF pc = "prepare" THEN input.atoms - at + 2
      ELSE IF pc = "begin" THEN 2 ELSE IF pc = "done" THEN 0 ELSE 1,
      Cardinality(Unvisited),
      IF pc = "sink" THEN 3 ELSE IF pc = "extend" THEN 2 ELSE IF pc = "rise" THEN 1 ELSE 0,
      IF pc = "rise" THEN at ELSE IF pc = "sink" /\ at <= Len(heap) THEN Len(heap) - at ELSE 0>>

\* The order of measures: the first place where they differ decides.
Less(m, n) ==
    \/ m[1] < n[1]
    \/ m[1] = n[1] /\ m[2] < n[2]
    \/ m[1] = n[1] /\ m[2] = n[2] /\ m[3] < n[3]
    \/ m[1] = n[1] /\ m[2] = n[2] /\ m[3] = n[3] /\ m[4] < n[4]

\* Measures are made of natural numbers.
LEMMA MeasureType ==
    ASSUME TypeInv
    PROVE  Measure \in Nat \X Nat \X Nat \X Nat
  <1>1. Cardinality(Unvisited) \in Nat
    <2>1. IsFiniteSet(Unvisited)
      BY PathsFinite, FS_Subset DEF TypeInv, Unvisited
    <2> QED BY <2>1, FS_CardinalityType
  <1>2. input.atoms \in Nat /\ at \in Int /\ Len(heap) \in Nat
    BY AtomsType DEF TypeInv
  <1>3. /\ pc = "prepare" => input.atoms - at + 2 \in Nat
        /\ pc = "rise" => at \in Nat
        /\ at <= Len(heap) => Len(heap) - at \in Nat
    <2>1. pc = "prepare" => at < input.atoms
      BY DEF TypeInv
    <2>2. pc = "rise" => at >= 1
      BY DEF TypeInv
    <2> QED BY <1>2, <2>1, <2>2
  <1> QED BY <1>1, <1>3, <1>2 DEF Measure

\* Fewer paths are left when one more is visited.
LEMMA FewerUnvisited ==
    ASSUME input \in Inputs, input' = input, \A p : Visited(p) => Visited(p)'
    PROVE  /\ Cardinality(Unvisited) \in Nat /\ Cardinality(Unvisited)' \in Nat
           /\ Cardinality(Unvisited)' <= Cardinality(Unvisited)
           /\ (\E p \in Paths : ~Visited(p) /\ Visited(p)') =>
                 Cardinality(Unvisited)' < Cardinality(Unvisited)
  <1>1. Unvisited' = {p \in Paths : ~Visited(p)'}
    BY SameInput DEF Unvisited
  <1> DEFINE Later == {p \in Paths : ~Visited(p)'}
  <1>2. Later \subseteq Unvisited /\ IsFiniteSet(Unvisited)
    BY PathsFinite, FS_Subset DEF Unvisited
  <1>3. (\E p \in Paths : ~Visited(p) /\ Visited(p)') => Later # Unvisited
    BY DEF Unvisited
  <1> HIDE DEF Later
  <1>4. /\ IsFiniteSet(Later) /\ Cardinality(Later) <= Cardinality(Unvisited)
        /\ Cardinality(Later) = Cardinality(Unvisited) => Later = Unvisited
    BY <1>2, FS_Subset
  <1>5. Cardinality(Unvisited) \in Nat /\ Cardinality(Later) \in Nat
    BY <1>2, <1>4, FS_CardinalityType
  <1> QED BY <1>1, <1>3, <1>4, <1>5 DEF Later

\* Every step of the search leaves less to come.
LEMMA MeasureStep ==
    ASSUME TypeInv, HeapInv, OrderInv, OnceInv, Next
    PROVE  Less(Measure', Measure)
  <1>a. /\ input' = input /\ input \in Inputs /\ TypeInv'
        /\ input.atoms \in Nat /\ at \in Int /\ at' \in Int
        /\ Len(heap) \in Nat /\ Len(heap') \in Nat
    <2>1. input' = input
      BY DEF Next, Prepare, Begin, Visit, Sink, Extend, Rise, Exhaust
    <2>2. TypeInv'
      BY TypeStep
    <2> QED BY <2>1, <2>2, AtomsType DEF TypeInv
  <1>1. CASE Prepare
    <2>1. pc = "prepare" /\ at' = at + 1 /\ at < input.atoms
          /\ pc' = IF at' = input.atoms THEN "begin" ELSE "prepare"
      BY <1>1 DEF Prepare, TypeInv
    <2>2. Measure[1] = input.atoms - at + 2
      BY <2>1 DEF Measure
    <2>3. Measure'[1] = IF at' = input.atoms THEN 2 ELSE input.atoms - at' + 2
      BY <1>a, <2>1 DEF Measure
    <2>4. Measure'[1] < Measure[1]
      BY <1>a, <2>1, <2>2, <2>3
    <2> QED BY <2>4 DEF Less
  <1>2. CASE Begin
    <2>1. pc = "begin" /\ pc' \in {"visit", "done"}
      BY <1>2 DEF Begin
    <2>2. Measure[1] = 2 /\ Measure'[1] \in {0, 1}
      BY <2>1 DEF Measure
    <2> QED BY <2>2 DEF Less
  <1>3. CASE Exhaust
    <2>1. pc = "visit" /\ pc' = "done"
      BY <1>3 DEF Exhaust
    <2>2. Measure[1] = 1 /\ Measure'[1] = 0
      BY <2>1 DEF Measure
    <2> QED BY <2>2 DEF Less
  <1>4. CASE Visit
    <2>1. pc = "visit" /\ pc' \in {"sink", "done"}
      BY <1>4, VisitEnds DEF Visit
    <2>2. CASE pc' = "done"
      <3>1. Measure[1] = 1 /\ Measure'[1] = 0
        BY <2>1, <2>2 DEF Measure
      <3> QED BY <3>1 DEF Less
    <2>3. CASE pc' = "sink"
      <3>1. PICK n : n = heap[1].node
        OBVIOUS
      <3>2. PICK path : path = nodes[n].path
        OBVIOUS
      <3>3. /\ heap # <<>> /\ n \in 1 .. Len(nodes) /\ nodes[n] \in Node /\ saved' = path
            /\ Walks
        BY <1>4, <2>1, <3>1, <3>2, VisitIs DEF OnceInv
      <3>4. path \in Paths /\ ~Visited(path)
        BY <2>1, <3>1, <3>2, <3>3, NodeType, RootIsNew
      <3>5. Walks' /\ \A p : Visited(p) => Visited(p)'
        BY <1>4, <2>3, <3>3, VisitWalks
      <3>6. Visited(path)'
        BY <2>3, <3>3, <3>5 DEF Walks
      <3>7. Cardinality(Unvisited)' < Cardinality(Unvisited)
        BY <1>a, <3>4, <3>5, <3>6, FewerUnvisited
      <3>8. Measure[1] = 1 /\ Measure'[1] = 1 /\ Measure[2] = Cardinality(Unvisited)
            /\ Measure'[2] = Cardinality(Unvisited)'
        BY <2>1, <2>3 DEF Measure
      <3> QED BY <3>7, <3>8 DEF Less
    <2> QED BY <2>1, <2>2, <2>3
  <1>5. CASE Sink
    <2>1. Cardinality(Unvisited)' <= Cardinality(Unvisited)
          /\ Cardinality(Unvisited) \in Nat /\ Cardinality(Unvisited)' \in Nat
      BY <1>a, <1>5, OnceSink, FewerUnvisited
    <2>2. pc = "sink" /\ pc' \in {"sink", "extend"} /\ at >= 1
      BY <1>5 DEF Sink, TypeInv
    <2>3. Measure[1] = 1 /\ Measure'[1] = 1 /\ Measure[2] = Cardinality(Unvisited)
          /\ Measure'[2] = Cardinality(Unvisited)' /\ Measure[3] = 3
          /\ Measure'[3] = IF pc' = "sink" THEN 3 ELSE 2
      BY <2>2 DEF Measure
    <2>4. CASE pc' = "sink"
      <3>1. /\ 2 * at <= Len(heap) /\ heap' = Swap(heap, at, SmallerChild(at))
            /\ at' = SmallerChild(at)
        BY <1>5, <2>4 DEF Sink
      <3>2. at' \in 1 .. Len(heap) /\ at' > at /\ Len(heap') = Len(heap)
        <4>1. heap \in Seq(Entry) /\ at \in Nat /\ at >= 1
          BY <1>a, <2>2 DEF TypeInv
        <4>2. SmallerChild(at) \in 1 .. Len(heap) /\ SmallerChild(at) > at
              /\ at \in 1 .. Len(heap)
          BY <3>1, <4>1, SmallerChildIs
        <4> QED BY <3>1, <4>1, <4>2, SwapIs
      <3>3. at <= Len(heap) /\ at' <= Len(heap')
        BY <1>a, <3>2
      <3>4. Measure[4] = Len(heap) - at /\ Measure'[4] = Len(heap') - at'
        BY <2>2, <2>4, <3>3 DEF Measure
      <3>5. Measure'[4] < Measure[4]
        BY <1>a, <3>2, <3>4
      <3> QED BY <2>1, <2>3, <2>4, <3>5 DEF Less
    <2>5. CASE pc' = "extend"
      BY <2>1, <2>3, <2>5 DEF Less
    <2> QED BY <2>2, <2>4, <2>5
  <1>6. CASE Extend
    <2>1. Cardinality(Unvisited)' <= Cardinality(Unvisited)
          /\ Cardinality(Unvisited) \in Nat /\ Cardinality(Unvisited)' \in Nat
      BY <1>a, <1>6, OnceExtend, FewerUnvisited
    <2>2. pc = "extend" /\ pc' \in {"rise", "visit"}
      BY <1>6 DEF Extend
    <2>3. Measure[1] = 1 /\ Measure'[1] = 1 /\ Measure[2] = Cardinality(Unvisited)
          /\ Measure'[2] = Cardinality(Unvisited)' /\ Measure[3] = 2
          /\ Measure'[3] \in {0, 1}
      BY <2>2 DEF Measure
    <2> QED BY <2>1, <2>3 DEF Less
  <1>7. CASE Rise
    <2>1. Cardinality(Unvisited)' <= Cardinality(Unvisited)
          /\ Cardinality(Unvisited) \in Nat /\ Cardinality(Unvisited)' \in Nat
      BY <1>a, <1>7, OnceRise, FewerUnvisited
    <2>2. pc = "rise" /\ pc' \in {"rise", "visit"}
      BY <1>7 DEF Rise
    <2>3. Measure[1] = 1 /\ Measure'[1] = 1 /\ Measure[2] = Cardinality(Unvisited)
          /\ Measure'[2] = Cardinality(Unvisited)' /\ Measure[3] = 1
          /\ Measure'[3] = IF pc' = "rise" THEN 1 ELSE 0
      BY <2>2 DEF Measure
    <2>4. CASE pc' = "rise"
      <3>1. at > 1 /\ at' = Parent(at)
        BY <1>7, <2>4 DEF Rise
      <3>2. at' < at
        BY <1>a, <3>1, ParentIs
      <3>3. Measure[4] = at /\ Measure'[4] = at'
        BY <2>2, <2>4 DEF Measure
      <3> QED BY <2>1, <2>3, <2>4, <3>2, <3>3 DEF Less
    <2>5. CASE pc' = "visit"
      BY <2>1, <2>3, <2>5 DEF Less
    <2> QED BY <2>2, <2>4, <2>5
  <1> QED BY <1>1, <1>2, <1>3, <1>4, <1>5, <1>6, <1>7 DEF Next

\* No measures decrease for ever: among any there is one that none is less than.
LEMMA LessWellFounded ==
    ASSUME NEW T \in SUBSET (Nat \X Nat \X Nat \X Nat), T # {}
    PROVE  \E m \in T : \A k \in T : ~Less(k, m)
  <1>1. \A k \in T : k[1] \in Nat /\ k[2] \in Nat /\ k[3] \in Nat /\ k[4] \in Nat
    OBVIOUS
  <1>2. PICK a \in T : \A k \in T : a[1] <= k[1]
    <2> DEFINE F == {k[1] : k \in T}
    <2>1. F \in SUBSET Nat /\ F # {}
      BY <1>1
    <2>2. PICK m \in F : \A k \in F : m <= k
      <3> HIDE DEF F
      <3> QED BY <2>1, Least
    <2> QED BY <2>2
  <1>3. PICK b \in T : b[1] = a[1] /\ \A k \in T : k[1] = a[1] => b[2] <= k[2]
    <2> DEFINE F == {k[2] : k \in {l \in T : l[1] = a[1]}}
    <2>1. F \in SUBSET Nat /\ F # {}
      BY <1>1
    <2>2. PICK m \in F : \A k \in F : m <= k
      <3> HIDE DEF F
      <3> QED BY <2>1, Least
    <2> QED BY <2>2
  <1>4. PICK c \in T : /\ c[1] = a[1] /\ c[2] = b[2]
                       /\ \A k \in T : k[1] = a[1] /\ k[2] = b[2] => c[3] <= k[3]
    <2> DEFINE F == {k[3] : k \in {l \in T : l[1] = a[1] /\ l[2] = b[2]}}
    <2>1. F \in SUBSET Nat /\ F # {}
      BY <1>1, <1>3
    <2>2. PICK m \in F : \A k \in F : m <= k
      <3> HIDE DEF F
      <3> QED BY <2>1, Least
    <2> QED BY <2>2
  <1>5. PICK d \in T : /\ d[1] = a[1] /\ d[2] = b[2] /\ d[3] = c[3]
                       /\ \A k \in T : k[1] = a[1] /\ k[2] = b[2] /\ k[3] = c[3]
                                           => d[4] <= k[4]
    <2> DEFINE F == {k[4] : k \in {l \in T : l[1] = a[1] /\ l[2] = b[2] /\ l[3] = c[3]}}
    <2>1. F \in SUBSET Nat /\ F # {}
      BY <1>1, <1>4
    <2>2. PICK m \in F : \A k \in F : m <= k
      <3> HIDE DEF F
      <3> QED BY <2>1, Least
    <2> QED BY <2>2
  <1>6. ASSUME NEW k \in T PROVE ~Less(k, d)
    <2>1. /\ a[1] <= k[1]
          /\ k[1] = a[1] => b[2] <= k[2]
          /\ k[1] = a[1] /\ k[2] = b[2] => c[3] <= k[3]
          /\ k[1] = a[1] /\ k[2] = b[2] /\ k[3] = c[3] => d[4] <= k[4]
      BY <1>2, <1>3, <1>4, <1>5
    <2>2. /\ k[1] \in Nat /\ k[2] \in Nat /\ k[3] \in Nat /\ k[4] \in Nat
          /\ d[1] \in Nat /\ d[2] \in Nat /\ d[3] \in Nat /\ d[4] \in Nat
      BY <1>1
    <2> QED BY <1>5, <2>1, <2>2 DEF Less
  <1> QED BY <1>6

-----------------------------------------------------------------------------
\* Rows

\* The nearest atoms, in order; those not in the row come no sooner.
Sorted(s, k, row) ==
    /\ row \in [1 .. k -> Atoms]
    /\ \A i, j \in 1 .. k : row[i] = row[j] => i = j
    /\ \A i \in 1 .. k - 1 : Key(s, row[i]) <= Key(s, row[i + 1])
    /\ \A a \in Atoms :
          \/ \E i \in 1 .. k : row[i] = a
          \/ \A i \in 1 .. k : Key(s, row[i]) <= Key(s, a)

\* A row that has not every atom can be continued with the nearest that is left.
LEMMA SortedNext ==
    ASSUME input \in Inputs, NEW s \in Sources, NEW k \in Nat, k < input.atoms,
           NEW row, Sorted(s, k, row)
    PROVE  \E longer : Sorted(s, k + 1, longer)
  <1> DEFINE rest == {a \in Atoms : \A i \in 1 .. k : row[i] # a}
             keys == {Key(s, a) : a \in rest}
  <1>1. \A a \in Atoms : Key(s, a) \in Nat
    BY KeyIs
  <1>2. rest # {}
    <2> SUFFICES ASSUME rest = {} PROVE FALSE
      OBVIOUS
    <2>1. row \in Surjection(1 .. k, Atoms)
      BY DEF Sorted, Surjection
    <2>2. Cardinality(Atoms) <= k
      BY <2>1, FS_SurjCardinalityBound DEF ExistsSurjection
    <2>3. Cardinality(Atoms) = input.atoms
      <3>1. 0 \in Int /\ input.atoms - 1 \in Int /\ input.atoms \in Nat /\ input.atoms >= 2
        BY AtomsType
      <3>2. Cardinality(0 .. input.atoms - 1)
                = IF 0 > input.atoms - 1 THEN 0 ELSE input.atoms - 1 - 0 + 1
        BY <3>1, FS_Interval
      <3> QED BY <3>1, <3>2 DEF Atoms, AtomsOf
    <2> QED BY <2>2, <2>3, AtomsType
  <1>3. PICK least \in keys : \A key \in keys : least <= key
    <2>1. keys \in SUBSET Nat /\ keys # {}
      BY <1>1, <1>2
    <2> HIDE DEF keys
    <2> QED BY <2>1, Least
  <1>4. PICK a \in rest : least = Key(s, a)
    OBVIOUS
  <1>5. a \in Atoms /\ (\A i \in 1 .. k : row[i] # a)
        /\ \A b \in rest : Key(s, a) <= Key(s, b)
    BY <1>3, <1>4
  <1>6. row \in [1 .. k -> Atoms]
    BY DEF Sorted
  <1> DEFINE longer == [i \in 1 .. k + 1 |-> IF i = k + 1 THEN a ELSE row[i]]
  <1>7. /\ longer \in [1 .. k + 1 -> Atoms] /\ longer[k + 1] = a
        /\ \A i \in 1 .. k : longer[i] = row[i]
        /\ \A i \in 1 .. k + 1 : i = k + 1 \/ i \in 1 .. k
    BY <1>5, <1>6
  <1> HIDE DEF longer
  <1>8. \A i, j \in 1 .. k + 1 : longer[i] = longer[j] => i = j
    BY <1>5, <1>7 DEF Sorted
  <1>9. ASSUME NEW i \in 1 .. (k + 1) - 1
        PROVE  Key(s, longer[i]) <= Key(s, longer[i + 1])
    <2>1. i \in 1 .. k
      OBVIOUS
    <2>2. CASE i = k
      <3>1. Key(s, row[k]) <= Key(s, a)
        BY <1>5, <2>1, <2>2 DEF Sorted
      <3> QED BY <1>7, <2>1, <2>2, <3>1
    <2>3. CASE i # k
      <3>1. i \in 1 .. k - 1 /\ i + 1 \in 1 .. k
        BY <2>1, <2>3
      <3> QED BY <1>7, <2>1, <3>1 DEF Sorted
    <2> QED BY <2>2, <2>3
  <1>10. ASSUME NEW b \in Atoms, \A i \in 1 .. k + 1 : longer[i] # b, NEW i \in 1 .. k + 1
         PROVE  Key(s, longer[i]) <= Key(s, b)
    <2>1. b \in rest
      <3>1. \A j \in 1 .. k : j \in 1 .. k + 1
        OBVIOUS
      <3> QED BY <1>7, <1>10, <3>1
    <2>2. CASE i = k + 1
      BY <1>5, <1>7, <2>1, <2>2
    <2>3. CASE i \in 1 .. k
      <3>1. \A j \in 1 .. k : row[j] # b
        BY <2>1
      <3>2. Key(s, row[i]) <= Key(s, b)
        BY <2>3, <3>1 DEF Sorted
      <3> QED BY <1>7, <2>3, <3>2
    <2> QED BY <1>7, <2>2, <2>3
  <1>11. Sorted(s, k + 1, longer)
    BY <1>7, <1>8, <1>9, <1>10 DEF Sorted
  <1> QED BY <1>11

\* Every row can be sorted.
LEMMA RowExists ==
    ASSUME input \in Inputs, NEW s \in Sources
    PROVE  Rows(s) # {}
  <1> DEFINE Bad == {k \in 0 .. input.atoms : ~ \E row : Sorted(s, k, row)}
  <1>a. input.atoms \in Nat
    BY AtomsType
  <1>1. Bad = {}
    <2> SUFFICES ASSUME Bad # {} PROVE FALSE
      OBVIOUS
    <2>1. PICK m \in Bad : \A k \in Bad : m <= k
      <3>1. Bad \in SUBSET Nat
        BY <1>a
      <3> HIDE DEF Bad
      <3> QED BY <3>1, Least
    <2>2. m \in 0 .. input.atoms
      OBVIOUS
    <2>3. m # 0
      <3>1. Sorted(s, 0, [i \in 1 .. 0 |-> 0])
        BY DEF Sorted
      <3> QED BY <3>1
    <2>4. m - 1 \in 0 .. input.atoms /\ m - 1 < input.atoms /\ (m - 1) + 1 = m
          /\ m - 1 \in Nat
      BY <1>a, <2>2, <2>3
    <2>5. m - 1 \notin Bad
      <3> HIDE DEF Bad
      <3> QED BY <1>a, <2>1, <2>2, <2>4
    <2>6. PICK row : Sorted(s, m - 1, row)
      BY <2>4, <2>5
    <2>7. \E longer : Sorted(s, m, longer)
      BY <2>4, <2>6, SortedNext
    <2> QED BY <2>7
  <1>2. input.atoms \in 0 .. input.atoms
    BY <1>a
  <1>3. PICK row : Sorted(s, input.atoms, row)
    BY <1>1, <1>2
  <1>4. row \in Rows(s)
    BY <1>3 DEF Sorted, Rows, Injection, IsInjective
  <1> QED BY <1>4

\* Rows are prepared for the start and the atoms after it.
Preparing == pc = "prepare" => at >= Start

\* A search never stops before its end: each row can be sorted, each step leaves
\* less to come, and what is to come cannot decrease for ever (LessWellFounded).
\* The number of paths not visited is part of it: every visit is of a new path.
THEOREM SearchProgresses ==
    Spec => /\ [](pc = "prepare" => Rows(at) # {})
            /\ [](Measure \in Nat \X Nat \X Nat \X Nat)
            /\ [][Less(Measure', Measure)]_vars
  <1>1. Init => OnceInv /\ Preparing
    BY DEF Init, OnceInv, FoundOnce, Walks, Preparing, Start
  <1>2. TypeInv /\ Preparing /\ [Next]_vars => Preparing'
    <2> SUFFICES ASSUME TypeInv, Preparing, [Next]_vars PROVE Preparing'
      OBVIOUS
    <2>1. CASE Prepare
      <3>1. pc = "prepare" /\ at' = at + 1 /\ at \in Int
        BY <2>1 DEF Prepare, TypeInv
      <3> QED BY <3>1 DEF Preparing, Start
    <2>2. CASE Begin \/ Visit \/ Sink \/ Extend \/ Rise \/ Exhaust
      <3>1. pc' # "prepare"
        BY <2>2, VisitEnds DEF Begin, Sink, Extend, Rise, Exhaust
      <3> QED BY <3>1 DEF Preparing
    <2>3. CASE UNCHANGED vars
      BY <2>3 DEF Preparing, vars
    <2> QED BY <2>1, <2>2, <2>3 DEF Next
  <1>3. TypeInv /\ Preparing => (pc = "prepare" => Rows(at) # {})
    <2> SUFFICES ASSUME TypeInv, Preparing, pc = "prepare" PROVE Rows(at) # {}
      OBVIOUS
    <2>1. at \in Int /\ at < input.atoms /\ at >= -1 /\ input \in Inputs
      BY DEF TypeInv, Preparing, Start
    <2>2. at \in Sources
      BY <2>1, AtomsType DEF Sources, Start, Atoms, AtomsOf
    <2> QED BY <2>1, <2>2, RowExists
  <1>4. TypeInv => Measure \in Nat \X Nat \X Nat \X Nat
    BY MeasureType
  <1>5. TypeInv /\ HeapInv /\ OrderInv /\ OnceInv /\ [Next]_vars
            => [Less(Measure', Measure)]_vars
    BY MeasureStep
  <1> QED BY <1>1, <1>2, <1>3, <1>4, <1>5, TypeInit, TypeStep, HeapInit, HeapStep,
             OrderInit, OrderStep, OnceStep, PTL DEF Spec
=============================================================================
