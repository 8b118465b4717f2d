------------------------------ MODULE PathFinder ------------------------------
(***************************************************************************)
(* The path finder of the PATH stage: a best-first enumeration of the      *)
(* scattering paths of a cluster.                                          *)
(*                                                                         *)
(* A path is the sequence of the atoms it visits; it starts at and returns *)
(* to the absorber, atom 0.  A binary min-heap holds one candidate for     *)
(* each row of siblings that is being walked; visiting the shortest        *)
(* records it, replaces it by its next sibling and adds its first child.   *)
(* Lengths are integers here, and the importance criteria, which are       *)
(* numerics, are two sets of the input: the partial paths that are too     *)
(* weak for the heap and the paths that are too weak for the output.       *)
(***************************************************************************)
EXTENDS Integers, Sequences, SequencesExt

CONSTANTS
    Inputs,     \* the searches modelled
    Far         \* PATHFINDER_BIG_DISTANCE: the key of an excluded atom

(***************************************************************************)
(* An input is a record: atoms (how many there are), distance (between any *)
(* two), firstBounce (the atoms a path may start with), maxLength,         *)
(* maxAtoms, maxRecords, weak and faint (the paths the heap and the output *)
(* criterion reject).                                                      *)
(***************************************************************************)
AtomsOf(input) == 0 .. input.atoms - 1

IsMetric(distance, points) ==
    /\ distance \in [points -> [points -> Nat]]
    /\ \A a, b, c \in points :
          /\ distance[a][b] = distance[b][a]
          /\ distance[a][c] <= distance[a][b] + distance[b][c]
          /\ distance[a][b] + distance[b][c] < Far

ASSUME FarAssumption == Far \in Nat

\* The heap criterion is undefined for short paths and at the absorber.
ASSUME InputsAssumption ==
    \A i \in Inputs :
        /\ i.atoms \in Nat \ {0}
        /\ IsMetric(i.distance, AtomsOf(i))
        /\ i.firstBounce \subseteq AtomsOf(i) \ {0} /\ i.firstBounce # {}
        /\ i.maxLength \in Nat /\ i.maxAtoms \in Nat \ {0} /\ i.maxRecords \in Nat
        /\ \A path \in i.weak : Len(path) > 2 /\ Last(path) # 0

\* A row of candidates belongs to the atom they follow, or to the start.
Start == -1

From(source) == IF source = Start THEN 0 ELSE source

VARIABLES
    input,      \* the search
    rows,       \* the atoms to try after each atom, and at the start
    nodes,      \* every candidate ever put on the heap
    heap,       \* the keys and the nodes they belong to
    records,    \* the paths found, in this order
    pc,         \* where the search is
    at,         \* the position that sinks or rises in the heap
    saved,      \* the path being visited
    complete    \* the heap was exhausted

vars == <<input, rows, nodes, heap, records, pc, at, saved, complete>>

Atoms == AtomsOf(input)

-----------------------------------------------------------------------------
(* Lengths and criteria. *)

Distance(a, b) == input.distance[a][b]

\* The leg of a path that ends at its i-th atom.
Leg(path, i) == Distance(IF i = 1 THEN 0 ELSE path[i - 1], path[i])

\* The distance walked after each of its atoms.
Walked(path) ==
    LET walked[i \in 0 .. Len(path)] ==
            IF i = 0 THEN 0 ELSE walked[i - 1] + Leg(path, i)
    IN  walked

\* The length of the closed path.
Length(path) == Walked(path)[Len(path)] + Distance(Last(path), 0)

Key_OneLeg(source, atom) ==
    IF atom = source \/ (source = Start /\ atom \notin input.firstBounce)
    THEN Far
    ELSE Distance(From(source), atom)

\* What a candidate adds to the path it extends, or an excluded one's key.
Key(source, atom) ==
    IF atom = source \/ (source = Start /\ atom \notin input.firstBounce)
    THEN Far
    ELSE Distance(From(source), atom) + Distance(atom, 0)

\* The candidates after an atom, nearest first; ties in any order.
Rows(source) ==
    {row \in Injection(1 .. input.atoms, Atoms) :
        \A i \in 1 .. input.atoms - 1 :
            Key(source, row[i]) <= Key(source, row[i + 1])}

\* path_criteria_decision: a path that is back at the absorber is always
\* kept on the heap and never recorded.
AddToHeap(path) ==
    /\ Length(path) <= input.maxLength
    /\ Last(path) = 0 \/ path \notin input.weak

KeepForOutput(path) == Last(path) # 0 /\ path \notin input.faint

HasCandidate_ToTheEnd(node) ==
    /\ node.column < input.atoms
    /\ node.source = Start =>
           rows[Start][node.column + 1] \in input.firstBounce

\* The candidate at a column, counted from 0; the last one is the row's own
\* atom.
HasCandidate(node) ==
    /\ node.column < input.atoms - 1
    /\ node.source = Start =>
           rows[Start][node.column + 1] \in input.firstBounce

Candidate(node) == rows[node.source][node.column + 1]

-----------------------------------------------------------------------------
(* The heap: positions 1 .. Len(heap), the children of i at 2i and 2i + 1. *)

Parent(i) == i \div 2

Swap_KeysOnly(h, i, j) ==
    [h EXCEPT ![i].key = h[j].key, ![j].key = h[i].key]

Swap(h, i, j) == [h EXCEPT ![i] = h[j], ![j] = h[i]]

\* The smaller child of a position that has one.
SmallerChild(i) ==
    IF 2 * i < Len(heap) /\ heap[2 * i].key > heap[2 * i + 1].key
    THEN 2 * i + 1
    ELSE 2 * i

WithoutRoot_Shifted(h) == Tail(h)

\* The last entry takes the place of the root.
WithoutRoot(h) ==
    IF Len(h) = 1 THEN <<>> ELSE Front([h EXCEPT ![1] = Last(h)])

-----------------------------------------------------------------------------
Init ==
    /\ input \in Inputs
    /\ rows = [source \in Atoms \cup {Start} |-> <<>>]
    /\ nodes = <<>>
    /\ heap = <<>>
    /\ records = <<>>
    /\ pc = "prepare"
    /\ at = Start
    /\ saved = <<>>
    /\ complete = FALSE

\* pathfinder_preparation: one row after the other, the first bounces first.
Prepare ==
    /\ pc = "prepare"
    /\ \E row \in Rows(at) : rows' = [rows EXCEPT ![at] = row]
    /\ at' = at + 1
    /\ pc' = IF at' = input.atoms THEN "begin" ELSE "prepare"
    /\ UNCHANGED <<input, nodes, heap, records, saved, complete>>

\* The nearest first bounce is the first candidate.
Begin ==
    /\ pc = "begin"
    /\ LET first == <<rows[Start][1]>> IN
        IF input.maxRecords > 0 /\ AddToHeap(first)
        THEN /\ nodes' = <<[path |-> first, source |-> Start, column |-> 0,
                            keep |-> KeepForOutput(first)]>>
             /\ heap' = <<[key |-> Length(first), node |-> 1]>>
             /\ pc' = "visit"
             /\ UNCHANGED complete
        ELSE /\ pc' = "done"
             /\ complete' = (input.maxRecords > 0)
             /\ UNCHANGED <<nodes, heap>>
    /\ at' = 1
    /\ UNCHANGED <<input, rows, records, saved>>

Full_OneMore(found) == Len(found) > input.maxRecords

Full(found) == Len(found) >= input.maxRecords

Recorded_Faint(node) ==
    IF Last(node.path) # 0
    THEN Append(records, node.path) ELSE records

Recorded(node) ==
    IF Last(node.path) # 0 /\ node.keep
    THEN Append(records, node.path) ELSE records

\* The shortest candidate is recorded; unless that was the last record asked
\* for, its next sibling replaces it, and without one the entry is removed.
Visit ==
    /\ pc = "visit"
    /\ heap # <<>>
    /\ LET n == heap[1].node
           moved == [nodes[n] EXCEPT !.column = @ + 1]
           sibling == [nodes[n].path EXCEPT ![Len(nodes[n].path)] = Candidate(moved)]
       IN
        /\ records' = Recorded(nodes[n])
        /\ saved' = nodes[n].path
        /\ at' = 1
        /\ IF Full(records')
           THEN pc' = "done" /\ UNCHANGED <<nodes, heap>>
           ELSE IF HasCandidate(moved) /\ AddToHeap(sibling)
           THEN /\ nodes' = [nodes EXCEPT ![n] = [moved EXCEPT
                                !.path = sibling, !.keep = KeepForOutput(sibling)]]
                /\ heap' = [heap EXCEPT ![1].key = Length(sibling)]
                /\ pc' = "sink"
           ELSE /\ heap' = WithoutRoot(heap)
                /\ pc' = "sink"
                /\ UNCHANGED nodes
    /\ UNCHANGED <<input, rows, complete>>

Sink_NoBreak ==
    /\ pc = "sink"
    /\ IF 2 * at <= Len(heap) /\ heap[at].key > heap[SmallerChild(at)].key
       THEN /\ heap' = Swap(heap, at, SmallerChild(at))
            /\ at' = SmallerChild(at)
            /\ UNCHANGED pc
       ELSE UNCHANGED <<heap, at, pc>>
    /\ UNCHANGED <<input, rows, nodes, records, saved, complete>>

\* path_heap_bubble_down, one level at a time.
Sink ==
    /\ pc = "sink"
    /\ IF 2 * at <= Len(heap) /\ heap[at].key > heap[SmallerChild(at)].key
       THEN /\ heap' = Swap(heap, at, SmallerChild(at))
            /\ at' = SmallerChild(at)
            /\ UNCHANGED pc
       ELSE /\ pc' = "extend"
            /\ UNCHANGED <<heap, at>>
    /\ UNCHANGED <<input, rows, nodes, records, saved, complete>>

\* The first child of the path visited: the first of its last atom's row.
Extend ==
    /\ pc = "extend"
    /\ LET source == Last(saved)
           child == Append(saved, rows[source][1])
       IN
        IF Len(saved) < input.maxAtoms /\ AddToHeap(child)
        THEN /\ nodes' = Append(nodes, [path |-> child, source |-> source,
                                        column |-> 0, keep |-> KeepForOutput(child)])
             /\ heap' = Append(heap, [key |-> Length(child), node |-> Len(nodes')])
             /\ at' = Len(heap')
             /\ pc' = "rise"
        ELSE /\ pc' = "visit"
             /\ UNCHANGED <<nodes, heap, at>>
    /\ UNCHANGED <<input, rows, records, saved, complete>>

\* path_heap_bubble_up, one level at a time.
Rise ==
    /\ pc = "rise"
    /\ IF at > 1 /\ heap[at].key < heap[Parent(at)].key
       THEN /\ heap' = Swap(heap, at, Parent(at))
            /\ at' = Parent(at)
            /\ UNCHANGED pc
       ELSE /\ pc' = "visit"
            /\ UNCHANGED <<heap, at>>
    /\ UNCHANGED <<input, rows, nodes, records, saved, complete>>

\* Nothing is left on the heap.
Exhaust ==
    /\ pc = "visit"
    /\ heap = <<>>
    /\ pc' = "done"
    /\ complete' = TRUE
    /\ UNCHANGED <<input, rows, nodes, heap, records, at, saved>>

Next == \/ Prepare
        \/ Begin
        \/ Visit
        \/ Sink
        \/ Extend
        \/ Rise
        \/ Exhaust

Spec == Init /\ [][Next]_vars

FairSpec == Spec /\ WF_vars(Next)

-----------------------------------------------------------------------------
(* Properties. *)

IsPath(path) ==
    /\ path # <<>> /\ path[1] \in input.firstBounce
    /\ \A i \in 1 .. Len(path) - 1 : path[i] # path[i + 1]

Steps == {"prepare", "begin", "visit", "sink", "extend", "rise", "done"}

TypeOK ==
    /\ input \in Inputs
    /\ \A s \in Atoms \cup {Start} :
          rows[s] = <<>> \/ rows[s] \in [1 .. input.atoms -> Atoms]
    /\ \A n \in DOMAIN nodes :
          /\ nodes[n].path \in Seq(Atoms) /\ Len(nodes[n].path) \in 1 .. input.maxAtoms
          /\ nodes[n].source \in Atoms \cup {Start}
          /\ nodes[n].column \in 0 .. input.atoms - 2
          /\ nodes[n].keep \in BOOLEAN
    /\ \A i \in DOMAIN heap : heap[i].key \in Nat /\ heap[i].node \in DOMAIN nodes
    /\ records \in Seq(Seq(Atoms))
    /\ pc \in Steps
    /\ at \in Int
    /\ saved \in Seq(Atoms)
    /\ complete \in BOOLEAN

\* Between two visits the heap is a heap again and its keys are the lengths
\* of its nodes: bubbling moved keys and nodes together.
HeapOrdered ==
    pc \in {"visit", "extend"} =>
        \A i \in DOMAIN heap :
            /\ heap[i].key = Length(nodes[heap[i].node].path)
            /\ i > 1 => heap[Parent(i)].key <= heap[i].key

\* Paths are found shortest first: the reduction compares only neighbouring
\* records when it gathers the paths of one length.
ShortestFirst ==
    \A i, j \in DOMAIN records :
        i < j => Length(records[i]) <= Length(records[j])

\* No path is found twice: each would count once more in a degeneracy.
FoundOnce ==
    \A i, j \in DOMAIN records : i # j => records[i] # records[j]

\* The importance criterion turned away this path, a path it extends, or a
\* nearer sibling of either (with which the rest of the row is dropped).
Pruned(path) ==
    \E i \in DOMAIN path :
        LET source == IF i = 1 THEN Start ELSE path[i - 1]
            row == rows[source]
        IN  \E c \in DOMAIN row :
              /\ \E d \in DOMAIN row : row[d] = path[i] /\ c <= d
              /\ Append(SubSeq(path, 1, i - 1), row[c]) \in input.weak

\* Every path of at most maxAtoms atoms that may be found.
Wanted ==
    {path \in UNION {[1 .. n -> Atoms] : n \in 1 .. input.maxAtoms} :
        /\ IsPath(path)
        /\ KeepForOutput(path)
        /\ Length(path) <= input.maxLength
        /\ ~Pruned(path)}

\* The search misses nothing: exhausted, it has found exactly the paths within
\* the limits; stopped by the record limit, the shortest of them.
NothingMissed ==
    pc = "done" =>
        IF complete
        THEN ToSet(records) = Wanted
        ELSE /\ ToSet(records) \subseteq Wanted
             /\ \A p \in Wanted \ ToSet(records) :
                   \A r \in ToSet(records) : Length(r) <= Length(p)

\* Every search ends, however many paths the cluster has.
SearchEnds == <>(pc = "done")

Measured(path) == [path |-> path, length |-> Length(path)]

\* The phases of the enumeration the search carries out.
Phase ==
    IF pc = "prepare" THEN "preparing"
    ELSE IF pc # "done" THEN "finding"
    ELSE IF complete THEN "exhausted" ELSE "limit"

Enumeration == INSTANCE PathEnumeration WITH
    wanted <- IF pc = "prepare" THEN {} ELSE {Measured(path) : path \in Wanted},
    limit <- input.maxRecords,
    found <- [i \in DOMAIN records |-> Measured(records[i])],
    phase <- Phase

\* Every step of the search takes the shortest path that is left, ends the
\* search when none is left or enough were taken, or changes neither: the heap,
\* the rows and the candidates dropped are an implementation of that alone.
EnumerationRefined == Enumeration!Spec
=============================================================================
