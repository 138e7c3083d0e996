------------------------------ MODULE ScreenTree ------------------------------
(***************************************************************************)
(* The way of a target through the Android stack: the screen is collected  *)
(* as a tree of nodes (ObservationCollector.kt), the tree is compressed    *)
(* (observation/compressor.py), a target is matched with one of its nodes  *)
(* (action/matcher.py), and the node's id leads the device to the element  *)
(* to act on (AndroidActionExecutor.kt).                                   *)
(***************************************************************************)
EXTENDS Integers, FiniteSetsExt, SequencesExt

CONSTANTS Layouts,   \* trees of nodes
          Targets,   \* the targets asked for
          Words,     \* texts, of nodes and of targets
          Normal,    \* each text in small letters and single spaces
          Ratio      \* how much two texts resemble each other, in percent

Text == Words \cup {""}

\* A node is numbered in the order of the list it comes in; a collected node has
\* a slot among the children of its parent.  Its label stands for its text and
\* its description, "acts" that it can be clicked, edited or scrolled.  A list
\* that was not collected may name further children.
Node == [parent : Nat, slot : Nat, label : Text, resource : Text, class : Text,
         bounds : Nat, acts : BOOLEAN, visible : BOOLEAN]

\* what a target may name; no bounds are 0, as is no node
Target == [resource : Text, node : Nat, exact : SUBSET Words, hints : SUBSET Words,
           bounds : Nat]

N(l, i) == l.nodes[i]

ASSUME LayoutsAssumption ==
    \A l \in Layouts :
        /\ l.nodes \in Seq(Node) /\ l.extra \subseteq Nat \X Nat
        /\ \A i \in DOMAIN l.nodes : N(l, i).slot # 0
        /\ \A i, j \in DOMAIN l.nodes :
               N(l, i).parent = N(l, j).parent /\ N(l, i).slot = N(l, j).slot => i = j

ASSUME TargetsAssumption ==
    /\ Targets \subseteq Target
    /\ Normal \in [Words -> Words] /\ Ratio \in [Words \X Words -> 0..100]

VARIABLES layout, packed, step, target, meant,
          later,    \* how the screen differs when the device acts
          tapped,   \* the element acted on
          by        \* and the way it was reached

treeVars == <<layout, packed, step, target, meant, later, tapped, by>>

Nobody == 0
Stranger == -1   \* an element that was not collected

-----------------------------------------------------------------------------
(* The tree, for the collector and the executor.                           *)

Children(l, i) == {c \in DOMAIN l.nodes : N(l, c).parent = i}

\* what getChild(slot) returns; a slot may give nothing
ChildAt(l, i, slot) ==
    LET there == {c \in Children(l, i) : N(l, c).slot = slot}
    IN  IF there = {} THEN Nobody ELSE Min(there)

\* visit: the index of a child counts the children that were there
Index_Before(l, i) ==
    Cardinality({c \in Children(l, N(l, i).parent) : N(l, c).slot < N(l, i).slot})

Index(l, i) ==
    Cardinality({c \in Children(l, N(l, i).parent) : N(l, c).slot <= N(l, i).slot})

PathTo(l) ==
    LET path[i \in 0..Len(l.nodes)] ==
            IF i = 0 \/ N(l, i).parent = 0 THEN <<>>
            ELSE Append(path[N(l, i).parent], Index(l, i))
    IN  path

\* getChild when the device acts: a child that was collected may be lost, and one
\* that was not may be there late
Fetched(l, now, i, slot) ==
    IF i = Stranger \/ ChildAt(l, i, slot) = Nobody
    THEN (IF now.late THEN Stranger ELSE Nobody)
    ELSE IF ChildAt(l, i, slot) = now.lost THEN Nobody ELSE ChildAt(l, i, slot)

\* resolveFreshNode: from the root, slot by slot
Resolve(l, now, path) ==
    LET at[k \in 0..Len(path)] ==
            IF k = 0 THEN Fetched(l, now, 0, 1)
            ELSE IF at[k - 1] = Nobody THEN Nobody ELSE Fetched(l, now, at[k - 1], path[k])
    IN  at[Len(path)]

\* what the collector makes of a screen: a tree below its first node
Collected(l) ==
    /\ l.extra = {} /\ l.nodes # <<>> /\ N(l, 1).parent = 0
    /\ \A i \in DOMAIN l.nodes \ {1} : N(l, i).parent \in 1..(i - 1)

\* no slot before that of a node was empty
Whole(l) ==
    \A i \in DOMAIN l.nodes : \A s \in 1..N(l, i).slot :
        ChildAt(l, N(l, i).parent, s) # Nobody

-----------------------------------------------------------------------------
(* ObservationCompressor.                                                  *)

\* _build_tree: children are found by their parents, then in the lists of children
ByParent(l, i, c) == N(l, c).parent = i
Listed(l, i, c) == <<i, c>> \in l.extra

Attached(l) ==
    {c \in DOMAIN l.nodes : \E i \in DOMAIN l.nodes : ByParent(l, i, c) \/ Listed(l, i, c)}

\* a node that stands for itself
Useful(l, i) ==
    N(l, i).acts \/ (N(l, i).visible /\ (N(l, i).label # "" \/ N(l, i).resource # ""))

\* or groups what is held below it
Groups(l, i, isRoot, held) == N(l, i).visible /\ ~isRoot /\ Len(held) > 1

\* what the visit of a node returns
Retained(l, i, isRoot, held) ==
    IF Useful(l, i) \/ Groups(l, i, isRoot, held) THEN <<i>> ELSE held

\* _compress_tree visits nodes one below the other (stack).  A node asks all of them
\* twice whether they are its children; the whole tree (0) asks which are its roots,
\* then for what no root leads to.
Calls(l, i, k) ==
    LET n == Len(l.nodes)
    IN  IF k <= n THEN (IF i = 0 THEN k \notin Attached(l) ELSE ByParent(l, i, k))
        ELSE i = 0 \/ Listed(l, i, k - n)

Start(l) ==
    LET n == Len(l.nodes)
    IN  [seen |-> {}, stack |-> <<0>>, next |-> [i \in 0..n |-> 1], held |-> [i \in 0..n |-> <<>>]]

Advance(l, run) ==
    LET n == Len(l.nodes)
        i == Last(run.stack)
        k == run.next[i]
        c == IF k <= n THEN k ELSE k - n
        callers == Front(run.stack)
        isRoot == Last(callers) = 0 /\ run.next[0] <= n + 1
        asked == [run EXCEPT !.next[i] = k + 1]
    IN  IF k <= 2 * n THEN
            IF Calls(l, i, k) /\ c \notin run.seen
            THEN [asked EXCEPT !.seen = @ \cup {c}, !.stack = Append(@, c)]
            ELSE asked
        ELSE IF callers = <<>> THEN run
        ELSE [run EXCEPT !.stack = callers,
                         !.held[Last(callers)] = @ \o Retained(l, i, isRoot, run.held[i])]

\* every node asks, and returns to the one that called it
Moves(l) == LET n == Len(l.nodes) IN (n + 1) * (2 * n) + n

Walk(l) ==
    LET run[k \in 0..Moves(l)] == IF k = 0 THEN Start(l) ELSE Advance(l, run[k - 1])
    IN  run

\* the children that stay, of each node, and for 0 the roots
Pruned(l) == Walk(l)[Moves(l)].held

\* what two nodes that do nothing have in common when they look alike
Signature(l, i) == <<N(l, i).label, N(l, i).resource, N(l, i).class>>

\* _merge_duplicate_leaves: of equal leaves side by side that only show something
\* the first stays
Merge_Buttons(l, kids, siblings) ==
    LET again(k) == \E j \in 1..(k - 1) :
            /\ kids[siblings[j]] = <<>> /\ kids[siblings[k]] = <<>>
            /\ Signature(l, siblings[j]) = Signature(l, siblings[k])
        result[k \in 0..Len(siblings)] ==
            IF k = 0 THEN <<>>
            ELSE IF again(k) THEN result[k - 1] ELSE Append(result[k - 1], siblings[k])
    IN  result[Len(siblings)]

Merge(l, kids, siblings) ==
    LET leaf(i) == kids[i] = <<>> /\ ~N(l, i).acts
        again(k) == \E j \in 1..(k - 1) :
            /\ leaf(siblings[j]) /\ leaf(siblings[k])
            /\ Signature(l, siblings[j]) = Signature(l, siblings[k])
        result[k \in 0..Len(siblings)] ==
            IF k = 0 THEN <<>>
            ELSE IF again(k) THEN result[k - 1] ELSE Append(result[k - 1], siblings[k])
    IN  result[Len(siblings)]

\* compress: the roots that stay, and the children of the nodes that stay
Compress(l) ==
    LET held == Pruned(l)
    IN  [roots |-> Merge(l, held, held[0]),
         kids |-> [i \in DOMAIN l.nodes |-> Merge(l, held, held[i])]]

\* _materialize: the nodes that the roots lead to
ClosedBelow(t, S) ==
    ToSet(t.roots) \subseteq S /\ \A i \in S : ToSet(t.kids[i]) \subseteq S

Kept(t) ==
    {i \in DOMAIN t.kids : \A S \in SUBSET DOMAIN t.kids : ClosedBelow(t, S) => i \in S}

-----------------------------------------------------------------------------
(* TargetMatcher.                                                          *)

Values(l, i) == {N(l, i).label, N(l, i).resource, N(l, i).class} \ {""}

Queries(t) == {Normal[q] : q \in t.exact \cup t.hints}

\* _fuzzy: the best of the ratios, and what comes close to the best node
Score(l, t, i) ==
    Max({0} \cup {Ratio[<<p[1], Normal[p[2]]>>] : p \in Queries(t) \X Values(l, i)})

FuzzyThreshold == 72
FuzzyBand == 3

Closest(l, nodes, t) ==
    LET scored == {i \in nodes : Score(l, t, i) >= FuzzyThreshold}
    IN  {i \in scored : \A j \in scored : Score(l, t, j) - Score(l, t, i) < FuzzyBand}

\* the nodes that each stage finds: by resource, id, text, normalized text, fuzzy
\* text and bounds
Stages(l, nodes, t) ==
    <<{i \in nodes : t.resource # "" /\ N(l, i).resource = t.resource},
      {i \in nodes : i = t.node},
      {i \in nodes : t.exact \cap Values(l, i) # {}},
      {i \in nodes : Queries(t) \cap {Normal[v] : v \in Values(l, i)} # {}},
      Closest(l, nodes, t),
      {i \in nodes : t.bounds # 0 /\ N(l, i).bounds = t.bounds}>>

\* match: the first stage that finds any decides, if it finds one
Matched(l, nodes, t) ==
    LET stages == Stages(l, nodes, t)
        hits == {k \in DOMAIN stages : stages[k] # {}}
    IN  IF hits = {} \/ Cardinality(stages[Min(hits)]) # 1 THEN Nobody
        ELSE CHOOSE i \in stages[Min(hits)] : TRUE

-----------------------------------------------------------------------------

AsCollected == [lost |-> Nobody, late |-> FALSE]

TreeInit ==
    /\ layout \in Layouts /\ step = "shown"
    /\ packed = [roots |-> <<>>, kids |-> <<>>]
    /\ target = [node |-> Nobody] /\ meant = Nobody
    /\ later = AsCollected /\ tapped = Nobody /\ by = "none"

CompressScreen ==
    /\ step = "shown" /\ step' = "packed"
    /\ packed' = Compress(layout)
    /\ UNCHANGED <<layout, target, meant, later, tapped, by>>

MatchTarget ==
    /\ step = "packed" /\ step' = "matched"
    /\ target' \in Targets
    /\ meant' = Matched(layout, Kept(packed), target')
    /\ UNCHANGED <<layout, packed, later, tapped, by>>

\* click, setText and scroll: the device looks for the node again (of the children
\* that are lost the first on the way decides, and none after the node matters)
Operates(found) ==
    \/ found # Nobody /\ tapped' = found /\ by' = "node"
    \* click: no such node, or it rejects the click
    \/ tapped' = Stranger /\ by' = "bounds"
    \* scroll: no such node, but there is a screen
    \/ found = Nobody /\ later'.lost # 1 /\ tapped' = 1 /\ by' = "root"
    \* the node rejects it, or there is none
    \/ tapped' = Nobody /\ by' = "none"

Tap ==
    /\ step = "matched" /\ step' = "tapped" /\ Collected(layout) /\ meant # Nobody
    /\ later' \in [lost : Nobody..meant, late : BOOLEAN]
    /\ Operates(Resolve(layout, later', PathTo(layout)[meant]))
    /\ UNCHANGED <<layout, packed, target, meant>>

TreeNext == CompressScreen \/ MatchTarget \/ Tap

TreeSpec == TreeInit /\ [][TreeNext]_treeVars

-----------------------------------------------------------------------------

\* Compressing loses nothing that can be used or read: all that acts stays, and
\* of what is shown a node that looks the same stays; what stays is a forest, each
\* node in it once, whatever tree a client sends.  A wrapper that stays holds
\* something; it holds a single node only when another that looked the same was
\* merged into that one after the wrapper had been judged.
NothingIsLost ==
    step = "packed" =>
        LET siblings(i) == IF i = 0 THEN packed.roots ELSE packed.kids[i]
            places == {p \in ({0} \cup Kept(packed)) \X DOMAIN layout.nodes :
                          p[2] \in DOMAIN siblings(p[1])}
            At(p) == siblings(p[1])[p[2]]
        IN  /\ \A i \in DOMAIN layout.nodes :
                 /\ N(layout, i).acts => i \in Kept(packed)
                 /\ Useful(layout, i) =>
                        \E j \in Kept(packed) : Signature(layout, j) = Signature(layout, i)
                 /\ i \in Kept(packed) /\ ~Useful(layout, i) =>
                        /\ packed.kids[i] # <<>>
                        /\ Len(packed.kids[i]) = 1 =>
                             \E j \in DOMAIN layout.nodes \ Kept(packed) :
                                 /\ ~N(layout, j).acts
                                 /\ Signature(layout, j) = Signature(layout, packed.kids[i][1])
            /\ \A p, q \in places : At(p) = At(q) => p = q

\* A target means the same node before and after: when the whole screen gives one
\* node that is not dropped, so does the compressed one.  On a screen of which no
\* child was missing when it was collected, what the device finds is that very
\* element, also when children are missing by then; it scrolls the whole screen
\* instead only if one of them is.
TapsWhatWasMeant ==
    /\ step = "matched" =>
         LET first == Matched(layout, DOMAIN layout.nodes, target)
         IN  first \in Kept(packed) => meant = first
    /\ step = "tapped" /\ Whole(layout) =>
         /\ by = "node" => tapped = meant
         /\ by = "root" => later.lost # Nobody

\* An action on a node is bound to the element of the screen it was planned for,
\* on every screen that was collected and has not changed since.
BoundToElement ==
    step = "tapped" /\ by = "node" /\ later = AsCollected => tapped = meant
=============================================================================
