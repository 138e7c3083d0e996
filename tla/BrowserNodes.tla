----------------------------- MODULE BrowserNodes -----------------------------
(***************************************************************************)
(* How BrowserRuntime (runtime/browser.py) finds the node of an            *)
(* observation on the page again.  The snapshot script numbers the visible *)
(* elements in the order of the document and writes the number into an     *)
(* attribute; a click goes to the first element that carries it, or, when  *)
(* that cannot be clicked, to the middle of the bounds that were observed; *)
(* a scroll goes to the first element that carries it, shown or not.       *)
(***************************************************************************)
EXTENDS Integers, FiniteSetsExt

CONSTANT Elements   \* the elements of the page, numbered in document order

ASSUME ElementsAssumption == Elements \subseteq Nat /\ IsFiniteSet(Elements)

VARIABLES
    look,    \* how each element looks; a faded one has no opacity
    mark,    \* the attribute of each element
    nodes,   \* the observation: which element each node stands for
    same,    \* the page has not changed since
    hit      \* the last operation: the element meant, the one reached, and how

nodeVars == <<look, mark, nodes, same, hit>>

NoMark == -1
Nowhere == -1
NoHit == [wanted |-> Nowhere, got |-> Nowhere, same |-> FALSE, by |-> "none", as |-> "none"]

NodesInit ==
    /\ look \in [Elements -> {"seen", "faded", "hidden"}]
    /\ mark = [e \in Elements |-> NoMark]
    /\ nodes = [n \in {} |-> Nowhere] /\ same = FALSE /\ hit = NoHit

Seen == {e \in Elements : look[e] = "seen"}

\* the place of an element among those that are collected
Place(e) == Cardinality({d \in Seen : d < e})

\* the script writes its numbers and leaves the others alone
Marks_Kept == [e \in Elements |-> IF e \in Seen /\ mark[e] = NoMark THEN Place(e) ELSE mark[e]]

Marks == [e \in Elements |-> IF e \in Seen THEN Place(e) ELSE mark[e]]

Collect ==
    /\ mark' = Marks
    /\ nodes' = [n \in {Place(e) : e \in Seen} |-> CHOOSE e \in Seen : Place(e) = n]
    /\ same' = TRUE /\ hit' = NoHit
    /\ UNCHANGED look

\* An element shows, fades or hides: the page is another one.
PageChanges ==
    /\ \E e \in Elements, l \in {"seen", "faded", "hidden"} :
           look[e] # l /\ look' = [look EXCEPT ![e] = l]
    /\ same' = FALSE /\ hit' = NoHit
    /\ UNCHANGED <<mark, nodes>>

\* A new document has none of the attributes.
NewDocument ==
    /\ look' \in [Elements -> {"seen", "faded", "hidden"}]
    /\ mark' = [e \in Elements |-> NoMark] /\ same' = FALSE
    /\ hit' = NoHit /\ UNCHANGED nodes

Carriers(n) == {e \in Elements : mark[e] = n}

First(n) == IF Carriers(n) = {} THEN Nowhere ELSE Min(Carriers(n))

\* click and fill wait for the element to show; a faded one counts as shown
Located(n) == IF First(n) # Nowhere /\ look[First(n)] = "hidden" THEN Nowhere ELSE First(n)

\* What lies at the bounds of a node: the element, another one that lies over it or
\* has come there by scrolling, or none.
AtBounds == {e \in Elements : look[e] # "hidden"} \cup {Nowhere}

Reached(n, e, by) == [wanted |-> nodes[n], got |-> e, same |-> same, by |-> by,
                      as |-> IF e = Nowhere THEN "none" ELSE look[e]]

\* By the number, or by the bounds when no such element shows or it is covered.
ClickNode ==
    /\ \E n \in DOMAIN nodes :
         \/ Located(n) # Nowhere /\ hit' = Reached(n, Located(n), "number")
         \/ \E e \in AtBounds : hit' = Reached(n, e, "bounds")
    /\ UNCHANGED <<look, mark, nodes, same>>

\* set_text has no other way than the number
FillNode ==
    /\ \E n \in DOMAIN nodes : hit' = Reached(n, Located(n), "number")
    /\ UNCHANGED <<look, mark, nodes, same>>

\* evaluate() waits for an element to be attached, and not for it to show
ScrollNode ==
    /\ \E n \in DOMAIN nodes : hit' = Reached(n, First(n), "scroll")
    /\ UNCHANGED <<look, mark, nodes, same>>

NodesNext == Collect \/ PageChanges \/ NewDocument \/ ClickNode \/ FillNode \/ ScrollNode
NodesSpec == NodesInit /\ [][NodesNext]_nodeVars

-----------------------------------------------------------------------------

\* On a page that has not changed, what is reached by the number of a node is the
\* element that was observed or none, though the numbers of older observations
\* are still about.  Two exceptions come with those: an element that has faded
\* out takes its place in every operation, and one that is hidden takes it in a
\* scroll, which reports that it has been done.  Neither is another node of the
\* observation.  (A click by the bounds goes to whatever lies there.)
OperatesOnObserved ==
    hit.same /\ hit.by # "bounds" /\ hit.got \notin {hit.wanted, Nowhere} =>
        /\ hit.as = "faded" \/ (hit.as = "hidden" /\ hit.by = "scroll")
        /\ \A n \in DOMAIN nodes : nodes[n] # hit.got
=============================================================================
