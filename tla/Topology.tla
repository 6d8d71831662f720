------------------------------ MODULE Topology ------------------------------
(***************************************************************************)
(* The network map (src/web/src/pages/Topology.tsx): where the grid and    *)
(* the layered layout put the nodes, and the dragging of a node with one   *)
(* or more pointers, saved per layout in localStorage.  The ring and the   *)
(* radial layout take sines and are left out; edges follow the nodes.      *)
(***************************************************************************)
EXTENDS Integers, FiniteSets

CONSTANTS
  Pointers,   \* fingers or mice on the map
  Aims,       \* bound: the points they go to
  NoNode

ASSUME AimsAssumption == Aims \subseteq [x : Int, y : Int]
ASSUME NoNodeAssumption == NoNode \notin [on : Nat, moved : BOOLEAN]

\* The canvas, and a node's box with the gap around it.
W == 960
H == 600
CX == 480
CY == 300
NW == 150
NH == 56
HW == 75
HH == 28
GAP == 4

VARIABLES
  tiers,     \* how many nodes are in each tier: sites by kind, and the remote one
  layout,    \* the layout, as cl-topo in localStorage has it too
  pos,       \* where nodes were put by hand in this layout
  saved,     \* cl-topo-pos-<layout>: the same, in localStorage
  drag,      \* the drag ref
  held,      \* the node that captured each pointer
  selected,  \* the node in the inspector
  onMap,     \* the page is mounted
  dropped    \* history: a press replaced a drag that had moved, and nothing
             \* was saved, loaded or reset since

mapvars == <<tiers, layout, pos, saved, drag, held, selected, onMap, dropped>>

Layouts == {"grid", "layered"}
Nothing == [n \in {} |-> NoNode]

\* The nodes in the order of their tiers, which no layout looks at beyond a
\* node's place in its own; the last one is __remote__, the virtual one.
Count == tiers[1] + tiers[2] + tiers[3]
MapNodes == 1 .. Count
Virtual == Count

TierOf(n) == IF n <= tiers[1] THEN 1 ELSE IF n <= tiers[1] + tiers[2] THEN 2 ELSE 3
InTier(n) == n - (IF TierOf(n) = 1 THEN 0 ELSE tiers[1])
               - (IF TierOf(n) = 3 THEN tiers[2] ELSE 0)

-----------------------------------------------------------------------------
\* Coordinates are rounded down to whole units, where the code's are fractions.
Least(a, b) == IF a < b THEN a ELSE b
Most(a, b) == IF a < b THEN b ELSE a

Cols == CHOOSE c \in MapNodes : c * c >= Count /\ (c - 1) * (c - 1) < Count
Lines == (Count + Cols - 1) \div Cols

GridSpot(n) ==
  LET col == (n - 1) % Cols
      row == (n - 1) \div Cols IN
  [x |-> IF Cols = 1 THEN CX ELSE 150 + col * ((W - 300) \div (Cols - 1)),
   y |-> IF Lines = 1 THEN CY ELSE 130 + row * ((H - 260) \div (Lines - 1))]

\* A bug to find: as many gaps as nodes.
LayeredSpotBug(n) ==
  LET m == tiers[TierOf(n)] IN
  [x |-> IF m = 1 THEN CX ELSE 170 + ((InTier(n) - 1) * (W - 340)) \div m,
   y |-> <<140, 315, 480>>[TierOf(n)]]

LayeredSpot(n) ==
  LET m == tiers[TierOf(n)] IN
  [x |-> IF m = 1 THEN CX ELSE 170 + ((InTier(n) - 1) * (W - 340)) \div (m - 1),
   y |-> <<140, 315, 480>>[TierOf(n)]]

Placed(n) == IF layout = "grid" THEN GridSpot(n) ELSE LayeredSpot(n)
Spot(n) == IF n \in DOMAIN pos THEN pos[n] ELSE Placed(n)

\* A bug to find: the node's middle is kept on the canvas, not its box.
ClampBug(p) == [x |-> Most(GAP, Least(W - GAP, p.x)), y |-> Most(GAP, Least(H - GAP, p.y))]

Clamp(p) ==
  [x |-> Most(HW + GAP, Least(W - HW - GAP, p.x)),
   y |-> Most(HH + GAP, Least(H - HH - GAP, p.y))]

-----------------------------------------------------------------------------
MapInit ==
  /\ layout \in Layouts
  /\ pos = Nothing
  /\ saved = [l \in Layouts |-> Nothing]
  /\ drag = NoNode
  /\ held = [p \in Pointers |-> NoNode]
  /\ selected = NoNode
  /\ onMap = TRUE
  /\ dropped = FALSE

\* onNodeDown: the node captures the pointer; there is one drag, the latest.
PressNode(p, n) ==
  /\ onMap
  /\ held[p] = NoNode
  /\ held' = [held EXCEPT ![p] = n]
  /\ drag' = [on |-> n, moved |-> FALSE]
  /\ dropped' = (dropped \/ (drag # NoNode /\ drag.moved))
  /\ UNCHANGED <<tiers, layout, pos, saved, selected, onMap>>

\* onNodeMove: any pointer over any node moves the node of the drag.
MovePointer(aim) ==
  /\ onMap
  /\ drag # NoNode
  /\ drag' = [drag EXCEPT !.moved = TRUE]
  /\ pos' = [n \in DOMAIN pos \cup {drag.on} |-> IF n = drag.on THEN Clamp(aim) ELSE pos[n]]
  /\ UNCHANGED <<tiers, layout, saved, held, selected, onMap, dropped>>

\* What goes with the page: its state and its ref.
Unmap ==
  /\ onMap' = FALSE
  /\ pos' = Nothing
  /\ drag' = NoNode
  /\ held' = [p \in Pointers |-> NoNode]
  /\ selected' = NoNode
  /\ dropped' = FALSE

\* onNodeUp, of the node that captured the pointer, or of the one under a
\* pointer that was pressed elsewhere: the end of a drag saves, a click selects,
\* and a click on the remote node goes to the sessions.
Release(p, n) ==
  /\ onMap
  /\ held[p] \in {n, NoNode}
  /\ IF drag # NoNode /\ drag.moved
       THEN /\ saved' = [saved EXCEPT ![layout] = pos]
            /\ held' = [held EXCEPT ![p] = NoNode]
            /\ drag' = NoNode
            /\ dropped' = FALSE
            /\ UNCHANGED <<pos, selected, onMap>>
       ELSE /\ IF n = Virtual
                 THEN Unmap
                 ELSE /\ held' = [held EXCEPT ![p] = NoNode]
                      /\ drag' = NoNode
                      /\ selected' = n
                      /\ UNCHANGED <<pos, onMap, dropped>>
            /\ UNCHANGED saved
  /\ UNCHANGED <<tiers, layout>>

\* The browser takes a pointer away (a scroll, a call, another window): the page
\* handles no pointercancel, and the drag stays.
CancelPointer(p) ==
  /\ onMap
  /\ held[p] # NoNode
  /\ held' = [held EXCEPT ![p] = NoNode]
  /\ UNCHANGED <<tiers, layout, pos, saved, drag, selected, onMap, dropped>>

\* A bug to find: the new layout is shown with the old one's positions.
PickLayoutBug(l) ==
  /\ onMap
  /\ layout' = l
  /\ dropped' = FALSE
  /\ UNCHANGED <<tiers, pos, saved, drag, held, selected, onMap>>

PickLayout(l) ==
  /\ onMap
  /\ layout' = l
  /\ pos' = saved[l]
  /\ dropped' = FALSE
  /\ UNCHANGED <<tiers, saved, drag, held, selected, onMap>>

ResetLayout ==
  /\ onMap
  /\ pos' = Nothing
  /\ saved' = [saved EXCEPT ![layout] = Nothing]
  /\ dropped' = FALSE
  /\ UNCHANGED <<tiers, layout, drag, held, selected, onMap>>

\* Enter and space on a node that has the focus.
KeyNode(n) ==
  /\ onMap
  /\ IF n = Virtual THEN Unmap
                    ELSE selected' = n /\ UNCHANGED <<pos, drag, held, onMap, dropped>>
  /\ UNCHANGED <<tiers, layout, saved>>

LeaveMap ==
  /\ onMap
  /\ Unmap
  /\ UNCHANGED <<tiers, layout, saved>>

OpenMap ==
  /\ ~onMap
  /\ onMap' = TRUE
  /\ pos' = saved[layout]
  /\ UNCHANGED <<tiers, layout, saved, drag, held, selected, dropped>>

MapNext ==
  \/ \E p \in Pointers : \E n \in MapNodes : PressNode(p, n) \/ Release(p, n)
  \/ \E p \in Pointers : CancelPointer(p)
  \/ \E aim \in Aims : MovePointer(aim)
  \/ \E n \in MapNodes : KeyNode(n)
  \/ \E l \in Layouts : PickLayout(l)
  \/ ResetLayout \/ LeaveMap \/ OpenMap

\* Any number of sites, and the remote node that is there beside them.
MapSpec == tiers \in Nat \X Nat \X (Nat \ {0}) /\ MapInit /\ [][MapNext]_mapvars

-----------------------------------------------------------------------------
\* With no drag under way what is on the map is what comes back with the page,
\* and no layout shows another's positions, whatever several pointers, lost
\* pointers and a change of layout in the middle of a drag do; but for a drag
\* that another press took the place of (Topology.tsx:96-97, 133, 145-165).
AtRestSaved ==
  onMap /\ ~dropped /\ (drag = NoNode \/ ~drag.moved) => pos = saved[layout]

\* Every box stays on the canvas: as it is placed, dragged, saved or loaded
\* (Topology.tsx:41-85, 149-158).
InCanvas ==
  onMap => \A n \in MapNodes :
    /\ HW + GAP <= Spot(n).x /\ Spot(n).x <= W - HW - GAP
    /\ HH + GAP <= Spot(n).y /\ Spot(n).y <= H - HH - GAP

\* The boxes that a layout places do not overlap, up to 25 nodes in the grid and
\* up to five in a tier (Topology.tsx:50-75); a sixth in a tier does.
Apart(p, q) == p.x - q.x >= NW \/ q.x - p.x >= NW \/ p.y - q.y >= NH \/ q.y - p.y >= NH

Spread ==
  \/ layout = "grid" /\ Count > 25
  \/ layout = "layered" /\ \E t \in 1..3 : tiers[t] > 5
  \/ \A m, n \in MapNodes : m < n => Apart(Placed(m), Placed(n))
=============================================================================
