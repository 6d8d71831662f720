------------------------------ MODULE TabProofs ------------------------------
(***************************************************************************)
(* What a tab has around its pages, for any number of requests, secrets,   *)
(* sockets, addresses, sites and pointers: the owner is not locked out by  *)
(* the second factor, the live feed has one socket, the webhook card shows *)
(* what is stored, and the network map keeps, holds on the canvas and      *)
(* keeps apart what it draws.                                              *)
(***************************************************************************)
EXTENDS Session, Shell, Topology, TLAPS, FiniteSetTheorems, NaturalsInduction,
        WellFoundedInduction

-----------------------------------------------------------------------------
\* The second factor.

\* Without a race an activation that has verified a code still finds the
\* secret it verified when it turns the factor on, and whoever is about to
\* replace or clear the secret finds the factor off.
Verified ==
  ~raced =>
    /\ ~Race
    /\ enabled => secret \in proved
    /\ \A r \in Requests :
         /\ pc[r] = "activate" => secret \in proved
         /\ pc[r] \in {"setup", "clear"} => ~enabled

Inv == TypeOK /\ Verified

LEMMA InvInit == Init => Inv
BY DEF Init, Inv, TypeOK, Verified, Race

LEMMA InvStep == Inv /\ [Next]_vars => Inv'
<1> SUFFICES ASSUME Inv, [Next]_vars PROVE Inv'
  OBVIOUS
<1> USE NoneAssumption DEF Inv, TypeOK, Verified, Race, Goto
<1>1. CASE UNCHANGED vars
  BY <1>1 DEF vars
<1>2. ASSUME NEW r \in Requests, Step(r), raced' = (raced \/ Race') PROVE Inv'
  <2>1. CASE SetupRead(r)
    BY <1>2, <2>1 DEF SetupRead
  <2>2. CASE SetupWrite(r)
    BY <1>2, <2>2 DEF SetupWrite
  <2>3. ASSUME NEW code \in Secrets, ActivateRead(r, code) PROVE Inv'
    BY <1>2, <2>3 DEF ActivateRead
  <2>4. CASE ActivateWrite(r)
    BY <1>2, <2>4 DEF ActivateWrite
  <2>5. ASSUME NEW code \in Secrets \cup {None}, DisableRead(r, code) PROVE Inv'
    BY <1>2, <2>5 DEF DisableRead
  <2>6. CASE DisableOff(r)
    BY <1>2, <2>6 DEF DisableOff
  <2>7. CASE DisableClear(r)
    BY <1>2, <2>7 DEF DisableClear
  <2> QED
    BY <1>2, <2>1, <2>2, <2>3, <2>4, <2>5, <2>6, <2>7 DEF Step
<1>3. ASSUME Restart, raced' = (raced \/ Race') PROVE Inv'
  BY <1>3 DEF Restart
<1> QED
  BY <1>1, <1>2, <1>3 DEF Next

\* Every variable keeps its type.
THEOREM MfaTyped == Spec => []TypeOK
<1>1. Inv => TypeOK
  BY DEF Inv
<1> QED
  BY <1>1, InvInit, InvStep, PTL DEF Spec

\* Unless an activation overlaps a setup or a disabling, the factor is only
\* ever on with a secret whose code has been verified.
THEOREM NeverLockedOut == Spec => []OwnerCanSignIn
<1>1. Inv => OwnerCanSignIn
  BY DEF Inv, Verified, OwnerCanSignIn
<1> QED
  BY <1>1, InvInit, InvStep, PTL DEF Spec

-----------------------------------------------------------------------------
\* The live feed.  An effect that is there waits for a timer or for a socket of its
\* own, whose closing sets one (live.tsx:26-39).
Reconnects == mounted => retry \/ (mine \in Slots /\ sockets[mine] # "none")

\* A socket that is not closing is the one the effect holds, and
\* only an effect that is there holds one or has a timer set, never both.
FeedInv ==
  /\ mounted \in BOOLEAN
  /\ sockets \in [Slots -> {"none", "connecting", "open", "closing"}]
  /\ mine \in Slots \cup {None}
  /\ Live \subseteq {mine}
  /\ mine # None => mounted
  /\ retry => mounted /\ mine = None
  /\ Reconnects

LEMMA FeedInit_ == FeedInit => FeedInv
BY SlotsAssumption DEF FeedInit, FeedInv, Live, Reconnects

LEMMA ConnectLive ==
  ASSUME FeedInv, mine = None, Connect
  PROVE  /\ sockets' \in [Slots -> {"none", "connecting", "open", "closing"}]
         /\ mine' \in Slots /\ mine' # None
         /\ sockets'[mine'] # "none"
         /\ Live' \subseteq {mine'}
BY SlotsAssumption DEF FeedInv, Connect, Live

LEMMA FeedStepInv == FeedInv /\ FeedStep => FeedInv'
<1> SUFFICES ASSUME FeedInv, FeedStep PROVE FeedInv'
  OBVIOUS
<1>1. CASE FeedMount
  <2>1. mine = None
    BY <1>1 DEF FeedMount, FeedInv
  <2> QED BY <1>1, <2>1, ConnectLive DEF FeedMount, FeedInv, Reconnects
<1>2. CASE FeedUnmount
  BY <1>2, SlotsAssumption DEF FeedUnmount, FeedInv, Live, Reconnects
<1>3. CASE RetryFires
  <2>1. mine = None
    BY <1>3 DEF RetryFires, FeedInv
  <2> QED BY <1>3, <2>1, ConnectLive DEF RetryFires, FeedInv, Reconnects
<1>4. ASSUME NEW s \in Slots, SocketOpens(s) PROVE FeedInv'
  BY <1>4 DEF SocketOpens, FeedInv, Live, Reconnects
<1>5. ASSUME NEW s \in Slots, SocketErrors(s) PROVE FeedInv'
  BY <1>5 DEF SocketErrors, FeedInv, Live, Reconnects
<1>6. ASSUME NEW s \in Slots, SocketCloses(s) PROVE FeedInv'
  BY <1>6, SlotsAssumption DEF SocketCloses, FeedInv, Live, Reconnects
<1> QED BY <1>1, <1>2, <1>3, <1>4, <1>5, <1>6 DEF FeedStep

LEMMA FeedStays == FeedInv /\ UNCHANGED feed => FeedInv'
BY DEF FeedInv, feed, Live, Reconnects

LEMMA FeedGoneInv == FeedGone => FeedInv'
BY SlotsAssumption DEF FeedGone, FeedInv, Live, Reconnects

LEMMA SessionStep == FeedInv /\ [SessionNext]_<<vars, tab, feed>> => FeedInv'
BY FeedStepInv, FeedStays, FeedGoneInv DEF SessionNext, FeedNext

\* Never two sockets that are not closing, and none without an effect, however
\* often the tab signs in and out, and whatever sockets and timers do.
THEOREM FeedHasOneSocket == SessionSpec => []OneSocket
<1>1. FeedInv => OneSocket
  <2> SUFFICES ASSUME FeedInv PROVE Cardinality(Live) <= IF mounted THEN 1 ELSE 0
    BY DEF OneSocket
  <2>1. Live = {} \/ (Live = {mine} /\ mine # None)
    BY SlotsAssumption DEF FeedInv, Live
  <2>2. CASE Live = {}
    BY <2>2, FS_EmptySet DEF FeedInv
  <2>3. CASE Live = {mine} /\ mine # None
    BY <2>3, FS_Singleton DEF FeedInv
  <2> QED BY <2>1, <2>2, <2>3
<1> QED
  BY <1>1, FeedInit_, SessionStep, PTL DEF SessionSpec

\* No drop, sign-out or timer leaves a feed that is mounted with neither a socket
\* nor a timer, which is what FeedReturns rests on.
THEOREM FeedReconnects == SessionSpec => []Reconnects
<1>1. FeedInv => Reconnects
  BY DEF FeedInv
<1> QED
  BY <1>1, FeedInit_, SessionStep, PTL DEF SessionSpec

-----------------------------------------------------------------------------
\* The webhook card.  Whoever saves has typed; and as long as nobody types, the
\* field, the data and an answer that is due to be shown all say what is stored.
CardInv ==
  /\ saving # "no" => dirty
  /\ ~dirty /\ card # NoUrl => url = card
  /\ ~dirty /\ ~foreign /\ reading = "no" /\ card # NoUrl => card = stored
  /\ ~dirty /\ ~foreign /\ reading = "answer" => found = stored

LEMMA CardInit_ == CardInit => CardInv
BY DEF CardInit, CardInv

LEMMA CardStep == CardInv /\ [CardNext]_cardvars => CardInv'
<1> SUFFICES ASSUME CardInv, [CardNext]_cardvars PROVE CardInv'
  OBVIOUS
<1> USE DEF CardInv
<1>1. CASE UNCHANGED cardvars
  BY <1>1 DEF cardvars
<1>2. ASSUME NEW u \in Urls, Type(u) PROVE CardInv'
  BY <1>2 DEF Type
<1>3. ASSUME NEW u \in Urls, StoredElsewhere(u) PROVE CardInv'
  BY <1>3 DEF StoredElsewhere
<1>4. CASE PressSave
  BY <1>4 DEF PressSave
<1>5. CASE SaveWritten
  BY <1>5 DEF SaveWritten
<1>6. CASE SaveSucceeds
  BY <1>6 DEF SaveSucceeds, Follow
<1>7. CASE SaveFails
  BY <1>7 DEF SaveFails
<1>8. CASE SendRead
  BY <1>8 DEF SendRead
<1>9. CASE ServeRead
  BY <1>9 DEF ServeRead
<1>10. CASE ReadSucceeds
  BY <1>10 DEF ReadSucceeds, Follow
<1>11. CASE ReadFails
  BY <1>11 DEF ReadFails
<1> QED
  BY <1>1, <1>2, <1>3, <1>4, <1>5, <1>6, <1>7, <1>8, <1>9, <1>10, <1>11 DEF CardNext

\* A quiet card with data shows what is stored, unless another operator has
\* changed it since it was read.
THEOREM CardShowsStored == CardSpec => []WebhookShows
<1>1. CardInv => WebhookShows
  BY DEF CardInv, WebhookShows
<1> QED
  BY <1>1, CardInit_, CardStep, PTL DEF CardSpec

-----------------------------------------------------------------------------
\* The map.  A division that rounds down stays below what it divides, times its
\* number of steps.
LEMMA Steps ==
  ASSUME NEW k \in Nat, NEW b \in Nat \ {0}, k <= b, NEW d \in Nat
  PROVE  k * (d \div b) \in 0 .. d
<1>1. d \div b \in Nat /\ b * (d \div b) <= d
  OBVIOUS
<1>2. k * (d \div b) <= b * (d \div b)
  BY <1>1
<1> QED BY <1>1, <1>2

LEMMA Share ==
  ASSUME NEW k \in Nat, NEW b \in Nat \ {0}, k <= b, NEW d \in Nat
  PROVE  (k * d) \div b \in 0 .. d
<1>1. k * d \in Nat /\ k * d <= b * d
  OBVIOUS
<1>2. (k * d) \div b \in Nat /\ b * ((k * d) \div b) <= b * d
  BY <1>1
<1> QED BY <1>2

\* The square root that Math.ceil rounds up exists.
LEMMA RootExists ==
  ASSUME NEW n \in Nat \ {0}
  PROVE  \E c \in 1 .. n : c * c >= n /\ (c - 1) * (c - 1) < n
<1> DEFINE T == {c \in Nat : c * c >= n}
<1>1. n \in T
  OBVIOUS
<1>2. PICK c \in T : \A d \in T : ~(<<d, c>> \in OpToRel(<, Nat))
  BY <1>1, NatLessThanWellFounded, WFMin
<1>3. \A d \in T : ~(d < c)
  BY <1>2 DEF OpToRel
<1>4. c \in Nat /\ c * c >= n /\ c # 0
  OBVIOUS
<1>5. c <= n
  BY <1>1, <1>3, <1>4
<1>6. c - 1 \in Nat /\ ~((c - 1) * (c - 1) >= n)
  BY <1>3, <1>4
<1>7. (c - 1) * (c - 1) < n
  BY <1>6
<1> QED BY <1>4, <1>5, <1>7

Tiers == tiers \in Nat \X Nat \X (Nat \ {0})

LEMMA NodeFacts ==
  ASSUME Tiers
  PROVE  /\ Count \in Nat \ {0}
         /\ MapNodes \subseteq Nat
         /\ \A n \in MapNodes :
              /\ TierOf(n) \in 1..3
              /\ tiers[TierOf(n)] \in Nat
              /\ InTier(n) \in 1 .. tiers[TierOf(n)]
BY DEF Tiers, Count, MapNodes, TierOf, InTier

LEMMA GridFacts ==
  ASSUME Tiers
  PROVE  /\ Cols \in 1 .. Count /\ Cols * Cols >= Count
         /\ Lines \in Nat \ {0}
         /\ \A n \in MapNodes : /\ (n - 1) % Cols \in 0 .. Cols - 1
                                /\ (n - 1) \div Cols \in 0 .. Lines - 1
<1>1. Count \in Nat \ {0} /\ MapNodes = 1 .. Count
  BY NodeFacts DEF MapNodes
<1>2. \E c \in 1 .. Count : c * c >= Count /\ (c - 1) * (c - 1) < Count
  BY <1>1, RootExists
<1>3. Cols \in 1 .. Count /\ Cols * Cols >= Count
  BY <1>1, <1>2 DEF Cols
<1> HIDE DEF Cols, Count
<1>4. PICK c \in Nat \ {0} : c = Cols
  BY <1>1, <1>3
<1>5. Lines \in Nat /\ Count + c - 1 < c * Lines + c
  BY <1>1, <1>4 DEF Lines
<1>6. Lines # 0
  BY <1>1, <1>4, <1>5
<1>7. ASSUME NEW n \in MapNodes
      PROVE  (n - 1) % c \in 0 .. c - 1 /\ (n - 1) \div c \in 0 .. Lines - 1
  <2>1. n - 1 \in Nat /\ n <= Count
    BY <1>1
  <2>2. (n - 1) % c \in 0 .. c - 1
    BY <1>4, <2>1
  <2>3. (n - 1) \div c \in Nat /\ c * ((n - 1) \div c) <= n - 1
    BY <1>4, <2>1
  <2>4. c * ((n - 1) \div c) < c * Lines
    BY <1>1, <1>4, <1>5, <2>1, <2>3
  <2>5. (n - 1) \div c < Lines
    BY <1>4, <1>5, <2>3, <2>4
  <2> QED BY <1>5, <2>2, <2>3, <2>5
<1> QED BY <1>3, <1>4, <1>5, <1>6, <1>7

InBox(p) ==
  /\ p.x \in Int /\ p.y \in Int
  /\ HW + GAP <= p.x /\ p.x <= W - HW - GAP
  /\ HH + GAP <= p.y /\ p.y <= H - HH - GAP

LEMMA GridInBox ==
  ASSUME Tiers, NEW n \in MapNodes
  PROVE  InBox(GridSpot(n))
<1> DEFINE col == (n - 1) % Cols
           row == (n - 1) \div Cols
<1>1. /\ Cols \in Nat \ {0} /\ Lines \in Nat \ {0}
      /\ col \in 0 .. Cols - 1 /\ row \in 0 .. Lines - 1
  BY GridFacts, NodeFacts
<1> HIDE DEF col, row
<1>2. Cols # 1 => col * (660 \div (Cols - 1)) \in 0 .. 660
  BY <1>1, Steps
<1>3. Lines # 1 => row * (340 \div (Lines - 1)) \in 0 .. 340
  BY <1>1, Steps
<1>4. GridSpot(n) = [x |-> IF Cols = 1 THEN 480 ELSE 150 + col * (660 \div (Cols - 1)),
                     y |-> IF Lines = 1 THEN 300 ELSE 130 + row * (340 \div (Lines - 1))]
  BY DEF GridSpot, col, row, CX, CY, W, H
<1> HIDE DEF Cols, Lines
<1> QED BY <1>2, <1>3, <1>4 DEF InBox, W, H, HW, HH, GAP

LEMMA LayeredInBox ==
  ASSUME Tiers, NEW n \in MapNodes
  PROVE  InBox(LayeredSpot(n))
<1>1. PICK t \in 1..3, m \in Nat, i \in Nat :
        t = TierOf(n) /\ m = tiers[t] /\ i = InTier(n) /\ i \in 1 .. m
  BY NodeFacts
<1> DEFINE k == i - 1
           b == m - 1
           q == (k * 620) \div b
<1>2. ASSUME m # 1 PROVE q \in 0 .. 620
  <2>1. k \in Nat /\ b \in Nat \ {0} /\ k <= b
    BY <1>1, <1>2
  <2> HIDE DEF k, b
  <2>2. (k * 620) \div b \in 0 .. 620
    BY <2>1, Share
  <2> QED BY <2>2
<1>3. LayeredSpot(n) = [x |-> IF m = 1 THEN 480 ELSE 170 + q, y |-> <<140, 315, 480>>[t]]
  BY <1>1 DEF LayeredSpot, CX, W
<1> HIDE DEF q
<1>4. LayeredSpot(n).x \in 170 .. 790
  BY <1>2, <1>3
<1>5. LayeredSpot(n).y \in {140, 315, 480}
  <2>1. LayeredSpot(n).y = <<140, 315, 480>>[t]
    BY <1>3
  <2>2. t = 1 \/ t = 2 \/ t = 3
    OBVIOUS
  <2> QED BY <2>1, <2>2
<1> QED BY <1>4, <1>5 DEF InBox, W, H, HW, HH, GAP

LEMMA ClampInBox ==
  ASSUME NEW p \in [x : Int, y : Int]
  PROVE  InBox(Clamp(p))
BY DEF Clamp, InBox, Least, Most, W, H, HW, HH, GAP

\* What is on the map and what is saved of it lies on the canvas, and AtRestSaved.
Kept(f) == \A n \in DOMAIN f : InBox(f[n])

MapInv ==
  /\ Tiers
  /\ layout \in Layouts
  /\ drag \in {NoNode} \cup [on : Nat, moved : BOOLEAN]
  /\ DOMAIN saved = Layouts
  /\ Kept(pos)
  /\ \A l \in Layouts : Kept(saved[l])
  /\ AtRestSaved

LEMMA MapInit_ == Tiers /\ MapInit => MapInv
BY DEF MapInit, MapInv, Kept, AtRestSaved, Nothing

LEMMA NothingKept == Kept(Nothing)
BY DEF Kept, Nothing

LEMMA StepMap == MapInv /\ [MapNext]_mapvars => MapInv'
<1> SUFFICES ASSUME MapInv, [MapNext]_mapvars PROVE MapInv'
  OBVIOUS
<1> USE NoNodeAssumption DEF MapInv, AtRestSaved, Tiers
<1>0. MapNodes \subseteq Nat
  BY NodeFacts
<1>1. CASE UNCHANGED mapvars
  BY <1>1 DEF mapvars
<1>2. ASSUME NEW p \in Pointers, NEW n \in MapNodes, PressNode(p, n) PROVE MapInv'
  BY <1>0, <1>2 DEF PressNode
<1>3. ASSUME Unmap, UNCHANGED <<tiers, layout, saved>> PROVE MapInv'
  BY <1>3, NothingKept DEF Unmap
<1>4. ASSUME NEW p \in Pointers, NEW n \in MapNodes, Release(p, n) PROVE MapInv'
  <2>1. CASE drag # NoNode /\ drag.moved
    BY <1>4, <2>1 DEF Release
  <2>2. CASE ~(drag # NoNode /\ drag.moved) /\ n = Virtual
    BY <1>3, <1>4, <2>2 DEF Release
  <2>3. CASE ~(drag # NoNode /\ drag.moved) /\ n # Virtual
    BY <1>4, <2>3 DEF Release
  <2> QED BY <2>1, <2>2, <2>3
<1>5. ASSUME NEW p \in Pointers, CancelPointer(p) PROVE MapInv'
  BY <1>5 DEF CancelPointer
<1>6. ASSUME NEW aim \in Aims, MovePointer(aim) PROVE MapInv'
  <2>1. Kept(pos')
    BY <1>6, AimsAssumption, ClampInBox DEF MovePointer, Kept
  <2>2. drag' \in [on : Nat, moved : BOOLEAN] /\ drag'.moved
    BY <1>6 DEF MovePointer
  <2> QED BY <1>6, <2>1, <2>2 DEF MovePointer
<1>7. ASSUME NEW n \in MapNodes, KeyNode(n) PROVE MapInv'
  <2>1. CASE n = Virtual
    BY <1>3, <1>7, <2>1 DEF KeyNode
  <2>2. CASE n # Virtual
    BY <1>7, <2>2 DEF KeyNode
  <2> QED BY <2>1, <2>2
<1>8. ASSUME NEW l \in Layouts, PickLayout(l) PROVE MapInv'
  BY <1>8 DEF PickLayout
<1>9. CASE ResetLayout
  BY <1>9, NothingKept DEF ResetLayout
<1>10. CASE LeaveMap
  BY <1>3, <1>10 DEF LeaveMap
<1>11. CASE OpenMap
  BY <1>11 DEF OpenMap
<1> QED
  BY <1>1, <1>2, <1>4, <1>5, <1>6, <1>7, <1>8, <1>9, <1>10, <1>11 DEF MapNext

\* With no drag under way, what the map shows is what it loads the next time.
THEOREM MapKeepsPositions == MapSpec => []AtRestSaved
<1>1. MapInv => AtRestSaved
  BY DEF MapInv
<1>2. MapSpec => [](MapInv)
  BY MapInit_, StepMap, PTL DEF MapSpec, Tiers
<1> QED
  BY <1>1, <1>2, PTL

\* For any number of sites, every box is on the canvas.
THEOREM MapInCanvas == MapSpec => []InCanvas
<1>1. MapInv => InCanvas
  <2> SUFFICES ASSUME MapInv, NEW n \in MapNodes PROVE InBox(Spot(n))
    BY DEF InCanvas, InBox
  <2>1. InBox(Placed(n))
    BY GridInBox, LayeredInBox DEF MapInv, Placed
  <2> QED BY <2>1 DEF Spot, MapInv, Kept
<1>2. MapSpec => []MapInv
  BY MapInit_, StepMap, PTL DEF MapSpec, Tiers
<1> QED
  BY <1>1, <1>2, PTL

\* Up to 25 nodes make at most five columns and five lines, and the place of a
\* node in them is its own.
LEMMA SmallGrid ==
  ASSUME Tiers, Count <= 25
  PROVE  /\ Cols \in 1 .. 5 /\ Lines \in 1 .. 5
         /\ Cols = 1 => Count = 1
         /\ \A m, n \in MapNodes :
              /\ (m - 1) % Cols = (n - 1) % Cols
              /\ (m - 1) \div Cols = (n - 1) \div Cols
              => m = n
<1>1. Count \in 1 .. 25 /\ Count \in Nat \ {0} /\ MapNodes = 1 .. Count
  BY NodeFacts DEF MapNodes
<1>2. \E c \in 1 .. Count : c * c >= Count /\ (c - 1) * (c - 1) < Count
  BY <1>1, RootExists
<1>3. Cols \in 1 .. Count /\ Cols * Cols >= Count /\ (Cols - 1) * (Cols - 1) < Count
  BY <1>1, <1>2 DEF Cols
<1>4. Lines \in Nat \ {0}
  BY GridFacts
<1>5. Lines = (Count + Cols - 1) \div Cols
  BY DEF Lines
<1> HIDE DEF Cols, Lines, Count, MapNodes
<1>6. Cols \in {1, 2, 3, 4, 5}
  BY <1>1, <1>3
<1>7. CASE Cols = 1
  BY <1>1, <1>3, <1>4, <1>5, <1>7
<1>8. CASE Cols = 2
  BY <1>1, <1>3, <1>4, <1>5, <1>8
<1>9. CASE Cols = 3
  BY <1>1, <1>3, <1>4, <1>5, <1>9
<1>10. CASE Cols = 4
  BY <1>1, <1>3, <1>4, <1>5, <1>10
<1>11. CASE Cols = 5
  BY <1>1, <1>3, <1>4, <1>5, <1>11
<1> QED BY <1>6, <1>7, <1>8, <1>9, <1>10, <1>11

\* Two multiples of a step differ by the step at least.
LEMMA StepApart ==
  ASSUME NEW k \in Nat, NEW j \in Nat, k # j, NEW d \in Nat
  PROVE  j * d - k * d >= d \/ k * d - j * d >= d
<1>1. CASE k < j
  <2>1. (k + 1) * d <= j * d
    BY <1>1
  <2> QED BY <2>1
<1>2. CASE j < k
  <2>1. (j + 1) * d <= k * d
    BY <1>2
  <2> QED BY <2>1
<1> QED BY <1>1, <1>2

LEMMA GridApart ==
  ASSUME Tiers, Count <= 25, NEW m \in MapNodes, NEW n \in MapNodes, m # n
  PROVE  Apart(GridSpot(m), GridSpot(n))
<1> DEFINE col(i) == (i - 1) % Cols
           row(i) == (i - 1) \div Cols
<1>1. /\ Cols \in 2 .. 5 /\ Lines \in 1 .. 5
      /\ \A i \in {m, n} : col(i) \in 0 .. Cols - 1 /\ row(i) \in 0 .. Lines - 1
      /\ col(m) # col(n) \/ row(m) # row(n)
  <2>1. Count # 1
    BY NodeFacts DEF MapNodes
  <2> QED BY <2>1, SmallGrid, GridFacts
<1>2. PICK u \in Nat, v \in Nat, r \in Nat, s \in Nat :
        u = col(m) /\ v = col(n) /\ r = row(m) /\ s = row(n)
  BY <1>1
<1>3. \A i \in MapNodes :
        GridSpot(i) = [x |-> IF Cols = 1 THEN 480 ELSE 150 + col(i) * (660 \div (Cols - 1)),
                       y |-> IF Lines = 1 THEN 300 ELSE 130 + row(i) * (340 \div (Lines - 1))]
  BY DEF GridSpot, CX, CY, W, H
<1> HIDE DEF col, row, Cols, Lines
<1>4. PICK dx \in Nat : dx = 660 \div (Cols - 1) /\ dx >= 150
  BY <1>1
<1>5. Lines # 1 => 340 \div (Lines - 1) \in Nat /\ 340 \div (Lines - 1) >= 56
  BY <1>1
<1>6. CASE u # v
  <2>1. u * dx - v * dx >= dx \/ v * dx - u * dx >= dx
    BY <1>6, StepApart
  <2>2. GridSpot(m).x = 150 + u * dx /\ GridSpot(n).x = 150 + v * dx
    BY <1>1, <1>2, <1>3, <1>4
  <2>3. u * dx \in Nat /\ v * dx \in Nat
    OBVIOUS
  <2>4. PICK a \in Nat, b \in Nat : a = u * dx /\ b = v * dx
    BY <2>3
  <2> QED BY <1>4, <2>1, <2>2, <2>4 DEF Apart, NW
<1>7. CASE r # s
  <2>1. Lines # 1
    BY <1>1, <1>2, <1>7
  <2>2. PICK dy \in Nat : dy = 340 \div (Lines - 1) /\ dy >= 56
    BY <1>5, <2>1
  <2>3. r * dy - s * dy >= dy \/ s * dy - r * dy >= dy
    BY <1>7, StepApart
  <2>4. GridSpot(m).y = 130 + r * dy /\ GridSpot(n).y = 130 + s * dy
    BY <1>2, <1>3, <2>1, <2>2
  <2>5. PICK a \in Nat, b \in Nat : a = r * dy /\ b = s * dy
    OBVIOUS
  <2> QED BY <2>2, <2>3, <2>4, <2>5 DEF Apart, NH
<1> QED BY <1>1, <1>2, <1>6, <1>7

\* Up to five in a tier, each has at least a box's width.
LEMMA TierApart ==
  ASSUME NEW b \in 2 .. 5, NEW j \in Nat, NEW k \in Nat, k < j, j < b
  PROVE  (j * 620) \div (b - 1) - (k * 620) \div (b - 1) >= 150
<1>1. b \in {2, 3, 4, 5}
  OBVIOUS
<1>2. CASE b = 2
  BY <1>2
<1>3. CASE b = 3
  BY <1>3
<1>4. CASE b = 4
  BY <1>4
<1>5. CASE b = 5
  BY <1>5
<1> QED BY <1>1, <1>2, <1>3, <1>4, <1>5

LEMMA LayeredApart ==
  ASSUME Tiers, \A t \in 1..3 : tiers[t] <= 5,
         NEW m \in MapNodes, NEW n \in MapNodes, m < n
  PROVE  Apart(LayeredSpot(m), LayeredSpot(n))
<1>1. PICK t \in 1..3, u \in 1..3 : t = TierOf(m) /\ u = TierOf(n)
  BY NodeFacts
<1>2. PICK b \in 0 .. 5, i \in Nat, j \in Nat : /\ b = tiers[t] /\ i = InTier(m) /\ j = InTier(n)
                                              /\ i \in 1 .. b
  BY <1>1, NodeFacts
<1>3. \A k \in MapNodes : LayeredSpot(k).y = <<140, 315, 480>>[TierOf(k)]
  BY DEF LayeredSpot
<1>4. CASE t # u
  <2>1. LayeredSpot(m).y = <<140, 315, 480>>[t] /\ LayeredSpot(n).y = <<140, 315, 480>>[u]
    BY <1>1, <1>3
  <2>2. /\ \/ t = 1 /\ LayeredSpot(m).y = 140
           \/ t = 2 /\ LayeredSpot(m).y = 315
           \/ t = 3 /\ LayeredSpot(m).y = 480
        /\ \/ u = 1 /\ LayeredSpot(n).y = 140
           \/ u = 2 /\ LayeredSpot(n).y = 315
           \/ u = 3 /\ LayeredSpot(n).y = 480
    BY <2>1
  <2> QED BY <1>4, <2>2 DEF Apart, NH
<1>5. CASE t = u
  <2>1. i < j /\ j <= b
    <3>1. j \in 1 .. b
      BY <1>1, <1>2, <1>5, NodeFacts
    <3>2. i < j
      BY <1>1, <1>2, <1>5 DEF InTier, TierOf, MapNodes, Count, Tiers
    <3> QED BY <3>1, <3>2
  <2>2. b \in 2 .. 5 /\ i - 1 \in Nat /\ j - 1 \in Nat /\ i - 1 < j - 1 /\ j - 1 < b
    BY <1>2, <2>1
  <2>3. ((j - 1) * 620) \div (b - 1) - ((i - 1) * 620) \div (b - 1) >= 150
    BY <2>2, TierApart
  <2>4. /\ LayeredSpot(m).x = 170 + ((i - 1) * 620) \div (b - 1)
        /\ LayeredSpot(n).x = 170 + ((j - 1) * 620) \div (b - 1)
    BY <1>1, <1>2, <1>5, <2>2 DEF LayeredSpot, W
  <2>5. PICK p \in Int, q \in Int : p = ((i - 1) * 620) \div (b - 1) /\ q = ((j - 1) * 620) \div (b - 1)
    BY <2>2
  <2> QED BY <2>3, <2>4, <2>5 DEF Apart, NW
<1> QED BY <1>4, <1>5

\* For any number of sites, the boxes that a layout places are apart as long as
\* the grid has 25 nodes at most and a tier five.
THEOREM MapSpread == MapSpec => []Spread
<1>1. MapInv => Spread
  <2> SUFFICES ASSUME MapInv,
                      ~(layout = "grid" /\ Count > 25),
                      ~(layout = "layered" /\ \E t \in 1..3 : tiers[t] > 5),
                      NEW m \in MapNodes, NEW n \in MapNodes, m < n
               PROVE  Apart(Placed(m), Placed(n))
    BY DEF Spread
  <2>1. Tiers /\ m # n
    BY NodeFacts DEF MapInv
  <2>2. CASE layout = "grid"
    BY <2>1, <2>2, NodeFacts, GridApart DEF Placed
  <2>3. CASE layout = "layered"
    <3>1. \A t \in 1..3 : tiers[t] <= 5
      BY <2>1, <2>3 DEF Tiers
    <3> QED BY <2>1, <2>3, <3>1, LayeredApart DEF Placed
  <2> QED BY <2>2, <2>3 DEF MapInv, Layouts
<1>2. MapSpec => []MapInv
  BY MapInit_, StepMap, PTL DEF MapSpec, Tiers
<1> QED
  BY <1>1, <1>2, PTL
=============================================================================
