------------------------- MODULE HumanCounterProofs -------------------------
(***************************************************************************)
(* What the people counter guarantees for every set of ids and positions,  *)
(* every length of the track ring and every number of frames.              *)
(* One invariant carries the counts and the order of the frames, another   *)
(* relates every managed human to the path of its positions.               *)
(***************************************************************************)
EXTENDS HumanCounter, FiniteSetTheorems, SequenceTheorems, TLAPS

-----------------------------------------------------------------------------
(* Geometry: how far the rounding of the diagonals can mislead.            *)

\* A direction that CountDirection returns for a point outside the count area
\* is a side of the area that the point lies beyond, however far off; only as
\* close to a corner as the rounding error of a diagonal may it be the other
\* side that meets there (hlds_agent.cpp:228-256).
THEOREM CountDirectionFaces ==
  ASSUME NEW p \in [x : Int, y : Int], ~InCountArea(p)
  PROVE  CountDirection(p) \subseteq Facing(p)
<1> SUFFICES ASSUME NEW d \in CountDirection(p) PROVE d \in Facing(p)
  OBVIOUS
<1>1. PICK x \in Int, y \in Int, u \in Nat \ {0}, e \in Nat :
        x = p.x /\ y = p.y /\ u = UNIT /\ e = ROUNDING /\ e < 141 * u
  BY HumanCounterAssumption
<1>2. /\ left = -3235 * u /\ right = 3263 * u /\ top = -3219 * u /\ bottom = -2937 * u
      /\ Error = 1083 * e
  BY <1>1 DEF left, right, top, bottom, Square, Error, Run
<1>3. PICK l \in Int, r \in Int, t \in Int, b \in Int :
        /\ l = left /\ r = right /\ t = top /\ b = bottom
        /\ r = l + 6498 * u /\ b = t + 282 * u
  BY <1>2
<1>4. PICK b1 \in Int, b2 \in Int :
        /\ b1 = Below1(p) /\ b1 = (y - t) * 1083 - 47 * (x - l)
        /\ b2 = Below2(p) /\ b2 = (y - t) * 1083 - 47 * (r - x)
  BY <1>1, <1>3 DEF Below1, Below2, Rise, Run
<1>5. x < l \/ x > r \/ y < t \/ y > b
  BY <1>1, <1>3 DEF InCountArea
<1> DEFINE AtX(v) == -(1083 * e) <= 47 * (x - v) /\ 47 * (x - v) <= 1083 * e
           AtY(v) == -e <= y - v /\ y - v <= e
<1>6. /\ AtX(l) <=> NearX(p, left)
      /\ AtX(r) <=> NearX(p, right)
      /\ AtY(t) <=> NearY(p, top)
      /\ AtY(b) <=> NearY(p, bottom)
  BY <1>1, <1>2, <1>3 DEF NearX, NearY, Rise
<1>7. /\ d \in Dirs
      /\ \/ d = COUNT_UP /\ b1 <= 1083 * e /\ b2 <= 1083 * e
         \/ d = COUNT_DOWN /\ b1 >= -(1083 * e) /\ b2 >= -(1083 * e)
         \/ d = COUNT_LEFT /\ b1 > -(1083 * e) /\ b2 < 1083 * e
         \/ d = COUNT_RIGHT /\ b1 < 1083 * e /\ b2 > -(1083 * e)
  BY <1>2, <1>4 DEF CountDirection
<1>8. CASE d = COUNT_UP /\ b1 <= 1083 * e /\ b2 <= 1083 * e
  <2>1. y < t \/ ((AtX(l) \/ AtX(r)) /\ AtY(t))
    BY <1>1, <1>3, <1>4, <1>5, <1>8
  <2> QED  BY <1>1, <1>3, <1>6, <1>7, <1>8, <2>1 DEF Facing, AtCorner
<1>9. CASE d = COUNT_DOWN /\ b1 >= -(1083 * e) /\ b2 >= -(1083 * e)
  <2>1. y > b \/ ((AtX(l) \/ AtX(r)) /\ AtY(b))
    BY <1>1, <1>3, <1>4, <1>5, <1>9
  <2> QED  BY <1>1, <1>3, <1>6, <1>7, <1>9, <2>1 DEF Facing, AtCorner
<1>10. CASE d = COUNT_LEFT /\ b1 > -(1083 * e) /\ b2 < 1083 * e
  <2>1. x < l \/ (AtX(l) /\ (AtY(t) \/ AtY(b)))
    BY <1>1, <1>3, <1>4, <1>5, <1>10
  <2> QED  BY <1>1, <1>3, <1>6, <1>7, <1>10, <2>1 DEF Facing, AtCorner
<1>11. CASE d = COUNT_RIGHT /\ b1 < 1083 * e /\ b2 > -(1083 * e)
  <2>1. x > r \/ (AtX(r) /\ (AtY(t) \/ AtY(b)))
    BY <1>1, <1>3, <1>4, <1>5, <1>11
  <2> QED  BY <1>1, <1>3, <1>6, <1>7, <1>11, <2>1 DEF Facing, AtCorner
<1> QED  BY <1>7, <1>8, <1>9, <1>10, <1>11

-----------------------------------------------------------------------------
(* Types.                                                                  *)

LEMMA NewHumanType ==
  ASSUME NEW p \in Positions PROVE NewHuman(p) \in Human
  BY HumanCounterAssumption DEF NewHuman, Human, COUNT_NO

LEMMA MovedFields ==
  ASSUME NEW h \in Human, NEW p \in Positions
  PROVE  /\ Moved(h, p).pos = p /\ Moved(h, p).pre = h.pos
         /\ Moved(h, p).track = [h.track EXCEPT ![h.nexttrack] = h.pos]
         /\ Moved(h, p).nexttrack =
              IF h.nexttrack + 1 = MAX_TRACKS THEN 0 ELSE h.nexttrack + 1
         /\ Moved(h, p).trackcnt =
              IF h.trackcnt + 1 > MAX_TRACKS THEN MAX_TRACKS ELSE h.trackcnt + 1
         /\ Moved(h, p).enterdir = h.enterdir /\ Moved(h, p).exitdir = h.exitdir
  BY DEF Moved, Human

LEMMA MovedType ==
  ASSUME NEW h \in Human, NEW p \in Positions PROVE Moved(h, p) \in Human
<1>1. PICK m \in Nat \ {0} : m = MAX_TRACKS
  BY HumanCounterAssumption
<1>2. PICK n \in 0 .. m - 1, c \in 0 .. m : n = h.nexttrack /\ c = h.trackcnt
  BY <1>1 DEF Human
<1>3. Moved(h, p).nexttrack \in 0 .. m - 1
  <2>1. Moved(h, p).nexttrack = IF n + 1 = m THEN 0 ELSE n + 1
    BY <1>1, <1>2, MovedFields
  <2> QED  BY <2>1
<1>4. Moved(h, p).trackcnt \in 0 .. m
  <2>1. Moved(h, p).trackcnt = IF c + 1 > m THEN m ELSE c + 1
    BY <1>1, <1>2, MovedFields
  <2> QED  BY <2>1
<1>5. Moved(h, p).track \in [0 .. MAX_TRACKS - 1 -> Positions \cup {Origin}]
  <2>1. /\ h.track \in [0 .. MAX_TRACKS - 1 -> Positions \cup {Origin}]
        /\ h.pos \in Positions
    BY DEF Human
  <2>2. [h.track EXCEPT ![h.nexttrack] = h.pos]
          \in [0 .. MAX_TRACKS - 1 -> Positions \cup {Origin}]
    BY <2>1
  <2>3. Moved(h, p).track = [h.track EXCEPT ![h.nexttrack] = h.pos]
    BY MovedFields
  <2> QED  BY <2>2, <2>3
<1> QED  BY <1>1, <1>3, <1>4, <1>5 DEF Moved, Human

LEMMA CaughtType ==
  ASSUME NEW a, NEW f, PeopleIn(a, Human), PeopleIn(f, Positions)
  PROVE  PeopleIn(CatchHumans(a, f), Human) /\ DOMAIN CatchHumans(a, f) = DOMAIN f
  BY NewHumanType, MovedType DEF PeopleIn, CatchHumans

LEMMA MarkedType ==
  ASSUME NEW h \in Human, NEW d \in Dirs PROVE Marked(h, d) \in Human
  BY DEF Marked, Human

LEMMA IdsFinite == \A S \in SUBSET Ids : IsFiniteSet(S) /\ Cardinality(S) \in Nat
  BY HumanCounterAssumption, FS_Subset, FS_CardinalityType

-----------------------------------------------------------------------------
(* The inductive invariant.  What the reads leave behind is tied to the    *)
(* place Proc has reached: between two counted frames the humans frame may *)
(* lag behind the depth frame, never the other way round.                  *)

FramesInv ==
  /\ counted <= m_framehumans.framenumber
  /\ m_framehumans.framenumber <= latest
  /\ m_frame <= latest
  /\ pc \in {"depth", "count"} => counted < m_framehumans.framenumber
  /\ pc = "count" => m_framehumans.framenumber <= m_frame

CleanInv ==
  ~failed =>
    /\ pc \in {"poll", "humans"} => m_framehumans.framenumber <= m_frame
    /\ pc \in {"humans", "depth"} => m_frame < latest

IInv ==
  /\ TypeOK
  /\ CountsConserved
  /\ FramesInv
  /\ CleanInv

LEMMA InitIInv == Init => IInv
<1> SUFFICES ASSUME Init PROVE IInv
  OBVIOUS
<1>1. \A S : PeopleIn(<< >>, S)  BY DEF PeopleIn
<1>2. TypeOK
  <2>1. m_Count \in [Enter : [Dirs -> Int], Exit : [Dirs -> Int],
                     TotalEnter : Int, TotalExit : Int, InArea : Nat]
    BY DEF Init
  <2>2. gone \in [enter : [Dirs -> Nat], exit : [Dirs -> Nat]]  BY DEF Init
  <2>3. failed \in BOOLEAN  BY Zenon DEF Init
  <2>4. /\ PeopleIn(seen, Positions) /\ PeopleIn(m_apphumans, Human)
        /\ PeopleIn(m_framehumans.humans, Positions)
    BY <1>1 DEF Init
  <2>5. /\ latest \in 0 .. MaxFrames /\ m_framehumans.framenumber \in 0 .. MaxFrames
        /\ m_frame \in 0 .. MaxFrames /\ counted \in 0 .. MaxFrames
        /\ pc \in {"poll", "humans", "depth", "count"}
    BY HumanCounterAssumption DEF Init
  <2> QED  BY <2>1, <2>2, <2>3, <2>4, <2>5 DEF TypeOK
<1>3. CountsConserved
  <2>1. \A d \in Dirs : EnteredBy(d) = {} /\ ExitedBy(d) = {}
    BY DEF Init, EnteredBy, ExitedBy
  <2>2. \A d \in Dirs : /\ m_Count.Enter[d] = 0 /\ m_Count.Exit[d] = 0
                        /\ gone.enter[d] = 0 /\ gone.exit[d] = 0
    BY DEF Init
  <2>3. Cardinality({}) = 0  BY FS_EmptySet
  <2> QED  BY <2>1, <2>2, <2>3 DEF CountsConserved
<1>4. FramesInv  BY DEF Init, FramesInv
<1>5. CleanInv  BY DEF Init, CleanInv
<1> QED  BY <1>2, <1>3, <1>4, <1>5 DEF IInv

\* The count of one direction: of the set A of those registered for it, some
\* are lost, of the kept some are cancelled, and the crossing are added.
Recounts(A, Left, Kept, Cancelled, Crossing) ==
  /\ IsFiniteSet(A) /\ IsFiniteSet(Crossing)
  /\ A = Left \cup Kept /\ Left \cap Kept = {}
  /\ Cancelled \subseteq Kept /\ Crossing \cap (Kept \ Cancelled) = {}

LEMMA Recount ==
  ASSUME NEW A, NEW Left, NEW Kept, NEW Cancelled, NEW Crossing,
         Recounts(A, Left, Kept, Cancelled, Crossing)
  PROVE  /\ Cardinality((Kept \ Cancelled) \cup Crossing)
              = Cardinality(A) - Cardinality(Left) - Cardinality(Cancelled)
                  + Cardinality(Crossing)
         /\ Cardinality(A) \in Nat /\ Cardinality(Left) \in Nat
         /\ Cardinality(Cancelled) \in Nat /\ Cardinality(Crossing) \in Nat
<1>1. IsFiniteSet(Left) /\ IsFiniteSet(Kept) /\ IsFiniteSet(Cancelled)
  <2>1. Left \subseteq A /\ Kept \subseteq A /\ Cancelled \subseteq A  BY DEF Recounts
  <2> QED  BY <2>1, FS_Subset DEF Recounts
<1>2. Cardinality(A) = Cardinality(Left) + Cardinality(Kept)
  <2>1. Cardinality(Left \cup Kept)
          = Cardinality(Left) + Cardinality(Kept) - Cardinality(Left \cap Kept)
    BY <1>1, FS_Union
  <2>2. Cardinality(Left) \in Nat /\ Cardinality(Kept) \in Nat
    BY <1>1, FS_CardinalityType
  <2>3. Cardinality(Left \cap Kept) = 0  BY FS_EmptySet DEF Recounts
  <2> QED  BY <2>1, <2>2, <2>3 DEF Recounts
<1>3. /\ IsFiniteSet(Kept \ Cancelled)
      /\ Cardinality(Kept \ Cancelled) = Cardinality(Kept) - Cardinality(Cancelled)
  <2>1. Kept \cap Cancelled = Cancelled  BY DEF Recounts
  <2> QED  BY <1>1, <2>1, FS_Difference
<1>4. Cardinality((Kept \ Cancelled) \cup Crossing)
         = Cardinality(Kept \ Cancelled) + Cardinality(Crossing)
  <2>1. Cardinality((Kept \ Cancelled) \cap Crossing) = 0
    <3>1. (Kept \ Cancelled) \cap Crossing = {}  BY DEF Recounts
    <3> QED  BY <3>1, FS_EmptySet
  <2>2. Cardinality((Kept \ Cancelled) \cup Crossing)
          = Cardinality(Kept \ Cancelled) + Cardinality(Crossing)
              - Cardinality((Kept \ Cancelled) \cap Crossing)
    BY <1>3, FS_Union DEF Recounts
  <2>3. Cardinality(Kept \ Cancelled) \in Nat /\ Cardinality(Crossing) \in Nat
    BY <1>3, FS_CardinalityType DEF Recounts
  <2> QED  BY <2>1, <2>2, <2>3
<1>5. /\ Cardinality(A) \in Nat /\ Cardinality(Left) \in Nat
      /\ Cardinality(Kept) \in Nat /\ Cardinality(Cancelled) \in Nat
      /\ Cardinality(Crossing) \in Nat
  BY <1>1, FS_CardinalityType DEF Recounts
<1> QED  BY <1>2, <1>3, <1>4, <1>5

-----------------------------------------------------------------------------
(* CatchAndCount.                                                          *)

\* What a step of CatchAndCount does, with the directions it registers.
LEMMA CountAll ==
  ASSUME CatchAndCount
  PROVE  LET humans == m_framehumans.humans
             caught == CatchHumans(m_apphumans, humans)
         IN  \E dir \in [DOMAIN humans -> Dirs] :
               /\ \A id \in DOMAIN humans : dir[id] \in CountDirection(Outside(caught[id]))
               /\ m_apphumans' = [id \in DOMAIN humans |-> Marked(caught[id], dir[id])]
               /\ m_Count' = CountHumans(caught, dir, m_Count)
<1> DEFINE humans == m_framehumans.humans
           caught == CatchHumans(m_apphumans, humans)
<1>1. DOMAIN caught = DOMAIN humans
  BY DEF CatchHumans
<1>2. \E dir \in Directions(caught) :
         /\ m_apphumans' = [id \in DOMAIN humans |-> Marked(caught[id], dir[id])]
         /\ m_Count' = CountHumans(caught, dir, m_Count)
  BY DEF CatchAndCount
<1> HIDE DEF caught
<1>3. PICK dir \in Directions(caught) :
         /\ m_apphumans' = [id \in DOMAIN humans |-> Marked(caught[id], dir[id])]
         /\ m_Count' = CountHumans(caught, dir, m_Count)
  BY <1>2
<1>4. /\ dir \in [DOMAIN humans -> Dirs]
      /\ \A id \in DOMAIN humans : dir[id] \in CountDirection(Outside(caught[id]))
  BY <1>1 DEF Directions
<1> QED  BY <1>3, <1>4 DEF caught

\* Every direction's count after a frame is again one per person.
LEMMA CountsStep == IInv /\ CatchAndCount => CountsConserved'
<1> SUFFICES ASSUME IInv, CatchAndCount, NEW d \in Dirs
             PROVE  /\ m_Count'.Enter[d] = gone'.enter[d] + Cardinality(EnteredBy(d)')
                    /\ m_Count'.Exit[d] = gone'.exit[d] + Cardinality(ExitedBy(d)')
  BY DEF CountsConserved
<1> DEFINE humans == m_framehumans.humans
           caught == CatchHumans(m_apphumans, humans)
           both == DOMAIN m_apphumans \cap DOMAIN humans
<1>1. /\ PeopleIn(m_apphumans, Human) /\ PeopleIn(humans, Positions)
      /\ PeopleIn(caught, Human) /\ DOMAIN caught = DOMAIN humans
  BY CaughtType DEF IInv, TypeOK
<1>2. \A id \in DOMAIN humans :
         /\ id \in both => /\ caught[id].enterdir = m_apphumans[id].enterdir
                          /\ caught[id].exitdir = m_apphumans[id].exitdir
         /\ id \notin both => /\ caught[id].enterdir = COUNT_NO
                             /\ caught[id].exitdir = COUNT_NO
  <2> SUFFICES ASSUME NEW id \in DOMAIN humans
               PROVE  /\ id \in both => /\ caught[id].enterdir = m_apphumans[id].enterdir
                                       /\ caught[id].exitdir = m_apphumans[id].exitdir
                      /\ id \notin both => /\ caught[id].enterdir = COUNT_NO
                                          /\ caught[id].exitdir = COUNT_NO
    OBVIOUS
  <2>1. CASE id \in both
    <3>1. caught[id] = Moved(m_apphumans[id], humans[id])
      BY <2>1 DEF CatchHumans
    <3>2. m_apphumans[id] \in Human
      BY <1>1, <2>1 DEF PeopleIn
    <3> QED  BY <2>1, <3>1, <3>2 DEF Moved, Human
  <2>2. CASE id \notin both
    <3>1. caught[id] = NewHuman(humans[id])
      BY <2>2 DEF CatchHumans
    <3> QED  BY <2>2, <3>1 DEF NewHuman
  <2> QED  BY <2>1, <2>2
<1>3. d # COUNT_NO  BY DEF Dirs, COUNT_NO
<1>d. PICK dir \in [DOMAIN humans -> Dirs] :
        /\ m_apphumans' = [id \in DOMAIN humans |-> Marked(caught[id], dir[id])]
        /\ m_Count' = CountHumans(caught, dir, m_Count)
  BY <1>1, CountAll
<1>4. /\ DOMAIN m_apphumans' = DOMAIN humans
      /\ \A id \in DOMAIN humans :
           /\ m_apphumans'[id].enterdir = IF Entering(caught[id])
                THEN dir[id] ELSE caught[id].enterdir
           /\ m_apphumans'[id].exitdir = IF Exiting(caught[id])
                THEN dir[id] ELSE caught[id].exitdir
  BY <1>1, <1>d DEF Marked, PeopleIn, Human
<1>5. m_Count'.Enter[d] = gone'.enter[d] + Cardinality(EnteredBy(d)')
  <2> DEFINE L == {id \in Lost(m_apphumans, humans) : m_apphumans[id].enterdir = d}
             K == {id \in DOMAIN humans : caught[id].enterdir = d}
             C == {id \in DOMAIN humans : Entering(caught[id]) /\ caught[id].enterdir = d}
             X == {id \in DOMAIN humans : Entering(caught[id]) /\ dir[id] = d}
  <2>1. EnteredBy(d) = L \cup K /\ L \cap K = {}
    BY <1>2, <1>3 DEF EnteredBy, Lost
  <2>2. C \subseteq K /\ X \cap (K \ C) = {}  OBVIOUS
  <2>3. EnteredBy(d)' = (K \ C) \cup X  BY <1>4 DEF EnteredBy
  <2>4. EnteredBy(d) \subseteq Ids /\ X \subseteq Ids
    BY <1>1 DEF EnteredBy, PeopleIn
  <2>5. IsFiniteSet(EnteredBy(d)) /\ IsFiniteSet(X)  BY <2>4, IdsFinite
  <2>6. m_Count'.Enter[d] = m_Count.Enter[d] - Cardinality(C) + Cardinality(X)
    BY <1>1, <1>d DEF CountHumans, EnterCounts
  <2>7. gone'.enter[d] = gone.enter[d] + Cardinality(L)
    BY DEF CatchAndCount, Buried
  <2>8. m_Count.Enter[d] = gone.enter[d] + Cardinality(EnteredBy(d))
    BY DEF IInv, CountsConserved
  <2>9. gone.enter[d] \in Nat  BY DEF IInv, TypeOK
  <2> HIDE DEF L, K, C, X
  <2>10. Recounts(EnteredBy(d), L, K, C, X)  BY <2>1, <2>2, <2>5 DEF Recounts
  <2>11. /\ Cardinality((K \ C) \cup X) = Cardinality(EnteredBy(d)) - Cardinality(L)
                                           - Cardinality(C) + Cardinality(X)
         /\ Cardinality(EnteredBy(d)) \in Nat /\ Cardinality(L) \in Nat
         /\ Cardinality(C) \in Nat /\ Cardinality(X) \in Nat
    BY <2>10, Recount
  <2> QED  BY <2>3, <2>6, <2>7, <2>8, <2>9, <2>11
<1>6. m_Count'.Exit[d] = gone'.exit[d] + Cardinality(ExitedBy(d)')
  <2> DEFINE L == {id \in Lost(m_apphumans, humans) : m_apphumans[id].exitdir = d}
             K == {id \in DOMAIN humans : caught[id].exitdir = d}
             C == {id \in DOMAIN humans : Exiting(caught[id]) /\ caught[id].exitdir = d}
             X == {id \in DOMAIN humans : Exiting(caught[id]) /\ dir[id] = d}
  <2>1. ExitedBy(d) = L \cup K /\ L \cap K = {}
    BY <1>2, <1>3 DEF ExitedBy, Lost
  <2>2. C \subseteq K /\ X \cap (K \ C) = {}  OBVIOUS
  <2>3. ExitedBy(d)' = (K \ C) \cup X  BY <1>4 DEF ExitedBy
  <2>4. ExitedBy(d) \subseteq Ids /\ X \subseteq Ids
    BY <1>1 DEF ExitedBy, PeopleIn
  <2>5. IsFiniteSet(ExitedBy(d)) /\ IsFiniteSet(X)  BY <2>4, IdsFinite
  <2>6. m_Count'.Exit[d] = m_Count.Exit[d] - Cardinality(C) + Cardinality(X)
    BY <1>1, <1>d DEF CountHumans, ExitCounts
  <2>7. gone'.exit[d] = gone.exit[d] + Cardinality(L)
    BY DEF CatchAndCount, Buried
  <2>8. m_Count.Exit[d] = gone.exit[d] + Cardinality(ExitedBy(d))
    BY DEF IInv, CountsConserved
  <2>9. gone.exit[d] \in Nat  BY DEF IInv, TypeOK
  <2> HIDE DEF L, K, C, X
  <2>10. Recounts(ExitedBy(d), L, K, C, X)  BY <2>1, <2>2, <2>5 DEF Recounts
  <2>11. /\ Cardinality((K \ C) \cup X) = Cardinality(ExitedBy(d)) - Cardinality(L)
                                           - Cardinality(C) + Cardinality(X)
         /\ Cardinality(ExitedBy(d)) \in Nat /\ Cardinality(L) \in Nat
         /\ Cardinality(C) \in Nat /\ Cardinality(X) \in Nat
    BY <2>10, Recount
  <2> QED  BY <2>3, <2>6, <2>7, <2>8, <2>9, <2>11
<1> QED  BY <1>5, <1>6

LEMMA CountType ==
  ASSUME NEW hs, PeopleIn(hs, Human), NEW dir, NEW count,
         count \in [Enter : [Dirs -> Int], Exit : [Dirs -> Int],
                   TotalEnter : Int, TotalExit : Int, InArea : Nat]
  PROVE  CountHumans(hs, dir, count)
           \in [Enter : [Dirs -> Int], Exit : [Dirs -> Int],
               TotalEnter : Int, TotalExit : Int, InArea : Nat]
<1>1. \A S : S \subseteq DOMAIN hs => Cardinality(S) \in Nat
  BY IdsFinite DEF PeopleIn
<1>2. EnterCounts(hs, dir, count.Enter) \in [Dirs -> Int]
  BY <1>1 DEF EnterCounts
<1>3. ExitCounts(hs, dir, count.Exit) \in [Dirs -> Int]
  BY <1>1 DEF ExitCounts
<1>4. \A c \in [Dirs -> Int] : Total(c) \in Int
  BY DEF Total, Dirs
<1>5. Cardinality({id \in DOMAIN hs : InCountArea(hs[id].pos)}) \in Nat
  BY <1>1
<1> QED  BY <1>2, <1>3, <1>4, <1>5 DEF CountHumans

LEMMA BuriedType ==
  ASSUME TypeOK, NEW humans
  PROVE  Buried(m_apphumans, humans) \in [enter : [Dirs -> Nat], exit : [Dirs -> Nat]]
<1>1. \A S : S \subseteq Lost(m_apphumans, humans) => Cardinality(S) \in Nat
  BY IdsFinite DEF Lost, TypeOK, PeopleIn
<1> QED  BY <1>1 DEF Buried, TypeOK

LEMMA CatchAndCountType == IInv /\ CatchAndCount => TypeOK'
<1> SUFFICES ASSUME IInv, CatchAndCount PROVE TypeOK'
  OBVIOUS
<1> DEFINE humans == m_framehumans.humans
           caught == CatchHumans(m_apphumans, humans)
<1>1. PeopleIn(caught, Human) /\ DOMAIN caught = DOMAIN humans
  BY CaughtType DEF IInv, TypeOK
<1>d. PICK dir \in [DOMAIN humans -> Dirs] :
        /\ m_apphumans' = [id \in DOMAIN humans |-> Marked(caught[id], dir[id])]
        /\ m_Count' = CountHumans(caught, dir, m_Count)
  BY CountAll
<1>2. PeopleIn(m_apphumans', Human)
  BY <1>1, <1>d, MarkedType DEF PeopleIn
<1>3. m_Count' \in [Enter : [Dirs -> Int], Exit : [Dirs -> Int],
                    TotalEnter : Int, TotalExit : Int, InArea : Nat]
  BY <1>1, <1>d, CountType DEF IInv, TypeOK
<1>4. gone' \in [enter : [Dirs -> Nat], exit : [Dirs -> Nat]]
  BY BuriedType DEF CatchAndCount, IInv
<1>5. counted' \in 0 .. MaxFrames /\ failed' \in BOOLEAN /\ pc' = "poll"
  BY DEF CatchAndCount, IInv, TypeOK
<1> QED  BY <1>2, <1>3, <1>4, <1>5 DEF CatchAndCount, IInv, TypeOK, sensor

-----------------------------------------------------------------------------
(* The other steps leave the people alone.                                 *)

LEMMA PeopleKept ==
  ASSUME IInv, UNCHANGED people PROVE CountsConserved'
  BY DEF IInv, people, CountsConserved, EnteredBy, ExitedBy

LEMMA NewFrameStep == IInv /\ NewFrame => IInv'
<1> SUFFICES ASSUME IInv, NewFrame PROVE IInv'
  OBVIOUS
<1>1. PeopleIn(seen', Positions)  BY DEF NewFrame, Frames, PeopleIn
<1>2. latest' \in 0 .. MaxFrames
  BY HumanCounterAssumption DEF NewFrame, IInv, TypeOK
<1>3. TypeOK'  BY <1>1, <1>2 DEF NewFrame, IInv, TypeOK, people
<1>4. CountsConserved'  BY PeopleKept DEF NewFrame
<1>5. FramesInv' /\ CleanInv'
  BY HumanCounterAssumption
  DEF NewFrame, IInv, TypeOK, FramesInv, CleanInv, people
<1> QED  BY <1>3, <1>4, <1>5 DEF IInv

LEMMA ReadStep ==
  IInv /\ (Poll \/ PollFails \/ ReadHumans \/ ReadHumansFails
            \/ ReadDepth \/ ReadDepthFails) => IInv'
<1> SUFFICES ASSUME IInv, Poll \/ PollFails \/ ReadHumans \/ ReadHumansFails
                            \/ ReadDepth \/ ReadDepthFails
             PROVE  IInv'
  OBVIOUS
<1> USE DEF Poll, PollFails, ReadHumans, ReadHumansFails, ReadDepth, ReadDepthFails
<1>1. CountsConserved'  BY PeopleKept
<1>2. TypeOK'
  <2>1. PeopleIn(m_framehumans.humans, Positions)'  BY DEF IInv, TypeOK
  <2>2. m_framehumans.framenumber' \in 0 .. MaxFrames  BY DEF IInv, TypeOK
  <2>3. failed' \in BOOLEAN  BY DEF IInv, TypeOK
  <2>4. m_frame' \in 0 .. MaxFrames /\ pc' \in {"poll", "humans", "depth", "count"}
    BY DEF IInv, TypeOK, sensor
  <2>5. UNCHANGED <<latest, seen, m_apphumans, m_Count, gone, counted>>
    BY DEF sensor, people
  <2> QED  BY ONLY <2>1, <2>2, <2>3, <2>4, <2>5, IInv DEF IInv, TypeOK, PeopleIn
<1>3. FramesInv' /\ CleanInv'
  BY HumanCounterAssumption DEF IInv, TypeOK, FramesInv, CleanInv, sensor, people
<1> QED  BY <1>1, <1>2, <1>3 DEF IInv

LEMMA NextStep == IInv /\ [Next]_vars => IInv'
<1>1. IInv /\ CatchAndCount => IInv'
  <2>1. IInv /\ CatchAndCount => FramesInv' /\ CleanInv'
    BY HumanCounterAssumption DEF CatchAndCount, IInv, TypeOK, FramesInv, CleanInv, sensor
  <2> QED  BY <2>1, CatchAndCountType, CountsStep DEF IInv
<1>2. IInv /\ UNCHANGED vars => IInv'
  <2> SUFFICES ASSUME IInv, UNCHANGED vars PROVE IInv'
    OBVIOUS
  <2>1. TypeOK'  BY DEF IInv, vars, TypeOK, PeopleIn
  <2>2. CountsConserved'  BY PeopleKept DEF vars, people
  <2>3. FramesInv' /\ CleanInv'  BY DEF IInv, vars, FramesInv, CleanInv
  <2> QED  BY <2>1, <2>2, <2>3 DEF IInv
<1> QED  BY <1>1, <1>2, NewFrameStep, ReadStep DEF Next, Proc

-----------------------------------------------------------------------------

\* The inductive invariant holds in every execution.
THEOREM Inductive == Spec => []IInv
  BY InitIInv, NextStep, PTL DEF Spec

\* Every variable keeps its type; in particular a track ring is never written
\* outside its MAX_TRACKS points.
THEOREM TypeCorrect == Spec => []TypeOK
<1>1. IInv => TypeOK  BY DEF IInv
<1> QED  BY Inductive, <1>1, PTL

\* The counters of CountHumans count people, one each, whatever number of
\* people cross in one frame, come back, or are lost by the sensor.
THEOREM CountsConservedTheorem == Spec => []CountsConserved
<1>1. IInv => CountsConserved  BY DEF IInv
<1> QED  BY Inductive, <1>1, PTL

\* Proc is held up inside ReadFrame only after an SDK call failed.
THEOREM ReadsNeverWaitTheorem == Spec => []ReadsNeverWait
<1>1. IInv => ReadsNeverWait
  BY DEF IInv, TypeOK, FramesInv, CleanInv, ReadsNeverWait
<1> QED  BY Inductive, <1>1, PTL

\* The frames counted have strictly increasing numbers.
THEOREM FramesCountedInOrderTheorem == Spec => FramesCountedInOrder
<1>1. IInv /\ [Next]_vars => [CatchAndCount => counted' > counted]_vars
  BY DEF CatchAndCount, IInv, TypeOK, FramesInv
<1> QED  BY Inductive, <1>1, PTL DEF Spec, FramesCountedInOrder

-----------------------------------------------------------------------------
(* Every managed human and its path.                                       *)

\* The point passed a frames ago is in this slot of the track ring.
Slot(h, a) ==
  IF a <= h.nexttrack THEN h.nexttrack - a ELSE h.nexttrack - a + MAX_TRACKS

Ringed(h, w) ==
  /\ h.trackcnt = IF Len(w) - 1 < MAX_TRACKS THEN Len(w) - 1 ELSE MAX_TRACKS
  /\ h.trackcnt < MAX_TRACKS => h.nexttrack = h.trackcnt
  /\ \A a \in 1 .. h.trackcnt : h.track[Slot(h, a)] = w[Len(w) - a]

IsLast(k, steps) == k \in steps /\ \A j \in steps : j <= k

EnterMarked(dir, w) ==
  /\ Entries(w) = {} => dir = COUNT_NO
  /\ Entries(w) # {} => \E k : IsLast(k, Entries(w)) /\ dir \in Facing(w[k - 1])

ExitMarked(dir, w) ==
  /\ Exits(w) = {} => dir = COUNT_NO
  /\ Exits(w) # {} => \E k : IsLast(k, Exits(w)) /\ dir \in Facing(w[k])

OnPath(h, w) ==
  /\ w \in Seq(Positions) /\ w # << >>
  /\ h.pos = w[Len(w)]
  /\ Ringed(h, w)
  /\ EnterMarked(h.enterdir, w) /\ ExitMarked(h.exitdir, w)

PathInv ==
  /\ DOMAIN path = DOMAIN m_apphumans
  /\ \A id \in DOMAIN m_apphumans : OnPath(m_apphumans[id], path[id])

LEMMA MarkedFields ==
  ASSUME NEW h \in Human, NEW d
  PROVE  /\ Marked(h, d).pos = h.pos /\ Marked(h, d).track = h.track
         /\ Marked(h, d).nexttrack = h.nexttrack
         /\ Marked(h, d).trackcnt = h.trackcnt
         /\ Marked(h, d).enterdir = IF Entering(h) THEN d ELSE h.enterdir
         /\ Marked(h, d).exitdir = IF Exiting(h) THEN d ELSE h.exitdir
  BY DEF Marked, Human

\* The ring after one more point: what had age a has age a + 1, and the slot
\* that is overwritten held a point that is too old.
LEMMA RingStep ==
  ASSUME NEW h \in Human, NEW w \in Seq(Positions), NEW p \in Positions,
         w # << >>, h.pos = w[Len(w)], Ringed(h, w)
  PROVE  Ringed(Moved(h, p), Append(w, p))
<1>1. PICK n \in Nat : n = Len(w)
  OBVIOUS
<1>2. PICK m : m = Moved(h, p)
  OBVIOUS
<1>3. PICK v : v = Append(w, p)
  OBVIOUS
<1>4. n >= 1 /\ Len(v) = n + 1 /\ \A j \in 1 .. n : v[j] = w[j]
  BY <1>1, <1>3, AppendProperties, EmptySeq
<1>5. /\ h.nexttrack \in 0 .. MAX_TRACKS - 1 /\ h.trackcnt \in 0 .. MAX_TRACKS
      /\ MAX_TRACKS \in Nat \ {0}
      /\ h.track \in [0 .. MAX_TRACKS - 1 -> Positions \cup {Origin}]
  BY HumanCounterAssumption DEF Human
<1>6. /\ m.track = [h.track EXCEPT ![h.nexttrack] = h.pos]
      /\ m.nexttrack = IF h.nexttrack + 1 = MAX_TRACKS THEN 0 ELSE h.nexttrack + 1
      /\ m.trackcnt = IF h.trackcnt + 1 > MAX_TRACKS THEN MAX_TRACKS ELSE h.trackcnt + 1
  BY <1>2, MovedFields
<1>7. /\ h.trackcnt = IF n - 1 < MAX_TRACKS THEN n - 1 ELSE MAX_TRACKS
      /\ h.trackcnt < MAX_TRACKS => h.nexttrack = h.trackcnt
      /\ \A a \in 1 .. h.trackcnt : h.track[Slot(h, a)] = w[n - a]
  BY <1>1 DEF Ringed
<1>8. /\ m.trackcnt = IF n < MAX_TRACKS THEN n ELSE MAX_TRACKS
      /\ m.trackcnt < MAX_TRACKS => m.nexttrack = m.trackcnt
  BY <1>4, <1>5, <1>6, <1>7
<1>9. ASSUME NEW a \in 1 .. m.trackcnt
      PROVE  m.track[Slot(m, a)] = v[n + 1 - a]
  <2>1. a \in 1 .. MAX_TRACKS /\ a <= n
    BY <1>5, <1>8
  <2>2. CASE a = 1
    <3>1. Slot(m, a) = h.nexttrack
      BY <1>5, <1>6, <2>2 DEF Slot
    <3>2. m.track[h.nexttrack] = h.pos
      BY <1>5, <1>6
    <3>3. v[n + 1 - a] = w[n]
      BY <1>4, <2>2
    <3> QED  BY <1>1, <3>1, <3>2, <3>3
  <2>3. CASE a > 1
    <3>1. a - 1 \in 1 .. h.trackcnt
      BY <1>4, <1>5, <1>7, <1>8, <2>1, <2>3
    <3>2. /\ Slot(m, a) = Slot(h, a - 1)
          /\ Slot(h, a - 1) \in 0 .. MAX_TRACKS - 1
          /\ Slot(h, a - 1) # h.nexttrack
      <4>1. PICK N \in 0 .. MAX_TRACKS - 1 : N = h.nexttrack
        BY <1>5
      <4>2. PICK b \in 1 .. MAX_TRACKS : b = a
        BY <2>1
      <4>3. PICK M \in Nat \ {0} : M = MAX_TRACKS
        BY <1>5
      <4>4. Slot(h, a - 1) = IF b - 1 <= N THEN N - (b - 1) ELSE N - (b - 1) + M
        BY <4>1, <4>2, <4>3 DEF Slot
      <4>5. Slot(m, a) = IF b <= (IF N + 1 = M THEN 0 ELSE N + 1)
                         THEN (IF N + 1 = M THEN 0 ELSE N + 1) - b
                         ELSE (IF N + 1 = M THEN 0 ELSE N + 1) - b + M
        BY <1>6, <4>1, <4>2, <4>3 DEF Slot
      <4>6. N \in 0 .. M - 1 /\ b \in 1 .. M /\ b > 1
        BY <2>3, <4>1, <4>2, <4>3
      <4>7. CASE N + 1 = M
        BY <4>1, <4>3, <4>4, <4>5, <4>6, <4>7
      <4>8. CASE N + 1 # M
        <5>1. PICK x, y : x = Slot(m, a) /\ y = Slot(h, a - 1)
          OBVIOUS
        <5>2. /\ x = IF b <= N + 1 THEN N + 1 - b ELSE N + 1 - b + M
              /\ y = IF b <= N + 1 THEN N + 1 - b ELSE N + 1 - b + M
          BY <4>4, <4>5, <4>6, <4>8, <5>1
        <5>3. CASE b <= N + 1
          <6>1. x = N + 1 - b /\ y = N + 1 - b
            BY <5>2, <5>3
          <6>2. y \in 0 .. M - 1 /\ y # N
            BY <4>6, <4>8, <5>3, <6>1
          <6> QED  BY <4>1, <4>3, <5>1, <6>1, <6>2
        <5>4. CASE ~(b <= N + 1)
          <6>1. x = N + 1 - b + M /\ y = N + 1 - b + M
            BY <5>2, <5>4
          <6>2. y \in 0 .. M - 1 /\ y # N
            BY <4>6, <4>8, <5>4, <6>1
          <6> QED  BY <4>1, <4>3, <5>1, <6>1, <6>2
        <5> QED  BY <5>3, <5>4
      <4> QED  BY <4>7, <4>8
    <3>3. m.track[Slot(m, a)] = h.track[Slot(h, a - 1)]
      <4>1. PICK t : t = Slot(h, a - 1)
        OBVIOUS
      <4>2. t \in 0 .. MAX_TRACKS - 1 /\ t # h.nexttrack /\ Slot(m, a) = t
        BY <3>2, <4>1
      <4>3. m.track[t] = h.track[t]
        BY <1>5, <1>6, <4>2
      <4> QED  BY <4>1, <4>2, <4>3
    <3>4. h.track[Slot(h, a - 1)] = w[n - (a - 1)]
      BY <1>7, <3>1
    <3>5. n - (a - 1) \in 1 .. n /\ n - (a - 1) = n + 1 - a
      BY <1>4, <2>1, <2>3
    <3> QED  BY <1>4, <3>3, <3>4, <3>5
  <2> QED  BY <2>1, <2>2, <2>3
<1>10. Ringed(m, v)
  <2>1. Len(v) - 1 = n
    BY <1>4
  <2> QED  BY <1>4, <1>8, <1>9, <2>1 DEF Ringed
<1> QED  BY <1>2, <1>3, <1>10

\* One more point on a path is one more entry, one more exit, or neither.
LEMMA CrossingsStep ==
  ASSUME NEW w \in Seq(Positions), NEW p \in Positions, NEW n \in Nat,
         n = Len(w), n >= 1
  PROVE  /\ Append(w, p)[n + 1] = p
         /\ \A j \in 1 .. n : Append(w, p)[j] = w[j]
         /\ Entries(w) \subseteq 2 .. n /\ Exits(w) \subseteq 2 .. n
         /\ Entries(Append(w, p)) =
              Entries(w) \cup (IF ~InCountArea(w[n]) /\ InCountArea(p) THEN {n + 1} ELSE {})
         /\ Exits(Append(w, p)) =
              Exits(w) \cup (IF InCountArea(w[n]) /\ ~InCountArea(p) THEN {n + 1} ELSE {})
<1>1. PICK v : v = Append(w, p)
  OBVIOUS
<1>2. Len(v) = n + 1 /\ v[n + 1] = p /\ \A j \in 1 .. n : v[j] = w[j]
  BY <1>1, AppendProperties
<1>3. \A i \in 2 .. n : i \in 1 .. n /\ i - 1 \in 1 .. n
  OBVIOUS
<1>4. \A i : i \in 2 .. n + 1 <=> i \in 2 .. n \/ i = n + 1
  OBVIOUS
<1>5. v[n + 1 - 1] = w[n]
  BY <1>2
<1>6. Entries(v) = Entries(w) \cup (IF ~InCountArea(w[n]) /\ InCountArea(p)
                                   THEN {n + 1} ELSE {})
  BY <1>2, <1>3, <1>4, <1>5 DEF Entries
<1>7. Exits(v) = Exits(w) \cup (IF InCountArea(w[n]) /\ ~InCountArea(p)
                               THEN {n + 1} ELSE {})
  BY <1>2, <1>3, <1>4, <1>5 DEF Exits
<1>8. Entries(w) \subseteq 2 .. n /\ Exits(w) \subseteq 2 .. n
  BY DEF Entries, Exits
<1> QED  BY <1>1, <1>2, <1>6, <1>7, <1>8

\* What is registered for the last entry, or exit, is replaced by the side of
\* the new one, and kept when there is none.
LEMMA MarksStep ==
  ASSUME NEW h \in Human, NEW w \in Seq(Positions), NEW p \in Positions,
         OnPath(h, w), NEW d \in CountDirection(Outside(Moved(h, p)))
  PROVE  LET c == Marked(Moved(h, p), d)
         IN  /\ EnterMarked(c.enterdir, Append(w, p))
             /\ ExitMarked(c.exitdir, Append(w, p))
<1>1. PICK n \in Nat : n = Len(w)
  OBVIOUS
<1>2. PICK v : v = Append(w, p)
  OBVIOUS
<1>3. n >= 1
  BY <1>1, EmptySeq DEF OnPath
<1>4. /\ v[n + 1] = p /\ \A j \in 1 .. n : v[j] = w[j]
      /\ Entries(w) \subseteq 2 .. n /\ Exits(w) \subseteq 2 .. n
      /\ Entries(v) =
           Entries(w) \cup (IF ~InCountArea(w[n]) /\ InCountArea(p) THEN {n + 1} ELSE {})
      /\ Exits(v) =
           Exits(w) \cup (IF InCountArea(w[n]) /\ ~InCountArea(p) THEN {n + 1} ELSE {})
  BY <1>1, <1>2, <1>3, CrossingsStep
<1>5. h.pos = w[n] /\ h.pos \in [x : Int, y : Int] /\ p \in [x : Int, y : Int]
  BY <1>1, HumanCounterAssumption DEF OnPath, Human
<1>6. PICK c : c = Marked(Moved(h, p), d)
  OBVIOUS
<1>a. PICK m \in Human : m = Moved(h, p)
  BY MovedType
<1>b. /\ m.pos = p /\ m.pre = h.pos /\ m.enterdir = h.enterdir /\ m.exitdir = h.exitdir
  BY <1>a, MovedFields
<1>c. /\ c.enterdir = IF Entering(m) THEN d ELSE m.enterdir
      /\ c.exitdir = IF Exiting(m) THEN d ELSE m.exitdir
  BY <1>6, <1>a, MarkedFields
<1>7. /\ c.enterdir = IF InCountArea(p) /\ ~InCountArea(w[n])
                        THEN d ELSE h.enterdir
      /\ c.exitdir = IF ~InCountArea(p) /\ InCountArea(w[n])
                       THEN d ELSE h.exitdir
  BY <1>5, <1>b, <1>c DEF Entering, Exiting
<1>8. \A S \in SUBSET (2 .. n) : IsLast(n + 1, S \cup {n + 1})
  BY DEF IsLast
<1>9. EnterMarked(c.enterdir, v)
  <2>1. CASE InCountArea(p) /\ ~InCountArea(w[n])
    <3>1. IsLast(n + 1, Entries(v))
      BY <1>4, <1>8, <2>1
    <3>a. n + 1 - 1 = n /\ n \in 1 .. n
      BY <1>3
    <3>b. v[n + 1 - 1] = w[n]
      BY <1>4, <3>a
    <3>2. c.enterdir \in Facing(w[n])
      <4>1. Outside(m) = w[n]
        BY <1>5, <1>b, <2>1 DEF Outside, Entering
      <4>2. d \in CountDirection(w[n])
        BY <1>a, <4>1
      <4>3. CountDirection(w[n]) \subseteq Facing(w[n])
        BY <1>5, <2>1, CountDirectionFaces
      <4> QED  BY <1>7, <2>1, <4>2, <4>3
    <3>3. Entries(v) # {}
      BY <3>1 DEF IsLast
    <3> QED  BY <3>1, <3>b, <3>2, <3>3 DEF EnterMarked
  <2>2. CASE ~(InCountArea(p) /\ ~InCountArea(w[n]))
    <3>1. Entries(v) = Entries(w) /\ c.enterdir = h.enterdir
      BY <1>4, <1>7, <2>2
    <3>2. ASSUME NEW k, IsLast(k, Entries(w))
          PROVE  v[k - 1] = w[k - 1]
      BY <1>4, <3>2 DEF IsLast
    <3>3. EnterMarked(h.enterdir, w)
      BY DEF OnPath
    <3> QED  BY <3>1, <3>2, <3>3 DEF EnterMarked
  <2> QED  BY <2>1, <2>2
<1>10. ExitMarked(c.exitdir, v)
  <2>1. CASE ~InCountArea(p) /\ InCountArea(w[n])
    <3>1. IsLast(n + 1, Exits(v)) /\ v[n + 1] = p
      BY <1>4, <1>8, <2>1
    <3>2. c.exitdir \in Facing(p)
      <4>1. Outside(m) = p
        BY <1>b, <2>1 DEF Outside, Entering
      <4>2. d \in CountDirection(p)
        BY <1>a, <4>1
      <4>3. CountDirection(p) \subseteq Facing(p)
        BY <1>5, <2>1, CountDirectionFaces
      <4> QED  BY <1>7, <2>1, <4>2, <4>3
    <3> QED  BY <3>1, <3>2 DEF ExitMarked, IsLast
  <2>2. CASE ~(~InCountArea(p) /\ InCountArea(w[n]))
    <3>1. Exits(v) = Exits(w) /\ c.exitdir = h.exitdir
      BY <1>4, <1>7, <2>2
    <3>2. ASSUME NEW k, IsLast(k, Exits(w))
          PROVE  v[k] = w[k]
      BY <1>4, <3>2 DEF IsLast
    <3>3. ExitMarked(h.exitdir, w)
      BY DEF OnPath
    <3> QED  BY <3>1, <3>2, <3>3 DEF ExitMarked
  <2> QED  BY <2>1, <2>2
<1> QED  BY <1>2, <1>6, <1>9, <1>10

LEMMA OnPathStep ==
  ASSUME NEW h \in Human, NEW w, NEW p \in Positions, OnPath(h, w),
         NEW d \in CountDirection(Outside(Moved(h, p)))
  PROVE  OnPath(Marked(Moved(h, p), d), Append(w, p))
<1>1. w \in Seq(Positions) /\ w # << >> /\ h.pos = w[Len(w)] /\ Ringed(h, w)
  BY DEF OnPath
<1>2. PICK c : c = Marked(Moved(h, p), d)
  OBVIOUS
<1>3. /\ c.pos = p /\ c.track = Moved(h, p).track
      /\ c.nexttrack = Moved(h, p).nexttrack /\ c.trackcnt = Moved(h, p).trackcnt
  <2>1. PICK m \in Human : m = Moved(h, p)
    BY MovedType
  <2>2. m.pos = p
    BY <2>1, MovedFields
  <2> QED  BY <1>2, <2>1, <2>2, MarkedFields
<1>4. Ringed(Moved(h, p), Append(w, p))
  BY <1>1, RingStep
<1>5. Ringed(c, Append(w, p))
  BY <1>3, <1>4 DEF Ringed, Slot
<1>6. /\ Append(w, p) \in Seq(Positions) /\ Append(w, p) # << >>
      /\ Append(w, p)[Len(Append(w, p))] = p
  BY <1>1, AppendProperties
<1>7. EnterMarked(c.enterdir, Append(w, p)) /\ ExitMarked(c.exitdir, Append(w, p))
  BY <1>1, <1>2, MarksStep
<1> QED  BY <1>2, <1>3, <1>5, <1>6, <1>7 DEF OnPath

\* A path begins where the human is first seen.
LEMMA OnPathFirst ==
  ASSUME NEW p \in Positions, NEW d
  PROVE  OnPath(Marked(NewHuman(p), d), <<p>>)
<1>1. NewHuman(p) \in Human
  BY NewHumanType
<1>2. PICK c : c = Marked(NewHuman(p), d)
  OBVIOUS
<1>3. /\ c.pos = p /\ c.nexttrack = 0 /\ c.trackcnt = 0
      /\ c.enterdir = COUNT_NO /\ c.exitdir = COUNT_NO
  BY <1>1, <1>2, MarkedFields DEF NewHuman, Entering, Exiting
<1>4. PICK w : w = <<p>>
  OBVIOUS
<1>5. w \in Seq(Positions) /\ Len(w) = 1 /\ w[1] = p /\ w # << >>
  BY <1>4
<1>6. Entries(w) = {} /\ Exits(w) = {}
  BY <1>5 DEF Entries, Exits
<1>7. Ringed(c, w)
  BY <1>3, <1>5, HumanCounterAssumption DEF Ringed
<1> QED  BY <1>2, <1>3, <1>4, <1>5, <1>6, <1>7 DEF OnPath, EnterMarked, ExitMarked

LEMMA PathInvInit == Init => PathInv
  BY DEF Init, PathInv

LEMMA PathInvNext == IInv /\ PathInv /\ [Next]_vars => PathInv'
<1> SUFFICES ASSUME IInv, PathInv, [Next]_vars PROVE PathInv'
  OBVIOUS
<1>1. CASE CatchAndCount
  <2> DEFINE humans == m_framehumans.humans
             caught == CatchHumans(m_apphumans, humans)
  <2>a. PICK dir \in [DOMAIN humans -> Dirs] :
          /\ \A id \in DOMAIN humans : dir[id] \in CountDirection(Outside(caught[id]))
          /\ m_apphumans' = [id \in DOMAIN humans |-> Marked(caught[id], dir[id])]
    BY <1>1, CountAll
  <2>1. path' = Walked(m_apphumans, humans)
    BY <1>1 DEF CatchAndCount
  <2>2. PeopleIn(m_apphumans, Human) /\ PeopleIn(humans, Positions)
    BY DEF IInv, TypeOK
  <2>3. ASSUME NEW id \in DOMAIN humans
        PROVE  OnPath(m_apphumans'[id], path'[id])
    <3>1. humans[id] \in Positions
      BY <2>2 DEF PeopleIn
    <3>2. CASE id \in DOMAIN m_apphumans
      <4>0. caught[id] = Moved(m_apphumans[id], humans[id])
        BY <3>2 DEF CatchHumans
      <4>1. /\ m_apphumans'[id] = Marked(Moved(m_apphumans[id], humans[id]), dir[id])
            /\ path'[id] = Append(path[id], humans[id])
            /\ dir[id] \in CountDirection(Outside(Moved(m_apphumans[id], humans[id])))
        BY <2>a, <2>1, <3>2, <4>0 DEF Walked
      <4>2. m_apphumans[id] \in Human /\ OnPath(m_apphumans[id], path[id])
        BY <2>2, <3>2 DEF PeopleIn, PathInv
      <4> QED  BY <3>1, <4>1, <4>2, OnPathStep
    <3>3. CASE id \notin DOMAIN m_apphumans
      <4>1. /\ m_apphumans'[id] = Marked(NewHuman(humans[id]), dir[id])
            /\ path'[id] = <<humans[id]>>
        BY <2>a, <2>1, <3>3 DEF CatchHumans, Walked
      <4> QED  BY <3>1, <4>1, OnPathFirst
    <3> QED  BY <3>2, <3>3
  <2>4. DOMAIN m_apphumans' = DOMAIN humans /\ DOMAIN path' = DOMAIN humans
    BY <2>a, <2>1 DEF Walked
  <2> QED  BY <2>3, <2>4 DEF PathInv
<1>2. CASE UNCHANGED <<m_apphumans, path>>
  BY <1>2 DEF PathInv
<1>3. CASE NewFrame \/ UNCHANGED vars
  BY <1>2, <1>3 DEF NewFrame, vars, people
<1>4. CASE Poll \/ PollFails \/ ReadHumans \/ ReadHumansFails
  BY <1>2, <1>4 DEF Poll, PollFails, ReadHumans, ReadHumansFails, people
<1>5. CASE ReadDepth \/ ReadDepthFails
  BY <1>2, <1>5 DEF ReadDepth, ReadDepthFails, people
<1> QED  BY <1>1, <1>3, <1>4, <1>5 DEF Next, Proc

\* There is one last step.
LEMMA LastOfIs ==
  ASSUME NEW steps \in SUBSET Int, NEW k, IsLast(k, steps)
  PROVE  LastOf(steps) = k
<1>1. IsLast(LastOf(steps), steps)
  BY DEF LastOf, IsLast
<1>2. LastOf(steps) \in Int /\ k \in Int /\ LastOf(steps) <= k /\ k <= LastOf(steps)
  BY <1>1 DEF IsLast
<1> QED  BY <1>2

\* What CountHumans registered for a human is a side it lay beyond at the last
\* crossing on the whole path on which it was counted, up to the rounding next
\* to a corner (hlds_agent.cpp:228-330).
THEOREM DirsAreLastCrossingTheorem == Spec => []DirsAreLastCrossing
<1>1. ASSUME PathInv, NEW id \in DOMAIN m_apphumans
      PROVE  LET h == m_apphumans[id]
                 w == path[id]
             IN /\ IF Entries(w) = {} THEN h.enterdir = COUNT_NO
                   ELSE h.enterdir \in Facing(w[LastOf(Entries(w)) - 1])
                /\ IF Exits(w) = {} THEN h.exitdir = COUNT_NO
                   ELSE h.exitdir \in Facing(w[LastOf(Exits(w))])
  <2> DEFINE h == m_apphumans[id]
             w == path[id]
  <2>1. EnterMarked(h.enterdir, w) /\ ExitMarked(h.exitdir, w)
    BY <1>1 DEF PathInv, OnPath
  <2>2. Entries(w) \in SUBSET Int /\ Exits(w) \in SUBSET Int
    BY DEF Entries, Exits
  <2> HIDE DEF h, w
  <2>3. IF Entries(w) = {} THEN h.enterdir = COUNT_NO
        ELSE h.enterdir \in Facing(w[LastOf(Entries(w)) - 1])
    BY <2>1, <2>2, LastOfIs DEF EnterMarked
  <2>4. IF Exits(w) = {} THEN h.exitdir = COUNT_NO
        ELSE h.exitdir \in Facing(w[LastOf(Exits(w))])
    BY <2>1, <2>2, LastOfIs DEF ExitMarked
  <2> QED  BY <2>3, <2>4 DEF h, w
<1>2. PathInv => DirsAreLastCrossing
  BY <1>1 DEF DirsAreLastCrossing
<1> QED  BY <1>2, Inductive, PathInvInit, PathInvNext, PTL DEF Spec

LEMMA Wraps ==
  ASSUME NEW m \in Nat \ {0}, NEW x \in 0 .. m - 1
  PROVE  x % m = x /\ (x + m) % m = x
  OBVIOUS

LEMMA FunctionIsSeq ==
  ASSUME NEW S, NEW c \in Nat, NEW g \in [1 .. c -> S]
  PROVE  g \in Seq(S) /\ Len(g) = c
<1>1. g \in Seq(S)
  BY SeqDef
<1>2. 1 .. Len(g) = 1 .. c /\ Len(g) \in Nat
  BY <1>1, LenProperties
<1> QED  BY <1>1, <1>2

\* The points DrawHumans takes out of a ring are the last of the path.
LEMMA LineIsRecent ==
  ASSUME NEW h \in Human, NEW w, OnPath(h, w)
  PROVE  LET before == Len(w) - 1
         IN  /\ TrackLine(h) = SubSeq(w, before - h.trackcnt + 1, before)
             /\ h.trackcnt = (IF before < MAX_TRACKS THEN before ELSE MAX_TRACKS)
<1>1. PICK n \in Nat : n = Len(w)
  BY DEF OnPath
<1>2. w \in Seq(Positions) /\ n >= 1
  BY <1>1, EmptySeq DEF OnPath
<1>3. PICK c \in 0 .. MAX_TRACKS : c = h.trackcnt
  BY DEF Human
<1>4. PICK N \in 0 .. MAX_TRACKS - 1 : N = h.nexttrack
  BY DEF Human
<1>5. PICK M \in Nat \ {0} : M = MAX_TRACKS
  BY HumanCounterAssumption
<1>6. /\ c = IF n - 1 < M THEN n - 1 ELSE M
      /\ c < M => N = c
      /\ \A a \in 1 .. c : h.track[Slot(h, a)] = w[n - a]
  BY <1>1, <1>3, <1>4, <1>5 DEF OnPath, Ringed
<1>7. PICK f : f = IF c = M THEN N ELSE 0
  OBVIOUS
<1>8. TrackLine(h) = [i \in 1 .. c |-> h.track[(f + i - 1) % M]]
  BY <1>3, <1>4, <1>5, <1>7 DEF TrackLine
<1>9. ASSUME NEW i \in 1 .. c
      PROVE  h.track[(f + i - 1) % M] = w[n - 1 - c + i] /\ n - 1 - c + i \in 1 .. n
  <2>1. PICK a \in 1 .. c : a = c - i + 1
    OBVIOUS
  <2>2. PICK x : x = Slot(h, a)
    OBVIOUS
  <2>3. x = IF a <= N THEN N - a ELSE N - a + M
    BY <1>4, <1>5, <2>2 DEF Slot
  <2>4. /\ N \in 0 .. M - 1 /\ c \in 0 .. M /\ n - a = n - 1 - c + i
        /\ n - a \in 1 .. n
    BY <1>2, <1>3, <1>4, <1>5, <1>6, <2>1
  <2>5. x \in 0 .. M - 1 /\ (f + i - 1 = x \/ f + i - 1 = x + M)
    <3>1. CASE c = M
      BY <1>7, <2>1, <2>3, <2>4, <3>1
    <3>2. CASE c # M
      BY <1>6, <1>7, <2>1, <2>3, <2>4, <3>2
    <3> QED  BY <3>1, <3>2
  <2>6. (f + i - 1) % M = x
    BY <2>5, Wraps
  <2> QED  BY <1>6, <2>2, <2>4, <2>6
<1>10. PICK t : t = SubSeq(w, n - 1 - c + 1, n - 1)
  OBVIOUS
<1>11. t \in Seq(Positions) /\ Len(t) = c /\ \A i \in 1 .. c : t[i] = w[n - 1 - c + i]
  <2>1. PICK lo \in Int, hi \in Int : lo = n - 1 - c + 1 /\ hi = n - 1
    BY <1>2
  <2>2. lo >= 1 /\ hi - lo + 1 = c /\ \A i \in 1 .. c : lo + i - 1 = n - 1 - c + i
    BY <1>2, <1>6, <2>1
  <2>3. \A j \in lo .. hi : w[j] \in Positions
    BY <1>1, <1>2, <2>1, <2>2
  <2>4. t = SubSeq(w, lo, hi)
    BY <1>10, <2>1
  <2>5. /\ t \in Seq(Positions)
        /\ Len(t) = IF lo <= hi THEN hi - lo + 1 ELSE 0
        /\ \A i \in 1 .. hi - lo + 1 : t[i] = w[lo + i - 1]
    BY <2>3, <2>4, SubSeqProperties
  <2>6. Len(t) = c
    <3>1. PICK l \in Nat : l = Len(t)
      <4>1. t \in Seq(Positions)
        BY <2>5
      <4> QED  BY <4>1
    <3>2. l = IF lo <= hi THEN hi - lo + 1 ELSE 0
      BY <2>5, <3>1
    <3>3. l = c
      BY <2>2, <3>2
    <3> QED  BY <3>1, <3>3
  <2> QED  BY <2>2, <2>5, <2>6
<1>12. TrackLine(h) \in Seq(Positions) /\ Len(TrackLine(h)) = c
  <2>1. ASSUME NEW i \in 1 .. c
        PROVE  h.track[(f + i - 1) % M] \in Positions
    <3>1. PICK j \in 1 .. Len(w) : h.track[(f + i - 1) % M] = w[j]
      BY <1>1, <1>9
    <3> QED  BY <1>2, <3>1, ElementOfSeq
  <2>2. TrackLine(h) \in [1 .. c -> Positions]
    BY <1>8, <2>1
  <2>3. c \in Nat
    BY <1>5
  <2> QED  BY <2>2, <2>3, FunctionIsSeq
<1>13. TrackLine(h) = t
  <2>1. \A i \in 1 .. c : TrackLine(h)[i] = t[i]
    BY <1>8, <1>9, <1>11
  <2> QED  BY <1>11, <1>12, <2>1, SeqEqual
<1> QED  BY <1>1, <1>3, <1>5, <1>6, <1>10, <1>13

\* The line that DrawHumans draws is the recent path, oldest point first, for
\* every size of the ring and however often it has wrapped
\* (hlds_agent.cpp:178-195, 366-390).
THEOREM TrackIsRecentPathTheorem == Spec => []TrackIsRecentPath
<1>1. IInv /\ PathInv => TrackIsRecentPath
  BY LineIsRecent DEF IInv, TypeOK, PeopleIn, PathInv, TrackIsRecentPath
<1> QED  BY <1>1, Inductive, PathInvInit, PathInvNext, PTL DEF Spec

=============================================================================
