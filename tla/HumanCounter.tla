---------------------------- MODULE HumanCounter ----------------------------
(***************************************************************************)
(* The people counter of one hlds_agent: Proc polls the sensor, reads a    *)
(* frame of humans and a frame of depth data, matches the humans with the  *)
(* ones it knows (CatchHumans) and counts who crossed the border of the    *)
(* count area (CountHumans).                                               *)
(*                                                                         *)
(* The sensor runs on its own: a new frame may arrive between any two      *)
(* calls of the SDK, and every call may fail.  The humans of one frame     *)
(* have distinct ids, so a list of humans is a function from ids.          *)
(*                                                                         *)
(* Positions are floats, which are whole multiples of a small enough unit; *)
(* InCountArea compares them exactly.  The diagonals of CountDirection are *)
(* rounded: a comparison with one has either outcome wherever the exact    *)
(* one is closer than the rounding error.                                  *)
(***************************************************************************)
EXTENDS Integers, FiniteSets, Sequences

CONSTANTS
  Ids,           \* ids the SDK gives to detected humans
  UNIT,          \* units of length in one mm
  ROUNDING,      \* bound on the error of y1 and y2 over Positions, in units
  Positions,     \* where a human may stand: records [x, y], in units
  MAX_TRACKS,    \* points in a track ring
  MaxFrames      \* bound: frames the sensor produces

ASSUME HumanCounterAssumption ==
  /\ IsFiniteSet(Ids)
  /\ UNIT \in Nat \ {0}
  /\ ROUNDING \in Nat /\ ROUNDING < 141 * UNIT  \* half the height of the area
  /\ Positions \subseteq [x : Int, y : Int]
  /\ MAX_TRACKS \in Nat \ {0}
  /\ MaxFrames \in Nat

VARIABLES
  latest,        \* number of the newest frame the SDK received, 0: none yet
  seen,          \* the humans in that frame: a function from ids to positions
  pc,            \* the call Proc makes next
  m_framehumans, \* the humans frame last read: [framenumber, humans]
  m_frame,       \* number of the depth frame last read
  m_apphumans,   \* humans managed by the application, by id
  m_Count,       \* Enter, Exit, TotalEnter, TotalExit, InArea
  path,          \* history: where each managed human has been counted
  gone,          \* history: [enter, exit] of humans no longer managed
  counted,       \* history: number of the humans frame counted last
  failed         \* history: an SDK call failed since that frame was counted

sensor == <<latest, seen>>
people == <<m_apphumans, m_Count, path, gone, counted>>
vars == <<latest, seen, pc, m_framehumans, m_frame, m_apphumans, m_Count,
          path, gone, counted, failed>>

COUNT_NO == -1
COUNT_UP == 0
COUNT_RIGHT == 1
COUNT_DOWN == 2
COUNT_LEFT == 3
Dirs == 0 .. 3

\* m_Count.Square in mm, as InitAgent sets it.
Square == [left_x |-> -3235, top_y |-> -3219, right_x |-> 3263, bottom_y |-> -2937]

Origin == [x |-> 0, y |-> 0]
Frames == UNION {[S -> Positions] : S \in SUBSET Ids}

-----------------------------------------------------------------------------
(* Geometry.                                                               *)

left == UNIT * Square.left_x
right == UNIT * Square.right_x
top == UNIT * Square.top_y
bottom == UNIT * Square.bottom_y

InCountArea(p) ==
  /\ left <= p.x /\ p.x <= right
  /\ top <= p.y /\ p.y <= bottom

\* The slopes a1 and -a2, 282 / 6498, in lowest terms.
Rise == 47
Run == 1083
Error == ROUNDING * Run

\* (y - y1) * Run and (y - y2) * Run, before rounding.
Below1(p) == (p.y - top) * Run - Rise * (p.x - left)
Below2(p) == (p.y - top) * Run - Rise * (right - p.x)

\* The directions CountDirection may return.  Its tests come in the order UP,
\* DOWN, LEFT, RIGHT, so only UP is returned when y = y1 = y2.
CountDirection(p) ==
  {d \in Dirs :
     \/ d = COUNT_UP /\ Below1(p) <= Error /\ Below2(p) <= Error
     \/ /\ d = COUNT_DOWN /\ Below1(p) >= -Error /\ Below2(p) >= -Error
        /\ Below1(p) > -Error \/ Below2(p) > -Error
     \/ d = COUNT_LEFT /\ Below1(p) > -Error /\ Below2(p) < Error
     \/ d = COUNT_RIGHT /\ Below1(p) < Error /\ Below2(p) > -Error}

-----------------------------------------------------------------------------
(* CatchHumans.                                                            *)

NewHuman(p) ==
  [pos |-> p, pre |-> p,
   track |-> [i \in 0 .. MAX_TRACKS - 1 |-> Origin],
   nexttrack |-> 0, trackcnt |-> 0,
   enterdir |-> COUNT_NO, exitdir |-> COUNT_NO]

\* Mutant: the new position goes into the track ring.
MovedTracksNew(h, p) ==
  [h EXCEPT !.pos = p,
            !.pre = h.pos,
            !.track[h.nexttrack] = p,
            !.nexttrack = IF @ + 1 = MAX_TRACKS THEN 0 ELSE @ + 1,
            !.trackcnt = IF @ + 1 > MAX_TRACKS THEN MAX_TRACKS ELSE @ + 1]

\* A human found again: the old position goes into the track ring.
Moved(h, p) ==
  [h EXCEPT !.pos = p,
            !.pre = h.pos,
            !.track[h.nexttrack] = h.pos,
            !.nexttrack = IF @ + 1 = MAX_TRACKS THEN 0 ELSE @ + 1,
            !.trackcnt = IF @ + 1 > MAX_TRACKS THEN MAX_TRACKS ELSE @ + 1]

\* The humans managed after a frame; the ones not in it are erased.
CatchHumans(apphumans, humans) ==
  [id \in DOMAIN humans |->
     IF id \in DOMAIN apphumans THEN Moved(apphumans[id], humans[id])
                                ELSE NewHuman(humans[id])]

-----------------------------------------------------------------------------
(* CountHumans.                                                            *)

Entering(h) == InCountArea(h.pos) /\ ~InCountArea(h.pre)
Exiting(h) == ~InCountArea(h.pos) /\ InCountArea(h.pre)

\* Mutant: the direction of an entry is taken from the place inside.
OutsideNow(h) == h.pos

\* The place a crossing is judged by: the one outside.
Outside(h) == IF Entering(h) THEN h.pre ELSE h.pos

\* What CountDirection returns for each of the humans.
Directions(hs) ==
  {dir \in [DOMAIN hs -> Dirs] :
     \A id \in DOMAIN hs : dir[id] \in CountDirection(Outside(hs[id]))}

\* Register the crossing.
Marked(h, d) ==
  [h EXCEPT !.enterdir = IF Entering(h) THEN d ELSE @,
            !.exitdir = IF Exiting(h) THEN d ELSE @]

\* Mutant: an earlier entry of the same human is not cancelled.
EnterCountsTwice(hs, dir, enter) ==
  [d \in Dirs |->
     enter[d] + Cardinality({id \in DOMAIN hs : Entering(hs[id]) /\ dir[id] = d})]

\* A human counted before has the earlier count cancelled.
EnterCounts(hs, dir, enter) ==
  [d \in Dirs |->
     enter[d]
       - Cardinality({id \in DOMAIN hs : Entering(hs[id]) /\ hs[id].enterdir = d})
       + Cardinality({id \in DOMAIN hs : Entering(hs[id]) /\ dir[id] = d})]

ExitCounts(hs, dir, exit) ==
  [d \in Dirs |->
     exit[d]
       - Cardinality({id \in DOMAIN hs : Exiting(hs[id]) /\ hs[id].exitdir = d})
       + Cardinality({id \in DOMAIN hs : Exiting(hs[id]) /\ dir[id] = d})]

Total(counts) == counts[0] + counts[1] + counts[2] + counts[3]

CountHumans(hs, dir, count) ==
  LET enter == EnterCounts(hs, dir, count.Enter)
      exit == ExitCounts(hs, dir, count.Exit)
  IN [Enter |-> enter, Exit |-> exit,
      TotalEnter |-> Total(enter), TotalExit |-> Total(exit),
      InArea |-> Cardinality({id \in DOMAIN hs : InCountArea(hs[id].pos)})]

-----------------------------------------------------------------------------
(* History: the path of each managed human, and the marks of the erased.   *)

Walked(apphumans, humans) ==
  [id \in DOMAIN humans |->
     IF id \in DOMAIN apphumans THEN Append(path[id], humans[id])
                                ELSE <<humans[id]>>]

Lost(apphumans, humans) == DOMAIN apphumans \ DOMAIN humans

Buried(apphumans, humans) ==
  LET lost == Lost(apphumans, humans)
  IN [enter |-> [d \in Dirs |-> gone.enter[d] +
                   Cardinality({id \in lost : apphumans[id].enterdir = d})],
      exit |-> [d \in Dirs |-> gone.exit[d] +
                   Cardinality({id \in lost : apphumans[id].exitdir = d})]]

-----------------------------------------------------------------------------
(* One turn of Proc, and the sensor.                                       *)

Init ==
  /\ latest = 0 /\ seen = << >>
  /\ pc = "poll"
  /\ m_framehumans = [framenumber |-> 0, humans |-> << >>]
  /\ m_frame = 0
  /\ m_apphumans = << >>
  /\ m_Count = [Enter |-> [d \in Dirs |-> 0], Exit |-> [d \in Dirs |-> 0],
                TotalEnter |-> 0, TotalExit |-> 0, InArea |-> 0]
  /\ path = << >>
  /\ gone = [enter |-> [d \in Dirs |-> 0], exit |-> [d \in Dirs |-> 0]]
  /\ counted = 0
  /\ failed = FALSE

NewFrame ==
  /\ latest < MaxFrames
  /\ latest' = latest + 1
  /\ seen' \in Frames
  /\ UNCHANGED <<pc, m_framehumans, m_frame, people, failed>>

\* Mutant: the number is compared with the humans frame, which is read first.
PollHumans ==
  /\ pc = "poll"
  /\ latest # m_framehumans.framenumber
  /\ pc' = "humans"
  /\ UNCHANGED <<sensor, m_framehumans, m_frame, people, failed>>

\* Mutant: a frame is due only every other time.
PollSkips ==
  /\ pc = "poll"
  /\ latest > m_frame + 1
  /\ pc' = "humans"
  /\ UNCHANGED <<sensor, m_framehumans, m_frame, people, failed>>

\* GetFrameStatus: a frame is read only if its number differs.
Poll ==
  /\ pc = "poll"
  /\ latest # m_frame
  /\ pc' = "humans"
  /\ UNCHANGED <<sensor, m_framehumans, m_frame, people, failed>>

\* The result of GetFrameStatus is not looked at: when it fails, frameno is
\* not initialised and may or may not look like a new frame.
PollFails ==
  /\ pc = "poll"
  /\ failed' = TRUE
  /\ pc' \in {"poll", "humans"}
  /\ UNCHANGED <<sensor, m_framehumans, m_frame, people>>

\* ReadFrame returns the newest frame, and waits if that one was read before.
ReadHumans ==
  /\ pc = "humans"
  /\ latest > m_framehumans.framenumber
  /\ m_framehumans' = [framenumber |-> latest, humans |-> seen]
  /\ pc' = "depth"
  /\ UNCHANGED <<sensor, m_frame, people, failed>>

ReadHumansFails ==
  /\ pc = "humans"
  /\ failed' = TRUE
  /\ pc' = "poll"
  /\ UNCHANGED <<sensor, m_framehumans, m_frame, people>>

\* The depth frame is the newest too, not the one of the humans just read.
ReadDepth ==
  /\ pc = "depth"
  /\ latest > m_frame
  /\ m_frame' = latest
  /\ pc' = "count"
  /\ UNCHANGED <<sensor, m_framehumans, people, failed>>

ReadDepthFails ==
  /\ pc = "depth"
  /\ failed' = TRUE
  /\ pc' = "poll"
  /\ UNCHANGED <<sensor, m_framehumans, m_frame, people>>

CatchAndCount ==
  /\ pc = "count"
  /\ LET humans == m_framehumans.humans IN
     \E caught \in {CatchHumans(m_apphumans, humans)} :
        /\ \E dir \in Directions(caught) :
             /\ m_apphumans' = [id \in DOMAIN humans |-> Marked(caught[id], dir[id])]
             /\ m_Count' = CountHumans(caught, dir, m_Count)
        /\ path' = Walked(m_apphumans, humans)
        /\ gone' = Buried(m_apphumans, humans)
  /\ counted' = m_framehumans.framenumber
  /\ failed' = FALSE
  /\ pc' = "poll"
  /\ UNCHANGED <<sensor, m_framehumans, m_frame>>

Proc ==
  \/ Poll \/ PollFails \/ ReadHumans \/ ReadHumansFails
  \/ ReadDepth \/ ReadDepthFails \/ CatchAndCount

Next == NewFrame \/ Proc

\* The calls that succeed.
Progress == Poll \/ ReadHumans \/ ReadDepth \/ CatchAndCount

\* The worker keeps running Proc, so a call that can succeed is made again or
\* fails; the sensor owes no frame and no failure.
Spec == Init /\ [][Next]_vars
FairSpec == Spec /\ WF_vars(Progress)

-----------------------------------------------------------------------------

Human ==
  [pos : Positions, pre : Positions,
   track : [0 .. MAX_TRACKS - 1 -> Positions \cup {Origin}],
   nexttrack : 0 .. MAX_TRACKS - 1, trackcnt : 0 .. MAX_TRACKS,
   enterdir : Dirs \cup {COUNT_NO}, exitdir : Dirs \cup {COUNT_NO}]

PeopleIn(f, S) == DOMAIN f \subseteq Ids /\ f \in [DOMAIN f -> S]

TypeOK ==
  /\ latest \in 0 .. MaxFrames /\ PeopleIn(seen, Positions)
  /\ pc \in {"poll", "humans", "depth", "count"}
  /\ m_framehumans.framenumber \in 0 .. MaxFrames
  /\ PeopleIn(m_framehumans.humans, Positions)
  /\ m_frame \in 0 .. MaxFrames
  /\ PeopleIn(m_apphumans, Human)
  /\ m_Count \in [Enter : [Dirs -> Int], Exit : [Dirs -> Int],
                  TotalEnter : Int, TotalExit : Int, InArea : Nat]
  /\ gone \in [enter : [Dirs -> Nat], exit : [Dirs -> Nat]]
  /\ counted \in 0 .. MaxFrames
  /\ failed \in BOOLEAN

\* Humans managed now whose last entry (exit) was registered as d.
EnteredBy(d) == {id \in DOMAIN m_apphumans : m_apphumans[id].enterdir = d}
ExitedBy(d) == {id \in DOMAIN m_apphumans : m_apphumans[id].exitdir = d}

\* Enter[d] and Exit[d] count people, each in the direction registered for
\* them last, whatever they crossed before and whoever has left the picture:
\* the cancellation in CountHumans never loses or invents a count.
CountsConserved ==
  \A d \in Dirs :
    /\ m_Count.Enter[d] = gone.enter[d] + Cardinality(EnteredBy(d))
    /\ m_Count.Exit[d] = gone.exit[d] + Cardinality(ExitedBy(d))

\* Where the rounding reaches: next to a corner of the count area.
NearX(p, x) == -Error <= Rise * (p.x - x) /\ Rise * (p.x - x) <= Error
NearY(p, y) == -ROUNDING <= p.y - y /\ p.y - y <= ROUNDING
AtCorner(p) ==
  /\ NearX(p, left) \/ NearX(p, right)
  /\ NearY(p, top) \/ NearY(p, bottom)

\* The sides of the count area that p lies beyond, and next to a corner the
\* two sides that meet there.
Facing(p) ==
  {d \in Dirs :
     \/ d = COUNT_UP /\ (p.y < top \/ (AtCorner(p) /\ NearY(p, top)))
     \/ d = COUNT_DOWN /\ (p.y > bottom \/ (AtCorner(p) /\ NearY(p, bottom)))
     \/ d = COUNT_LEFT /\ (p.x < left \/ (AtCorner(p) /\ NearX(p, left)))
     \/ d = COUNT_RIGHT /\ (p.x > right \/ (AtCorner(p) /\ NearX(p, right)))}

\* The steps of a path that lead from outside to inside, or out again.
Entries(w) == {i \in 2 .. Len(w) : ~InCountArea(w[i - 1]) /\ InCountArea(w[i])}
Exits(w) == {i \in 2 .. Len(w) : InCountArea(w[i - 1]) /\ ~InCountArea(w[i])}

LastOf(steps) == CHOOSE i \in steps : \A j \in steps : j <= i

\* What is registered for a human is a side it lay beyond at the last border
\* crossing on the path on which it was counted (or, as close to a corner as
\* the rounding, the other side there), and nothing if it never crossed.
DirsAreLastCrossing ==
  \A id \in DOMAIN m_apphumans :
    LET h == m_apphumans[id]
        w == path[id]
    IN /\ IF Entries(w) = {} THEN h.enterdir = COUNT_NO
          ELSE h.enterdir \in Facing(w[LastOf(Entries(w)) - 1])
       /\ IF Exits(w) = {} THEN h.exitdir = COUNT_NO
          ELSE h.exitdir \in Facing(w[LastOf(Exits(w))])

\* The order in which DrawHumans reads the track ring.
TrackLine(h) ==
  LET first == IF h.trackcnt = MAX_TRACKS THEN h.nexttrack ELSE 0
  IN [i \in 1 .. h.trackcnt |-> h.track[(first + i - 1) % MAX_TRACKS]]

\* The line that DrawHumans draws is the recent path, oldest point first, up
\* to the position before the current one.
TrackIsRecentPath ==
  \A id \in DOMAIN m_apphumans :
    LET h == m_apphumans[id]
        before == Len(path[id]) - 1
    IN TrackLine(h) = SubSeq(path[id], before - h.trackcnt + 1, before)
       /\ h.trackcnt = (IF before < MAX_TRACKS THEN before ELSE MAX_TRACKS)

\* Proc waits inside ReadFrame only after a call of the SDK has failed: the
\* number it polls is compared with the frame it reads last, so neither of
\* the two reads finds that it has the newest frame already.
ReadsNeverWait ==
  /\ pc = "humans" /\ ~failed => latest > m_framehumans.framenumber
  /\ pc = "depth" /\ ~failed => latest > m_frame

\* No humans frame is counted twice, and none after a newer one, also when
\* reads fail in between.
FramesCountedInOrder == [][CatchAndCount => counted' > counted]_vars

\* A new frame number is noticed: Proc gets to that frame or a later one,
\* unless an SDK call fails.
NewFrameIsRead ==
  \A n \in 1 .. MaxFrames : latest >= n ~> (m_frame >= n \/ failed)

=============================================================================
