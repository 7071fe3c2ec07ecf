--------------------------- MODULE XThreadProofs ---------------------------
(***************************************************************************)
(* Safety of one xthread object, for every number of lives and every set   *)
(* of results Proc may return.  The invariants TLC checks are not          *)
(* inductive: what they say of a stopped object depends on how the handle, *)
(* the lives and the two flags are tied together while Stop runs.  IInv    *)
(* states those ties.                                                      *)
(***************************************************************************)
EXTENDS XThread, TLAPS

\* The handle holds the newest life from Start until Stop joins or detaches.
HandleInv ==
  /\ m_thread_started /\ owner # "clear" => m_thread = starts
  /\ ~m_thread_started \/ owner = "clear" => m_thread = 0
  /\ owner \in {"choose", "join", "clear"} => m_thread_started
  /\ m_thread_started => starts > 0
  /\ owner = "gone" => ~m_thread_started

\* Exactly the lives opened so far have a worker.
LivesInv == \A g \in Lives : run[g] = "none" <=> g > starts

\* While nothing has been detached, every life whose thread the handle no
\* longer holds is over.
JoinedInv ==
  ~m_detach_at_destroy => \A g \in Lives : g <= starts /\ g # m_thread
                                              => run[g] = "exited"

\* In its first life an object whose detach flag is set also has its stop
\* flag set, and its worker is past Proc and will leave at the next check.
FirstDeathInv ==
  starts <= 1 =>
    \A g \in Lives :
       /\ run[g] = "dead" => m_stop_flag
       /\ (m_detach_at_destroy /\ owner # "gone") =>
             m_stop_flag /\ run[g] \in {"none", "stamp", "check", "exited"}

NoDetachBeforeStart == starts = 0 => ~m_detach_at_destroy

IInv ==
  /\ TypeOK
  /\ HandleInv
  /\ LivesInv
  /\ JoinedInv
  /\ FirstDeathInv
  /\ NoDetachBeforeStart

-----------------------------------------------------------------------------

LEMMA InitIInv == Init => IInv
<1> SUFFICES ASSUME Init PROVE IInv
  OBVIOUS
<1> USE XThreadAssumption DEF Init
<1>1. TypeOK
  <2>1. run \in [Lives -> WorkerPc] /\ owner \in OwnerPc  BY DEF WorkerPc, OwnerPc
  <2>2. m_thread \in 0 .. MaxStarts /\ starts \in 0 .. MaxStarts  OBVIOUS
  <2>3. {m_stop_flag, m_detach_at_destroy, m_thread_started, destroying}
          \subseteq BOOLEAN
    BY ONLY Zenon, Init DEF Init
  <2> QED  BY ONLY <2>1, <2>2, <2>3, Zenon DEF TypeOK
<1>2. HandleInv
  <2>1. ~m_thread_started  BY ONLY Zenon, Init DEF Init
  <2>2. m_thread = 0 /\ owner \notin {"choose", "join", "clear", "gone"}  OBVIOUS
  <2> QED  BY ONLY <2>1, <2>2 DEF HandleInv
<1>3. LivesInv  BY DEF LivesInv, Lives
<1>4. JoinedInv  BY DEF JoinedInv, Lives
<1>5. FirstDeathInv  BY DEF FirstDeathInv, Lives
<1> QED  BY <1>1, <1>2, <1>3, <1>4, <1>5 DEF IInv, NoDetachBeforeStart

LEMMA StartIInv == IInv /\ Start => IInv'
<1> SUFFICES ASSUME IInv, Start PROVE IInv'
  OBVIOUS
<1> USE XThreadAssumption DEF Start, IInv, TypeOK, HandleInv, Lives, OwnerPc, WorkerPc
<1>1. TypeOK'
  <2>1. starts' \in 0 .. MaxStarts /\ m_thread' \in 0 .. MaxStarts  OBVIOUS
  <2>2. run' \in [Lives -> WorkerPc]  OBVIOUS
  <2> QED  BY <2>1, <2>2
<1>2. HandleInv'  OBVIOUS
<1>3. LivesInv'  BY DEF LivesInv
<1>4. JoinedInv'  BY DEF LivesInv, JoinedInv
<1>5. FirstDeathInv'  BY DEF LivesInv, FirstDeathInv, NoDetachBeforeStart
<1> QED  BY <1>1, <1>2, <1>3, <1>4, <1>5 DEF NoDetachBeforeStart

LEMMA OwnerIInv == IInv /\ (StopBegin \/ Stop \/ Destroy) => IInv'
<1> USE XThreadAssumption DEF IInv, TypeOK, HandleInv, LivesInv, JoinedInv,
     FirstDeathInv, NoDetachBeforeStart, WorkerPc, OwnerPc, Lives
<1>1. IInv /\ StopBegin => IInv'  BY DEF StopBegin
<1>2. IInv /\ StopDetach => IInv'  BY DEF StopDetach
<1>3. IInv /\ StopChooseJoin => IInv'  BY DEF StopChooseJoin, flags
<1>4. IInv /\ StopJoin => IInv'  BY DEF StopJoin
<1>5. IInv /\ StopEnd => IInv'
  <2> SUFFICES ASSUME IInv, StopEnd PROVE IInv'
    OBVIOUS
  <2> USE DEF StopEnd
  <2>1. TypeOK'  OBVIOUS
  <2>2. ~m_thread_started' /\ m_thread' = 0 /\ starts' = starts  OBVIOUS
  <2>3. HandleInv'  BY <2>2
  <2>4. LivesInv' /\ JoinedInv'  OBVIOUS
  <2>5. FirstDeathInv'  OBVIOUS
  <2> QED  BY <2>1, <2>3, <2>4, <2>5
<1>6. IInv /\ Destroy => IInv'  BY DEF Destroy, flags
<1> QED  BY <1>1, <1>2, <1>3, <1>4, <1>5, <1>6 DEF Stop

LEMMA WorkerIInv == ASSUME NEW g \in Lives, IInv, Worker(g) PROVE IInv'
<1> USE XThreadAssumption DEF IInv, TypeOK, HandleInv, LivesInv, JoinedInv,
     FirstDeathInv, NoDetachBeforeStart, WorkerPc, OwnerPc, Lives, Goto, flags
<1>1. CASE WorkerCheck(g)  BY <1>1 DEF WorkerCheck
<1>2. CASE WorkerProc(g)  BY <1>2 DEF WorkerProc
<1>3. CASE WorkerSetStop(g)  BY <1>3 DEF WorkerSetStop
<1>4. CASE WorkerSetDetach(g)  BY <1>4 DEF WorkerSetDetach
<1>5. CASE WorkerStamp(g)  BY <1>5 DEF WorkerStamp
<1> QED  BY <1>1, <1>2, <1>3, <1>4, <1>5 DEF Worker

LEMMA StutterIInv == IInv /\ UNCHANGED vars => IInv'
  BY DEF vars, IInv, TypeOK, HandleInv, LivesInv, JoinedInv, FirstDeathInv,
     NoDetachBeforeStart, WorkerPc, OwnerPc, Lives

\* IInv holds throughout every execution of the object.
THEOREM Inductive == Spec => []IInv
<1>1. IInv /\ [Next]_vars => IInv'
  BY StartIInv, OwnerIInv, WorkerIInv, StutterIInv DEF Next
<1> QED  BY InitIInv, <1>1, PTL DEF Spec

\* Every variable keeps its type.
THEOREM TypeCorrect == Spec => []TypeOK
<1>1. IInv => TypeOK  BY DEF IInv
<1> QED  BY Inductive, <1>1, PTL

\* A Stop that has returned leaves no Proc running, whether it joined the
\* worker or detached a worker that died.
THEOREM StopQuiescesTheorem == Spec => []StopQuiesces
<1>1. ASSUME IInv PROVE StopQuiesces
  <2> SUFFICES ASSUME ~m_thread_started, owner \in {"idle", "clear"},
                      ~ReusedAfterDeath, NEW g \in Lives
               PROVE  run[g] \notin {"proc", "dying", "dead"}
    BY DEF StopQuiesces
  <2>1. CASE m_detach_at_destroy
    BY <1>1, <2>1 DEF IInv, TypeOK, FirstDeathInv, ReusedAfterDeath, Lives
  <2>2. CASE ~m_detach_at_destroy
    BY <1>1, <2>2, XThreadAssumption
    DEF IInv, TypeOK, HandleInv, LivesInv, JoinedInv, Lives
  <2> QED  BY <2>1, <2>2
<1> QED  BY Inductive, <1>1, PTL

\* Two lives of an object never run at the same time.
THEOREM OneWorkerTheorem == Spec => []OneWorker
<1>1. ASSUME IInv PROVE OneWorker
  BY <1>1, XThreadAssumption
  DEF IInv, TypeOK, HandleInv, LivesInv, JoinedInv, FirstDeathInv, OneWorker,
      ReusedAfterDeath, Over, Lives
<1> QED  BY Inductive, <1>1, PTL

\* Workers of an object that never died are finished before its storage is
\* given back.
THEOREM FreedUntouchedTheorem == Spec => []FreedUntouched
<1>1. ASSUME IInv PROVE FreedUntouched
  BY <1>1, XThreadAssumption
  DEF IInv, TypeOK, HandleInv, LivesInv, JoinedInv, FreedUntouched, Over, Lives
<1> QED  BY Inductive, <1>1, PTL

=============================================================================
