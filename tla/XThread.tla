------------------------------ MODULE XThread ------------------------------
(***************************************************************************)
(* One xthread object: the worker loop Run, and the owner that calls       *)
(* Start, Stop and the destructor on it.                                   *)
(*                                                                         *)
(* None of the flags shared by the two sides is protected by a lock, so    *)
(* each read or write of a flag is a step of its own.  An object can be    *)
(* started again after Stop: every call of Start that creates a thread     *)
(* opens a new life, numbered 1, 2, ...; a worker is named by its life.    *)
(***************************************************************************)
EXTENDS Naturals

CONSTANTS
  Results,     \* what the overridden Proc can return: "ok", "error", "death"
  MaxStarts    \* bound: how many times the object is started

ASSUME XThreadAssumption ==
  /\ Results # {} /\ Results \subseteq {"ok", "error", "death"}
  /\ MaxStarts \in Nat

VARIABLES
  m_stop_flag,
  m_detach_at_destroy,
  m_thread_started,
  m_thread,            \* the life whose thread the handle holds, 0: not joinable
  run,                 \* where each life's worker is in Run
  owner,               \* where the owner is; "gone": the object is destroyed
  destroying,          \* the Stop in progress was called by the destructor
  starts               \* number of lives so far

flags == <<m_stop_flag, m_detach_at_destroy, m_thread_started, m_thread>>
vars == <<m_stop_flag, m_detach_at_destroy, m_thread_started, m_thread, run,
          owner, destroying, starts>>

Lives == 1 .. MaxStarts

\* "dying": Proc returned DEATH_CODE; "dead": the stop flag is set, the
\* detach flag is not yet.
WorkerPc == {"none", "check", "proc", "dying", "dead", "stamp", "exited"}
OwnerPc == {"idle", "choose", "join", "clear", "gone"}

Init ==
  /\ m_stop_flag = FALSE
  /\ m_detach_at_destroy = FALSE
  /\ m_thread_started = FALSE
  /\ m_thread = 0
  /\ run = [g \in Lives |-> "none"]
  /\ owner = "idle"
  /\ destroying = FALSE
  /\ starts = 0

-----------------------------------------------------------------------------
(* The owner.                                                              *)

\* Mutant: a second Start does not see that the thread is started.
StartAgain ==
  /\ owner = "idle"
  /\ starts < MaxStarts
  /\ m_stop_flag' = FALSE
  /\ starts' = starts + 1
  /\ m_thread' = starts + 1
  /\ run' = [run EXCEPT ![starts + 1] = "check"]
  /\ m_thread_started' = TRUE
  /\ UNCHANGED <<m_detach_at_destroy, owner, destroying>>

Start ==
  /\ owner = "idle" /\ ~m_thread_started
  /\ starts < MaxStarts
  /\ m_stop_flag' = FALSE
  /\ starts' = starts + 1
  /\ m_thread' = starts + 1
  /\ run' = [run EXCEPT ![starts + 1] = "check"]
  /\ m_thread_started' = TRUE
  /\ UNCHANGED <<m_detach_at_destroy, owner, destroying>>

\* Mutant: Stop joins without telling the worker to stop.
StopUnannounced ==
  /\ owner = "idle" /\ m_thread_started
  /\ destroying' \in BOOLEAN
  /\ owner' = "choose"
  /\ UNCHANGED <<flags, run, starts>>

\* Stop on a started object, from the owner's code or from ~xthread.
StopBegin ==
  /\ owner = "idle" /\ m_thread_started
  /\ destroying' \in BOOLEAN
  /\ m_stop_flag' = TRUE
  /\ owner' = "choose"
  /\ UNCHANGED <<m_detach_at_destroy, m_thread_started, m_thread, run, starts>>

StopDetach ==
  /\ owner = "choose" /\ m_detach_at_destroy
  /\ m_thread' = 0
  /\ owner' = "clear"
  /\ UNCHANGED <<m_stop_flag, m_detach_at_destroy, m_thread_started, run,
                 destroying, starts>>

StopChooseJoin ==
  /\ owner = "choose" /\ ~m_detach_at_destroy
  /\ owner' = "join"
  /\ UNCHANGED <<flags, run, destroying, starts>>

\* Mutant: Stop does not wait for the worker.
StopNoWait ==
  /\ owner = "join"
  /\ m_thread' = 0
  /\ owner' = "clear"
  /\ UNCHANGED <<m_stop_flag, m_detach_at_destroy, m_thread_started, run,
                 destroying, starts>>

StopJoin ==
  /\ owner = "join"
  /\ run[m_thread] = "exited"
  /\ m_thread' = 0
  /\ owner' = "clear"
  /\ UNCHANGED <<m_stop_flag, m_detach_at_destroy, m_thread_started, run,
                 destroying, starts>>

StopEnd ==
  /\ owner = "clear"
  /\ m_thread_started' = FALSE
  /\ owner' = IF destroying THEN "gone" ELSE "idle"
  /\ UNCHANGED <<m_stop_flag, m_detach_at_destroy, m_thread, run, destroying,
                 starts>>

\* Mutant: the destructor does not look whether the thread is started.
DestroyRunning ==
  /\ owner = "idle"
  /\ owner' = "gone"
  /\ UNCHANGED <<flags, run, destroying, starts>>

\* The destructor of an object whose thread is not started frees it at once.
Destroy ==
  /\ owner = "idle" /\ ~m_thread_started
  /\ owner' = "gone"
  /\ UNCHANGED <<flags, run, destroying, starts>>

-----------------------------------------------------------------------------
(* The worker of life g.                                                   *)

Goto(g, pc) == run' = [run EXCEPT ![g] = pc]

\* The loop condition.  The stop flag of a destroyed object is freed memory:
\* the read gives either value.  A loop turn that only waits for the next
\* CPS period changes nothing and is a stuttering step.
WorkerCheck(g) ==
  /\ run[g] = "check"
  /\ \E stop \in IF owner = "gone" THEN BOOLEAN ELSE {m_stop_flag} :
       Goto(g, IF stop THEN "exited" ELSE "proc")
  /\ UNCHANGED <<flags, owner, destroying, starts>>

WorkerProc(g) ==
  /\ run[g] = "proc"
  /\ \E r \in Results : Goto(g, IF r = "death" THEN "dying" ELSE "stamp")
  /\ UNCHANGED <<flags, owner, destroying, starts>>

WorkerSetStop(g) ==
  /\ run[g] = "dying"
  /\ m_stop_flag' = TRUE
  /\ Goto(g, "dead")
  /\ UNCHANGED <<m_detach_at_destroy, m_thread_started, m_thread, owner,
                 destroying, starts>>

WorkerSetDetach(g) ==
  /\ run[g] = "dead"
  /\ m_detach_at_destroy' = TRUE
  /\ Goto(g, "stamp")
  /\ UNCHANGED <<m_stop_flag, m_thread_started, m_thread, owner, destroying,
                 starts>>

\* m_last_com_tc = now.
WorkerStamp(g) ==
  /\ run[g] = "stamp"
  /\ Goto(g, "check")
  /\ UNCHANGED <<flags, owner, destroying, starts>>

Worker(g) ==
  \/ WorkerCheck(g) \/ WorkerProc(g)
  \/ WorkerSetStop(g) \/ WorkerSetDetach(g) \/ WorkerStamp(g)

Stop == StopDetach \/ StopChooseJoin \/ StopJoin \/ StopEnd

Next ==
  \/ Start \/ StopBegin \/ Stop \/ Destroy
  \/ \E g \in Lives : Worker(g)

\* The scheduler runs every thread, Proc returns, and a Stop that was entered
\* goes on; nobody is obliged to call Start, Stop or the destructor.
Fairness == WF_vars(Stop) /\ \A g \in Lives : WF_vars(Worker(g))

Spec == Init /\ [][Next]_vars
FairSpec == Spec /\ Fairness

-----------------------------------------------------------------------------

TypeOK ==
  /\ m_stop_flag \in BOOLEAN
  /\ m_detach_at_destroy \in BOOLEAN
  /\ m_thread_started \in BOOLEAN
  /\ m_thread \in 0 .. MaxStarts
  /\ run \in [Lives -> WorkerPc]
  /\ owner \in OwnerPc
  /\ destroying \in BOOLEAN
  /\ starts \in 0 .. MaxStarts

\* The object was started again and some life of it died: m_detach_at_destroy
\* is never reset, so nothing below is promised for such an object.
ReusedAfterDeath == starts > 1 /\ m_detach_at_destroy

Over(g) == run[g] \in {"none", "exited"}

\* Once Stop has returned no Proc of the object is running and none will be,
\* although Stop does not wait for a worker that it detaches.
StopQuiesces ==
  (~m_thread_started /\ owner \in {"idle", "clear"} /\ ~ReusedAfterDeath)
     => \A g \in Lives : run[g] \notin {"proc", "dying", "dead"}

\* Lives do not overlap: Start never creates a second worker beside one that
\* still runs.
OneWorker ==
  ~ReusedAfterDeath
     => \A g \in Lives : g # starts => Over(g)

\* A destroyed object is not touched by any worker, unless a worker died by
\* DEATH_CODE and was detached instead of joined.
FreedUntouched ==
  (owner = "gone" /\ ~m_detach_at_destroy) => \A g \in Lives : Over(g)

\* Stop returns.
StopReturns == owner = "choose" ~> owner \in {"idle", "gone"}

=============================================================================
