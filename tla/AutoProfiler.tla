----------------------------- MODULE AutoProfiler -----------------------------
(***************************************************************************)
(* The scheduler of the Node producer (examples/auto-profiler/             *)
(* auto-profiler.js): start(), stop(), the timer between sessions and the  *)
(* session that captures a profile and uploads it.  JavaScript runs one    *)
(* callback at a time, so a step is what runs between two awaits.          *)
(*                                                                         *)
(* clearTimeout only cancels the timer that _timer refers to; a timer that *)
(* fired leaves _timer as it is.  Each call of stop() arms a timer of its  *)
(* own, which is never cleared.                                            *)
(***************************************************************************)
EXTENDS Naturals, FiniteSets

CONSTANTS
  Timers,     \* identities of setTimeout timers
  Sessions,   \* identities of sessions
  Stops,      \* identities of stop() calls
  MaxStarts,  \* bound: start() calls that take effect
  Null

ASSUME ProfilerAssumption ==
  /\ MaxStarts \in Nat
  /\ Null \notin Timers \cup Sessions
\* Each effective start leaves at most one timer behind.
ASSUME EnoughTimers ==
  IsFiniteSet(Timers) /\ Cardinality(Timers) > MaxStarts + 1
ASSUME SomeSession == Sessions # {}

VARIABLES
  started,   \* _started
  timer,     \* _timer
  inFlight,  \* _inFlight
  loggedUploadError, \* _loggedUploadError
  pending,   \* timers that will fire
  phase,     \* phase[s] of session s: "off", "capture", "upload"
  awaits,    \* awaits[c]: the session that call c of stop() awaits, or Null
  cap,       \* cap[c]: the 5 s timer of call c: "off", "armed", "fired"
  starts,    \* history: start() calls that took effect
  overlap    \* history: one of them came while a session was in flight

profilerVars == <<started, timer, inFlight, loggedUploadError, pending, phase,
                  awaits, cap, starts, overlap>>

ProfilerInit ==
  /\ started = FALSE
  /\ timer = Null
  /\ inFlight = Null
  /\ loggedUploadError = FALSE
  /\ pending = {}
  /\ phase = [s \in Sessions |-> "off"]
  /\ awaits = [c \in Stops |-> Null]
  /\ cap = [c \in Stops |-> "off"]
  /\ starts = 0
  /\ overlap = FALSE

Running == {s \in Sessions : phase[s] # "off"}

-----------------------------------------------------------------------------
(* _scheduleNext, with the timers p that are pending before it. *)
ScheduleNext(on, p) ==
  IF ~on THEN pending' = p /\ UNCHANGED timer
  ELSE \E t \in {CHOOSE u \in Timers : u \notin p \cup {timer}} :
         pending' = p \cup {t} /\ timer' = t

(* start() returns at once when already started. *)
Start ==
  /\ ~started
  /\ starts < MaxStarts
  /\ starts' = starts + 1
  /\ overlap' = (overlap \/ inFlight # Null)
  /\ started' = TRUE
  /\ ScheduleNext(TRUE, pending)
  /\ UNCHANGED <<inFlight, loggedUploadError, phase, awaits, cap>>

(* Mutant of Stop: the session is awaited without a cap. *)
StopUncapped(c) ==
  /\ awaits[c] = Null /\ cap[c] = "off"
  /\ started' = FALSE
  /\ pending' = pending \ {timer}
  /\ timer' = Null
  /\ awaits' = [awaits EXCEPT ![c] = inFlight]
  /\ UNCHANGED <<inFlight, loggedUploadError, phase, cap, starts, overlap>>

(* stop(): no more timer.  A session in flight is awaited and the 5 s timer *)
(* armed; without one the call returns at once.                             *)
Stop(c) ==
  /\ awaits[c] = Null /\ cap[c] = "off"
  /\ started' = FALSE
  /\ pending' = pending \ {timer}
  /\ timer' = Null
  /\ awaits' = [awaits EXCEPT ![c] = inFlight]
  /\ cap' = IF inFlight = Null THEN cap ELSE [cap EXCEPT ![c] = "armed"]
  /\ UNCHANGED <<inFlight, loggedUploadError, phase, starts, overlap>>

(* The 5 s timer fires; the call may have returned by then. *)
CapFires(c) ==
  /\ cap[c] = "armed"
  /\ cap' = [cap EXCEPT ![c] = IF awaits[c] = Null THEN "off" ELSE "fired"]
  /\ UNCHANGED <<started, timer, inFlight, loggedUploadError, pending, phase,
                 awaits, starts, overlap>>

(* Mutant of Settled: the upload is not awaited. *)
SettledOnceCaptured(c) ==
  awaits[c] # Null /\ (phase[awaits[c]] # "capture" \/ cap[c] = "fired")

(* Promise.race is settled: by the end of the session, or by the timer. *)
Settled(c) == awaits[c] # Null /\ (phase[awaits[c]] = "off" \/ cap[c] = "fired")

StopReturns(c) ==
  /\ Settled(c)
  /\ awaits' = [awaits EXCEPT ![c] = Null]
  /\ cap' = [cap EXCEPT ![c] = IF @ = "fired" THEN "off" ELSE @]
  /\ UNCHANGED <<started, timer, inFlight, loggedUploadError, pending, phase,
                 starts, overlap>>

(* What follows a settled promise runs before the callback of any timer. *)
TimersMayFire == \A c \in Stops : ~Settled(c)

(* Mutant of Busy: the session in progress is not looked at. *)
NeverBusy == FALSE

(* _runSession looks whether a session is in progress. *)
Busy == inFlight # Null

(* A timer fires; the session is skipped, being in progress or sampled out. *)
FireIdle(t) ==
  /\ t \in pending /\ TimersMayFire
  /\ ScheduleNext(started, pending \ {t})
  /\ UNCHANGED <<started, inFlight, loggedUploadError, phase, awaits, cap, starts, overlap>>

(* A timer fires and a session starts; whether stop() came is not checked. *)
FireSession(t) ==
  /\ t \in pending /\ TimersMayFire
  /\ ~Busy
  /\ LET s == CHOOSE u \in Sessions : phase[u] = "off"
     IN inFlight' = s /\ phase' = [phase EXCEPT ![s] = "capture"]
  /\ pending' = pending \ {t}
  /\ UNCHANGED <<started, timer, loggedUploadError, awaits, cap, starts, overlap>>

(* captureProfile and JSON.stringify succeed; the upload begins. *)
Capture(s) ==
  /\ phase[s] = "capture"
  /\ phase' = [phase EXCEPT ![s] = "upload"]
  /\ UNCHANGED <<started, timer, inFlight, loggedUploadError, pending,
                 awaits, cap, starts, overlap>>

(* Mutants of Finally: the loop is not resumed; or resumed after stop(). *)
FinallyEndsLoop(s) ==
  /\ inFlight' = Null
  /\ phase' = [phase EXCEPT ![s] = "off"]
  /\ ScheduleNext(FALSE, pending)

FinallyAlwaysResumes(s) ==
  /\ inFlight' = Null
  /\ phase' = [phase EXCEPT ![s] = "off"]
  /\ ScheduleNext(TRUE, pending)

(* The finally block of a session. *)
Finally(s) ==
  /\ inFlight' = Null
  /\ phase' = [phase EXCEPT ![s] = "off"]
  /\ ScheduleNext(started, pending)

(* The upload succeeds. *)
Uploaded(s) ==
  /\ phase[s] = "upload"
  /\ loggedUploadError' = FALSE
  /\ Finally(s)
  /\ UNCHANGED <<started, awaits, cap, starts, overlap>>

(* _logUploadErrorOnce, but for the line it logs *)
LogUploadErrorOnce == loggedUploadError' = TRUE

(* Capturing or uploading throws. *)
Fails(s) ==
  /\ phase[s] # "off"
  /\ LogUploadErrorOnce
  /\ Finally(s)
  /\ UNCHANGED <<started, awaits, cap, starts, overlap>>

Session(s) == Capture(s) \/ Uploaded(s) \/ Fails(s)

ProfilerNext ==
  \/ Start
  \/ \E c \in Stops : Stop(c) \/ CapFires(c) \/ StopReturns(c)
  \/ \E t \in Timers : FireIdle(t) \/ FireSession(t)
  \/ \E s \in Sessions : Session(s)

ProfilerSpec == ProfilerInit /\ [][ProfilerNext]_profilerVars

(* Node fires timers and goes on after settled promises; uploads need not *)
(* end, callers are free.                                                 *)
ProfilerFairSpec ==
  /\ ProfilerSpec
  /\ \A c \in Stops : WF_profilerVars(CapFires(c)) /\ WF_profilerVars(StopReturns(c))

-----------------------------------------------------------------------------
(* Type invariant of the fields of AutoProfiler. *)
ProfilerTypeOK ==
  /\ started \in BOOLEAN
  /\ timer \in Timers \cup {Null}
  /\ inFlight \in Sessions \cup {Null}
  /\ loggedUploadError \in BOOLEAN
  /\ pending \subseteq Timers
  /\ phase \in [Sessions -> {"off", "capture", "upload"}]
  /\ awaits \in [Stops -> Sessions \cup {Null}]
  /\ cap \in [Stops -> {"off", "armed", "fired"}]
  /\ starts \in 0..MaxStarts
  /\ overlap \in BOOLEAN

(***************************************************************************)
(* At most one session profiles and uploads at a time, whatever timers     *)
(* were left behind, and _inFlight is that session.                        *)
(* (auto-profiler.js:186-209)                                              *)
(***************************************************************************)
OneSessionAtATime ==
  Running = (IF inFlight = Null THEN {} ELSE {inFlight})

(***************************************************************************)
(* A started profiler never falls silent: a timer is pending or a session  *)
(* runs that will set one.  (auto-profiler.js:152-209)                     *)
(***************************************************************************)
LoopNeverDies == started => pending # {} \/ Running # {}

(***************************************************************************)
(* As long as start() is not called while a session is in flight, there is *)
(* one timer pending or one session running while the profiler is started, *)
(* and no timer once it is stopped.                                        *)
(* (auto-profiler.js:93-96, 177-183, 204-207)                              *)
(***************************************************************************)
OneTimerOrSession ==
  ~overlap => IF started THEN Cardinality(pending) + Cardinality(Running) = 1
              ELSE pending = {}

(***************************************************************************)
(* No session begins once stop() was called and until start() is called    *)
(* again.  (auto-profiler.js:160 "Stop scheduling future sessions and      *)
(* await any in-progress session (capped).")                               *)
(***************************************************************************)
NoSessionAfterStop == [][Running' \subseteq Running \/ started]_profilerVars

(***************************************************************************)
(* A call of stop() that returns within 5 s leaves nothing behind: the     *)
(* session it found is over, uploads included, no other has begun and no   *)
(* timer is pending, whatever other calls of stop() came; unless start()   *)
(* came again, or had come during a session.                               *)
(* (auto-profiler.js:160, 163-172, 204-207)                                *)
(***************************************************************************)
StopLeavesNothing ==
  [][\A c \in Stops :
       awaits[c] # Null /\ awaits'[c] = Null /\ cap[c] # "fired" /\ ~started /\ ~overlap
         => Running = {} /\ pending = {}]_profilerVars

(***************************************************************************)
(* Every call of stop() returns, also when the upload in progress never    *)
(* ends: its own timer sees to it, whatever sessions and other calls do.   *)
(* (auto-profiler.js:169-172)                                              *)
(***************************************************************************)
StopTerminates == \A c \in Stops : awaits[c] # Null ~> awaits[c] = Null

-----------------------------------------------------------------------------
(* The inductive invariant of the proofs, in parts. *)
(* A start adds a timer or session; it then only changes form, or is cancelled. *)
TimersCounted == Cardinality(pending) + (IF inFlight = Null THEN 0 ELSE 1) <= starts

(* Before starts overlap with a session, _timer is the only timer there is. *)
TimerIsKnown ==
  ~overlap =>
    /\ pending \subseteq {timer}
    /\ started => (pending = {} <=> inFlight # Null)
    /\ ~started => pending = {}

(* A call awaits the session in flight, or none is until it returns. *)
AwaitsInFlight == \A c \in Stops : awaits[c] = Null \/ inFlight \in {Null, awaits[c]}

ProfilerIInv ==
  /\ ProfilerTypeOK
  /\ OneSessionAtATime /\ LoopNeverDies /\ TimersCounted /\ TimerIsKnown
  /\ AwaitsInFlight
=============================================================================
