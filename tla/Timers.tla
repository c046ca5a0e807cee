-------------------------------- MODULE Timers --------------------------------
(***************************************************************************)
(* The three timers of ScopStatistics (profiler/include/scop_profiler/     *)
(* Timers.h, profiler/lib/Timers.cpp).  A timer turns the moment t, counted *)
(* in ticks since the process started, into a timepoint, subtracts         *)
(* timepoints, and writes the difference as a JSON number.                 *)
(***************************************************************************)
EXTENDS Integers

CONSTANTS
  TscModulus,  \* 2^64 in the code: the time stamp counter is a uint64_t
  TscOrigin,   \* what the time stamp counter shows when the process starts
  NsecPerSec,  \* 10^9 in the code
  Event        \* the PAPI events named in the configuration file

ASSUME TimersAssumption ==
  /\ TscModulus \in Nat \ {0}
  /\ TscOrigin \in 0 .. TscModulus - 1
  /\ NsecPerSec \in Nat \ {0}

-----------------------------------------------------------------------------
(* RDTSCTimer: a counter of TscModulus values that wraps around. *)

RDTSCNow(t) == (TscOrigin + t) % TscModulus

\* Wrong: a signed difference, which does not wrap around.
RDTSCSubSigned(end_t, beg_t) == end_t - beg_t

\* uint64_t - uint64_t
RDTSCSub(end_t, beg_t) == (end_t - beg_t) % TscModulus

-----------------------------------------------------------------------------
(* ClockTimer: a timespec, seconds and nanoseconds. *)

Timespec == [tv_sec : Nat, tv_nsec : 0 .. NsecPerSec - 1]

ClockNow(t) == [tv_sec |-> t \div NsecPerSec, tv_nsec |-> t % NsecPerSec]

\* Wrong: no second is borrowed.
ClockSubWithoutBorrow(end_time, beg_time) ==
  [tv_sec  |-> end_time.tv_sec - beg_time.tv_sec,
   tv_nsec |-> end_time.tv_nsec - beg_time.tv_nsec]

\* operator-: subtract field by field, then borrow a second if need be.
ClockSub(end_time, beg_time) ==
  LET sec  == end_time.tv_sec - beg_time.tv_sec
      nsec == end_time.tv_nsec - beg_time.tv_nsec
  IN  IF nsec < 0
      THEN [tv_sec |-> sec - 1, tv_nsec |-> nsec + NsecPerSec]
      ELSE [tv_sec |-> sec, tv_nsec |-> nsec]

ClockToJson(dur) == NsecPerSec * dur.tv_sec + dur.tv_nsec

-----------------------------------------------------------------------------
(* PAPITimer: one counter per configured event.  Every event is taken to   *)
(* count one per tick: the code treats the counters alike.                 *)

PAPINow(t) == [e \in Event |-> t]

PAPISub(end_time, beg_time) == [e \in Event |-> end_time[e] - beg_time[e]]

-----------------------------------------------------------------------------
(* The tuple of all timers, as Statistics handles it. *)

\* getCurrentTimepoints: hana::transform of now() over the timers
Timepoints(t) ==
  [RDTSC |-> RDTSCNow(t), Clock |-> ClockNow(t), PAPI |-> PAPINow(t)]

\* hana::zip_with of operator- over the timers
Elapsed(new_times, last_times) ==
  [RDTSC |-> RDTSCSub(new_times.RDTSC, last_times.RDTSC),
   Clock |-> ClockSub(new_times.Clock, last_times.Clock),
   PAPI  |-> PAPISub(new_times.PAPI, last_times.PAPI)]

\* hana::zip_with of to_json over the timers
TimersToJson(dur) ==
  [RDTSC |-> dur.RDTSC, Clock |-> ClockToJson(dur.Clock), PAPI |-> dur.PAPI]

Timepoint ==
  [RDTSC : 0 .. TscModulus - 1, Clock : Timespec, PAPI : [Event -> Nat]]

\* A difference of arbitrary timepoints may be negative in seconds and events.
Duration ==
  [RDTSC : 0 .. TscModulus - 1,
   Clock : [tv_sec : Int, tv_nsec : 0 .. NsecPerSec - 1],
   PAPI  : [Event -> Int]]
=============================================================================
