----------------------------- MODULE WakePolicy -----------------------------
(***************************************************************************)
(* What a failed turn does to an Agent's automatic wakes: back off, then   *)
(* pause and probe (agent-delivery/wake-pause.ts, retry-policy.ts,         *)
(* failure-policy.ts).  The policy is a pure function of the wake columns  *)
(* of the Agent's delivery row; AgentDelivery owns the row.                *)
(*                                                                         *)
(* Time is abstracted to what the dispatcher reads of it: `retry` names    *)
(* the wait `retry_after` was last set to while that instant lies ahead,   *)
(* is "due" once it has passed, and "none" while the column is null.  The  *)
(* jittered milliseconds of a wait are left out.                           *)
(***************************************************************************)
EXTENDS Naturals

CONSTANTS
  SameFailurePauseThreshold, \* same failure in a row that pauses (3)
  FailurePauseThreshold      \* counted failures in a row that pause (5)

ASSUME ThresholdsAssumption ==
  /\ SameFailurePauseThreshold \in Nat \ {0}
  /\ FailurePauseThreshold \in Nat \ {0}

NoFailure == "none"

\* The waits before a probe: 1h, then 4h, then 24h.
ProbeDelays == <<"probe-1h", "probe-4h", "probe-24h">>

Waits == {"short", "rate-limit", "probe-1h", "probe-4h", "probe-24h"}

NoStep == 3 \* pause_step is null
LastProbe == 2

Released ==
  [failures |-> 0, print |-> NoFailure, streak |-> 0, kind |-> NoFailure,
   code |-> NoFailure, paused |-> FALSE, step |-> NoStep, retry |-> "none"]

\* Mutation of IsBackedOff: the wait before a probe is overlooked.
IsBackedOffUnlessPaused(w) == w.retry \in {"short", "rate-limit"}

IsBackedOff(w) == w.retry \in Waits

ShouldRetry(kind) == kind \notin {"authentication", "configuration", "input"}

\* The failure columns after a failure that counts.
Counted(w, f) ==
  [w EXCEPT !.failures = @ + 1,
            !.print    = f.print,
            !.streak   = IF w.print = f.print THEN @ + 1 ELSE 1,
            !.kind     = f.kind,
            !.code     = f.code]

\* The delay before the probe of pause step k, k in 0..2.
ProbeDelay(k) == ProbeDelays[k + 1]

NextStep(w) == IF w.step < LastProbe THEN w.step + 1 ELSE LastProbe

\* Mutation of MustPause: each threshold pauses one failure late.
MustPauseLate(c, f) ==
  \/ ~ShouldRetry(f.kind)
  \/ c.streak > SameFailurePauseThreshold
  \/ c.failures > FailurePauseThreshold

MustPause(c, f) ==
  \/ ~ShouldRetry(f.kind)
  \/ c.streak >= SameFailurePauseThreshold
  \/ c.failures >= FailurePauseThreshold

\* The wake state a failed turn leaves behind.
NextWakeState(w, f) ==
  LET c == Counted(w, f) IN
    CASE f.kind = "rate-limit" -> [w EXCEPT !.retry = "rate-limit"]
      [] f.kind # "rate-limit" /\ w.paused ->
           [c EXCEPT !.step = NextStep(w), !.retry = ProbeDelay(NextStep(w))]
      [] f.kind # "rate-limit" /\ ~w.paused /\ MustPause(c, f) ->
           [c EXCEPT !.paused = TRUE, !.step = 0, !.retry = ProbeDelay(0)]
      [] OTHER -> [c EXCEPT !.retry = "short"]
=============================================================================
