----------------------------- MODULE IdleMonitor -----------------------------
(***************************************************************************)
(* The idle monitor (stream.go, idleMonitor): one goroutine reads the      *)
(* stream and calls the caller's code; the runtime's timer runs check on a *)
(* goroutine of its own, which cancels the request once the transport has  *)
(* been quiet for the timeout.  The two share last, paused and fired       *)
(* without a lock, one atomic access at a time; a step here is one of      *)
(* those accesses.                                                         *)
(*                                                                         *)
(* Time is the monitor's monotonic clock.  It passes while the loop waits  *)
(* in Read or in the caller's code, not within its own statements; the     *)
(* callback may lag behind by up to Lateness between its expiry and its    *)
(* end, however that time falls between its statements.                    *)
(***************************************************************************)
EXTENDS Integers

CONSTANTS
  Timeout,    (* idleMonitor.timeout                                         *)
  Lateness,   (* How long the scheduler may keep one callback waiting.       *)
  MaxTime     (* Bound: the last instant of a behaviour.                     *)

ASSUME MonitorAssumption ==
  /\ Timeout \in Nat \ {0}
  /\ Lateness \in Nat
  /\ Lateness < Timeout
  /\ MaxTime \in Nat

VARIABLES
  now,        (* idleMonitor.elapsed()                                       *)
  last,       (* idleMonitor.last                                            *)
  paused,     (* idleMonitor.paused                                          *)
  fired,      (* idleMonitor.fired                                           *)
  cancelled,  (* The derived context is cancelled.                           *)
  due,        (* When the timer expires; Never when it is not armed.         *)
  timer,      (* idleMonitor.timer is set.                                   *)
  loop,       (* Where the read loop is.                                     *)
  check,      (* Where the callback is; idle when it does not run.           *)
  reading,    (* The clock reading check took.                               *)
  after,      (* What check re-arms the timer with.                          *)
  ctxDone,    (* The caller's own context is done.                           *)
  why,        (* What made the last Read fail, or closed the stream.         *)
  reason      (* How Stream reported its end.                                *)

(* What the outside can measure. *)
VARIABLES
  quietSince, (* When bytes last arrived, or the caller's code last returned.*)
  gap,        (* The longest the loop has waited in one Read.                *)
  late        (* How long the callback has been due or running.              *)

monitor == <<last, paused, fired, due, timer>>
ending  == <<ctxDone, why, reason>>
checking == <<check, reading, after>>
ghosts  == <<quietSince, gap, late>>
vars == <<now, monitor, cancelled, loop, checking, ending, ghosts>>

Never == -1

Loops == {"reading", "delivered", "handling", "calling", "returned", "resuming",
          "failed", "stopped"}
Checks == {"idle", "started", "unpaused", "measured", "rearming", "expiring",
           "cancelling"}
\* The callback is due or under way.
Pending == check # "idle" \/ (due # Never /\ due <= now)

TypeOK ==
  /\ now \in Nat
  /\ last \in Nat
  /\ paused \in BOOLEAN
  /\ fired \in BOOLEAN
  /\ cancelled \in BOOLEAN
  /\ due \in Nat \union {Never}
  /\ timer \in BOOLEAN
  /\ loop \in Loops
  /\ check \in Checks
  /\ reading \in Nat
  /\ after \in Nat
  /\ ctxDone \in BOOLEAN
  /\ why \in {"none", "sentinel", "left", "caller", "monitor", "transport"}
  /\ reason \in {"none", "quiet", "idle", "context", "interrupted"}
  /\ quietSince \in Nat
  /\ gap \in Nat
  /\ late \in Nat

(* newIdleMonitorWithClock, and the first Read. *)
Init ==
  /\ now = 0
  /\ last = 0
  /\ paused = FALSE
  /\ fired = FALSE
  /\ cancelled = FALSE
  /\ due = Timeout
  /\ timer = TRUE
  /\ loop = "reading"
  /\ check = "idle"
  /\ reading = 0
  /\ after = 0
  /\ ctxDone = FALSE
  /\ why = "none"
  /\ reason = "none"
  /\ quietSince = 0
  /\ gap = 0
  /\ late = 0

-----------------------------------------------------------------------------
(* Time. *)

Longer(a, b) == IF a < b THEN b ELSE a

Tick ==
  /\ now < MaxTime
  /\ loop \in {"reading", "calling", "stopped"}
  /\ Pending => late < Lateness
  /\ now' = now + 1
  /\ late' = IF Pending THEN late + 1 ELSE 0
  /\ gap' = IF loop = "reading" THEN Longer(gap, now' - quietSince) ELSE gap
  /\ UNCHANGED <<monitor, cancelled, loop, checking, ending, quietSince>>

-----------------------------------------------------------------------------
(* The read loop. *)

Move(here, there) == loop = here /\ loop' = there
alive == last' = now
stop  == due' = Never /\ timer' = FALSE

\* monitoredReader.Read: the inner read delivers bytes, and then says so.
Deliver ==
  /\ Move("reading", "delivered")
  /\ quietSince' = now
  /\ UNCHANGED <<now, monitor, cancelled, checking, ending, gap, late>>

\* Progress is recorded when a frame completes, and not by every read.
BugRecordPerFrame ==
  /\ \/ Move("delivered", "handling") /\ alive
     \/ Move("delivered", "reading") /\ UNCHANGED last
  /\ UNCHANGED <<now, paused, fired, due, timer, cancelled, checking, ending, ghosts>>

RecordProgress ==
  /\ Move("delivered", "handling")
  /\ alive
  /\ UNCHANGED <<now, paused, fired, due, timer, cancelled, checking, ending, ghosts>>

\* The buffered lines are used up.
ReadMore ==
  /\ Move("handling", "reading")
  /\ UNCHANGED <<now, monitor, cancelled, checking, ending, ghosts>>

\* suspend, and a hook or a yield.
Suspend ==
  /\ Move("handling", "calling")
  /\ paused' = TRUE
  /\ UNCHANGED <<now, last, fired, due, timer, cancelled, checking, ending, ghosts>>

CallReturns ==
  /\ Move("calling", "returned")
  /\ quietSince' = now
  /\ UNCHANGED <<now, monitor, cancelled, checking, ending, gap, late>>

\* The two statements of resume.
ResumeAlive ==
  /\ Move("returned", "resuming")
  /\ alive
  /\ UNCHANGED <<now, paused, fired, due, timer, cancelled, checking, ending, ghosts>>

ResumeUnpause ==
  /\ Move("resuming", "handling")
  /\ paused' = FALSE
  /\ UNCHANGED <<now, last, fired, due, timer, cancelled, checking, ending, ghosts>>

\* A Read that fails, and why: external to the package.
ReadFails(cause) ==
  /\ Move("reading", "failed")
  /\ cause = "monitor" => cancelled
  /\ cause = "caller" => ctxDone
  /\ why' = cause
  /\ UNCHANGED <<now, monitor, cancelled, checking, ctxDone, reason, ghosts>>

CallerCancels ==
  /\ loop # "stopped"
  /\ ctxDone' = TRUE
  /\ UNCHANGED <<now, monitor, cancelled, loop, checking, why, reason, ghosts>>

\* The derived context is asked, which the monitor cancels as well.
BugDerivedContext ==
  /\ Move("failed", "stopped")
  /\ reason' = IF ctxDone \/ cancelled THEN "context" ELSE "interrupted"
  /\ stop
  /\ UNCHANGED <<now, last, paused, fired, cancelled, checking, ctxDone, why, ghosts>>

\* The endings of Stream that follow a failed Read, in its order.
ReportEnd ==
  /\ Move("failed", "stopped")
  /\ reason' = IF fired THEN "idle" ELSE IF ctxDone THEN "context" ELSE "interrupted"
  /\ stop
  /\ UNCHANGED <<now, last, paused, fired, cancelled, checking, ctxDone, why, ghosts>>

\* The sentinel, or a caller or hook that ends the read: no failed Read.
LeaveQuietly(cause) ==
  /\ Move("handling", "stopped")
  /\ why' = cause
  /\ reason' = "quiet"
  /\ stop
  /\ UNCHANGED <<now, last, paused, fired, cancelled, checking, ctxDone, ghosts>>

-----------------------------------------------------------------------------
(* check, on the timer's goroutine. *)

Advance(here, there) == check = here /\ check' = there
outside == <<now, cancelled, loop, ending>>

Expire ==
  /\ Advance("idle", "started")
  /\ due # Never /\ due <= now
  /\ due' = Never
  /\ UNCHANGED <<outside, last, paused, fired, timer, reading, after, ghosts>>

LoadPaused ==
  /\ \/ paused /\ Advance("started", "rearming") /\ after' = Timeout
     \/ ~paused /\ Advance("started", "unpaused") /\ UNCHANGED after
  /\ UNCHANGED <<outside, monitor, reading, ghosts>>

ReadClock ==
  /\ Advance("unpaused", "measured")
  /\ reading' = now
  /\ UNCHANGED <<outside, monitor, after, ghosts>>

\* The clock was read before last is.
Remaining == Timeout - (reading - last)

Judge ==
  /\ \/ Remaining > 0 /\ Advance("measured", "rearming") /\ after' = Remaining
     \/ Remaining <= 0 /\ Advance("measured", "expiring") /\ UNCHANGED after
  /\ UNCHANGED <<outside, monitor, reading, ghosts>>

\* The timer is reset although stop has cleared it.
BugRearmStopped ==
  /\ Advance("rearming", "idle")
  /\ due' = now + after
  /\ late' = 0
  /\ UNCHANGED <<outside, last, paused, fired, timer, reading, after, quietSince, gap>>

\* A whole new timeout, instead of what remains of the one that runs.
BugRearmWhole ==
  /\ Advance("rearming", "idle")
  /\ due' = IF timer THEN now + Timeout ELSE due
  /\ late' = 0
  /\ UNCHANGED <<outside, last, paused, fired, timer, reading, after, quietSince, gap>>

\* rearm, under the mutex.
Rearm ==
  /\ Advance("rearming", "idle")
  /\ due' = IF timer THEN now + after ELSE due
  /\ late' = 0
  /\ UNCHANGED <<outside, last, paused, fired, timer, reading, after, quietSince, gap>>

SetFired ==
  /\ Advance("expiring", "cancelling")
  /\ fired' = TRUE
  /\ UNCHANGED <<outside, last, paused, due, timer, reading, after, ghosts>>

Cancel ==
  /\ Advance("cancelling", "idle")
  /\ cancelled' = TRUE
  /\ late' = 0
  /\ UNCHANGED <<now, loop, ending, monitor, reading, after, quietSince, gap>>

-----------------------------------------------------------------------------
Loop ==
  \/ Deliver \/ RecordProgress \/ ReadMore \/ Suspend \/ CallReturns
  \/ ResumeAlive \/ ResumeUnpause \/ ReportEnd
  \/ \E cause \in {"monitor", "caller", "transport"} : ReadFails(cause)
  \/ \E cause \in {"sentinel", "left"} : LeaveQuietly(cause)

Callback == Expire \/ LoadPaused \/ ReadClock \/ Judge \/ Rearm \/ SetFired \/ Cancel

Finished == loop = "stopped" /\ ~Pending /\ UNCHANGED vars

Next == Tick \/ Loop \/ CallerCancels \/ Callback \/ Finished

Spec == Init /\ [][Next]_vars

-----------------------------------------------------------------------------
(***************************************************************************)
(* Properties.                                                             *)
(***************************************************************************)

\* The monitor ends no healthy stream: when it has fired, the loop really had
\* waited in one Read for the whole timeout.  Bytes that land as the timer expires,
\* a slow handler and a resume that races the callback do not count as silence
\* (check, alive, suspend, resume).  A callback that outlives the stream may still
\* fire, and then nobody hears of it.
FiresOnSilenceOnly ==
  fired /\ (loop = "stopped" => reason = "idle") => gap >= Timeout

\* A dead stream has no other liveness control: a Read does not outlast the timeout
\* by more than two late callbacks without being cancelled, whatever was suspended
\* and re-armed before it (check, rearm).
SilenceIsCutOff ==
  loop = "reading" /\ ~cancelled => now - quietSince <= Timeout + 2 * Lateness

\* A stream the monitor ended is reported as idle and never as the caller's own
\* cancellation or a broken transport, and only such a stream is (fired is stored
\* before cancel; the order of Stream's endings).
EndNamesItsCause ==
  reason # "none" =>
    /\ why = "monitor" => reason = "idle"
    /\ why = "caller" => reason \in {"context", "idle"}
    /\ reason = "idle" => fired
    /\ reason = "context" => ctxDone

\* A callback that was running while the stream ended does not leave an armed timer
\* behind (stop, rearm).
NoTimerAfterStop == loop = "stopped" => due = Never

-----------------------------------------------------------------------------
(* The strengthenings every step preserves. *)

\* From when the callback may count: the caller's code stops the clock.
base == IF paused THEN now ELSE last

\* What last and quietSince say of each other, by where the loop is.
ClockBook ==
  /\ last <= now /\ quietSince <= now /\ late <= Lateness
  /\ paused <=> loop \in {"calling", "returned", "resuming"}
  /\ loop \in {"reading", "handling", "resuming", "calling", "failed"} => last = quietSince
  /\ loop \in {"handling", "resuming"} => last = now
  /\ loop \in {"delivered", "returned"} => quietSince = now
  /\ loop \in {"reading", "delivered", "failed"} => now - last <= gap

\* A callback that found the clock running judges a reading that exceeds last by
\* no more than the loop waited in Read, or than the callback is late.
JudgeBook ==
  /\ check = "unpaused" /\ loop \in {"calling", "returned"} => now - last <= late
  /\ check = "measured" => reading <= now /\ now - reading <= late
  /\ check = "measured" /\ loop # "stopped" => reading - last <= Longer(late, gap)
  /\ (check = "expiring" \/ fired) /\ loop # "stopped" => gap >= Timeout
  /\ reason = "idle" => gap >= Timeout

\* The timer is armed, or the callback is on its way, and neither is too late.
WatchBook ==
  /\ check = "rearming" => after >= 1
  /\ loop # "stopped" /\ ~cancelled =>
       /\ check = "idle" => due # Never /\ due <= base + Timeout + Lateness
       /\ check = "rearming" => now + after <= base + Timeout + late
       /\ Pending => now <= base + Timeout + Lateness + late

\* fired, cancelled and the reasons for the end, in the order they are set.
EndBook ==
  /\ check = "cancelling" \/ cancelled => fired
  /\ why = "monitor" => cancelled
  /\ why = "caller" => ctxDone
  /\ reason # "none" => loop = "stopped"
  /\ timer <=> loop # "stopped"
  /\ NoTimerAfterStop
  /\ EndNamesItsCause
=============================================================================
