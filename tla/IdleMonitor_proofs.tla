------------------------- MODULE IdleMonitor_proofs -------------------------
(***************************************************************************)
(* What TLC checks of IdleMonitor for one timeout, proved for every        *)
(* timeout, every lateness below it and every length of behaviour.         *)
(*                                                                         *)
(* Each lemma is one part of the inductive invariant, and its steps are    *)
(* the actions of Next in the order IdleMonitor defines them.              *)
(***************************************************************************)
EXTENDS IdleMonitor, TLAPS

(* Every step keeps the types. *)
LEMMA TypeStep ==
  ASSUME TypeOK, WatchBook, [Next]_vars
  PROVE  TypeOK'
<1> USE MonitorAssumption DEF
      Move, Advance, alive, stop, Never, monitor, ending, checking, ghosts, outside,
      TypeOK, Loops, Checks
<1>1. CASE Tick
  BY <1>1 DEF Tick, Pending, Longer
<1>2. CASE Deliver
  BY <1>2 DEF Deliver
<1>3. CASE RecordProgress
  BY <1>3 DEF RecordProgress
<1>4. CASE ReadMore
  BY <1>4 DEF ReadMore
<1>5. CASE Suspend
  BY <1>5 DEF Suspend
<1>6. CASE CallReturns
  BY <1>6 DEF CallReturns
<1>7. CASE ResumeAlive
  BY <1>7 DEF ResumeAlive
<1>8. CASE ResumeUnpause
  <2>1. loop' = "handling" /\ UNCHANGED <<now, last, due, reading, after, quietSince, gap,
        late, fired, cancelled, timer, check, ctxDone, why, reason>>
    BY <1>8 DEF ResumeUnpause
  <2>2. paused' \in BOOLEAN
    BY <1>8, Zenon DEF ResumeUnpause
  <2>3. QED
    BY <2>1, <2>2
<1>9. CASE ReportEnd
  BY <1>9 DEF ReportEnd
<1>10. CASE CallerCancels
  BY <1>10 DEF CallerCancels
<1>11. CASE Expire
  BY <1>11 DEF Expire
<1>12. CASE LoadPaused
  BY <1>12 DEF LoadPaused
<1>13. CASE ReadClock
  BY <1>13 DEF ReadClock
<1>14. CASE Judge
  BY <1>14 DEF Judge, Remaining
<1>15. CASE Rearm
  BY <1>15 DEF Rearm, WatchBook
<1>16. CASE SetFired
  BY <1>16 DEF SetFired
<1>17. CASE Cancel
  BY <1>17 DEF Cancel
<1>18. ASSUME NEW cause \in {"monitor", "caller", "transport"}, ReadFails(cause)
       PROVE TypeOK'
  BY <1>18 DEF ReadFails
<1>19. ASSUME NEW cause \in {"sentinel", "left"}, LeaveQuietly(cause) PROVE TypeOK'
  BY <1>19 DEF LeaveQuietly
<1>20. CASE UNCHANGED vars
  BY <1>20 DEF vars
<1>21. QED
  BY <1>1, <1>2, <1>3, <1>4, <1>5, <1>6, <1>7, <1>8, <1>9, <1>10, <1>11, <1>12, <1>13,
     <1>14, <1>15, <1>16, <1>17, <1>18, <1>19, <1>20 DEF Next, Loop, Callback, Finished

(* Every step keeps what last and quietSince say of each other. *)
LEMMA ClockStep ==
  ASSUME TypeOK, ClockBook, [Next]_vars
  PROVE  ClockBook'
<1> USE MonitorAssumption DEF
      Move, Advance, alive, stop, Never, monitor, ending, checking, ghosts, outside,
      TypeOK, ClockBook, Loops
<1>1. CASE Tick
  BY <1>1 DEF Tick, Pending, Longer
<1>2. CASE Deliver
  BY <1>2 DEF Deliver
<1>3. CASE RecordProgress
  BY <1>3 DEF RecordProgress
<1>4. CASE ReadMore
  BY <1>4 DEF ReadMore
<1>5. CASE Suspend
  BY <1>5 DEF Suspend
<1>6. CASE CallReturns
  BY <1>6 DEF CallReturns
<1>7. CASE ResumeAlive
  BY <1>7 DEF ResumeAlive
<1>8. CASE ResumeUnpause
  BY <1>8 DEF ResumeUnpause
<1>9. CASE ReportEnd
  BY <1>9 DEF ReportEnd
<1>10. CASE CallerCancels
  BY <1>10 DEF CallerCancels
<1>11. CASE Expire
  BY <1>11 DEF Expire
<1>12. CASE LoadPaused
  BY <1>12 DEF LoadPaused
<1>13. CASE ReadClock
  BY <1>13 DEF ReadClock
<1>14. CASE Judge
  BY <1>14 DEF Judge
<1>15. CASE Rearm
  BY <1>15 DEF Rearm
<1>16. CASE SetFired
  BY <1>16 DEF SetFired
<1>17. CASE Cancel
  BY <1>17 DEF Cancel
<1>18. ASSUME NEW cause \in {"monitor", "caller", "transport"}, ReadFails(cause)
       PROVE ClockBook'
  BY <1>18 DEF ReadFails
<1>19. ASSUME NEW cause \in {"sentinel", "left"}, LeaveQuietly(cause) PROVE ClockBook'
  BY <1>19 DEF LeaveQuietly
<1>20. CASE UNCHANGED vars
  BY <1>20 DEF vars
<1>21. QED
  BY <1>1, <1>2, <1>3, <1>4, <1>5, <1>6, <1>7, <1>8, <1>9, <1>10, <1>11, <1>12, <1>13,
     <1>14, <1>15, <1>16, <1>17, <1>18, <1>19, <1>20 DEF Next, Loop, Callback, Finished

(* A callback that found the clock running has the age of last explained: by the
   wait in Read, or by its own lateness. *)
LEMMA WaitIsCovered ==
  ASSUME TypeOK, ClockBook, JudgeBook, check = "unpaused", loop # "stopped"
  PROVE  now - last <= Longer(late, gap)
<1>1. late \in Nat /\ gap \in Nat /\ now \in Nat /\ last \in Nat /\ loop \in Loops
  BY DEF TypeOK
<1>2. CASE loop \in {"calling", "returned"}
  BY <1>1, <1>2 DEF JudgeBook, Longer
<1>3. CASE loop \in {"reading", "delivered", "failed"}
  BY <1>1, <1>3 DEF ClockBook, Longer
<1>4. CASE loop \in {"handling", "resuming"}
  BY <1>1, <1>4 DEF ClockBook, Longer
<1>5. QED
  BY <1>1, <1>2, <1>3, <1>4 DEF Loops

(* Every step keeps what the callback may conclude from what it loaded. *)
LEMMA JudgeStep ==
  ASSUME TypeOK, ClockBook, EndBook, JudgeBook, [Next]_vars
  PROVE  JudgeBook'
<1> USE MonitorAssumption DEF
      Move, Advance, alive, stop, Never, monitor, ending, checking, ghosts, outside,
      TypeOK, ClockBook, JudgeBook, Longer
<1>1. CASE Tick
  BY <1>1 DEF Tick, Pending, Longer
<1>2. CASE Deliver
  BY <1>2 DEF Deliver
<1>3. CASE RecordProgress
  BY <1>3 DEF RecordProgress
<1>4. CASE ReadMore
  BY <1>4 DEF ReadMore
<1>5. CASE Suspend
  BY <1>5 DEF Suspend
<1>6. CASE CallReturns
  BY <1>6 DEF CallReturns
<1>7. CASE ResumeAlive
  BY <1>7 DEF ResumeAlive
<1>8. CASE ResumeUnpause
  BY <1>8 DEF ResumeUnpause
<1>9. CASE ReportEnd
  BY <1>9 DEF ReportEnd, EndBook
<1>10. CASE CallerCancels
  BY <1>10 DEF CallerCancels
<1>11. CASE Expire
  BY <1>11 DEF Expire
<1>12. CASE LoadPaused
  BY <1>12 DEF LoadPaused
<1>13. CASE ReadClock
  <2>1. loop # "stopped" => now - last <= Longer(late, gap)
    BY <1>13, WaitIsCovered DEF ReadClock
  <2>2. reading' = now /\ check' = "measured" /\ check = "unpaused"
        /\ UNCHANGED <<now, last, loop, late, gap, fired, reason>>
    BY <1>13 DEF ReadClock
  <2>3. QED
    BY <2>1, <2>2
<1>14. CASE Judge
  BY <1>14 DEF Judge, Remaining
<1>15. CASE Rearm
  BY <1>15 DEF Rearm
<1>16. CASE SetFired
  BY <1>16 DEF SetFired
<1>17. CASE Cancel
  BY <1>17 DEF Cancel
<1>18. ASSUME NEW cause \in {"monitor", "caller", "transport"}, ReadFails(cause)
       PROVE JudgeBook'
  BY <1>18 DEF ReadFails
<1>19. ASSUME NEW cause \in {"sentinel", "left"}, LeaveQuietly(cause) PROVE JudgeBook'
  BY <1>19 DEF LeaveQuietly
<1>20. CASE UNCHANGED vars
  BY <1>20 DEF vars
<1>21. QED
  BY <1>1, <1>2, <1>3, <1>4, <1>5, <1>6, <1>7, <1>8, <1>9, <1>10, <1>11, <1>12, <1>13,
     <1>14, <1>15, <1>16, <1>17, <1>18, <1>19, <1>20 DEF Next, Loop, Callback, Finished

(* Every step keeps the watch: armed, or on its way, and not too late. *)
LEMMA WatchStep ==
  ASSUME TypeOK, ClockBook, JudgeBook, EndBook, WatchBook, [Next]_vars
  PROVE  WatchBook'
<1> USE MonitorAssumption DEF
      Move, Advance, alive, stop, Never, monitor, ending, checking, ghosts, outside,
      TypeOK, ClockBook, WatchBook, base, Pending
<1>1. CASE Tick
  BY <1>1 DEF Tick, Pending, Longer
<1>2. CASE Deliver
  BY <1>2 DEF Deliver
<1>3. CASE RecordProgress
  BY <1>3 DEF RecordProgress
<1>4. CASE ReadMore
  BY <1>4 DEF ReadMore
<1>5. CASE Suspend
  BY <1>5 DEF Suspend
<1>6. CASE CallReturns
  BY <1>6 DEF CallReturns
<1>7. CASE ResumeAlive
  BY <1>7 DEF ResumeAlive
<1>8. CASE ResumeUnpause
  BY <1>8 DEF ResumeUnpause
<1>9. CASE ReportEnd
  BY <1>9 DEF ReportEnd
<1>10. CASE CallerCancels
  BY <1>10 DEF CallerCancels
<1>11. CASE Expire
  BY <1>11 DEF Expire
<1>12. CASE LoadPaused
  BY <1>12 DEF LoadPaused
<1>13. CASE ReadClock
  BY <1>13 DEF ReadClock
<1>14. CASE Judge
  BY <1>14 DEF Judge, Remaining, JudgeBook
<1>15. CASE Rearm
  BY <1>15 DEF Rearm, EndBook
<1>16. CASE SetFired
  BY <1>16 DEF SetFired
<1>17. CASE Cancel
  BY <1>17 DEF Cancel
<1>18. ASSUME NEW cause \in {"monitor", "caller", "transport"}, ReadFails(cause)
       PROVE WatchBook'
  BY <1>18 DEF ReadFails
<1>19. ASSUME NEW cause \in {"sentinel", "left"}, LeaveQuietly(cause) PROVE WatchBook'
  BY <1>19 DEF LeaveQuietly
<1>20. CASE UNCHANGED vars
  BY <1>20 DEF vars
<1>21. QED
  BY <1>1, <1>2, <1>3, <1>4, <1>5, <1>6, <1>7, <1>8, <1>9, <1>10, <1>11, <1>12, <1>13,
     <1>14, <1>15, <1>16, <1>17, <1>18, <1>19, <1>20 DEF Next, Loop, Callback, Finished

(* Every step keeps the order in which an end is recorded and reported. *)
LEMMA EndStep ==
  ASSUME TypeOK, JudgeBook, EndBook, [Next]_vars
  PROVE  EndBook'
<1> USE MonitorAssumption DEF
      Move, Advance, alive, stop, Never, monitor, ending, checking, ghosts, outside,
      TypeOK, EndBook, NoTimerAfterStop, EndNamesItsCause
<1>1. CASE Tick
  BY <1>1 DEF Tick, Pending, Longer
<1>2. CASE Deliver
  BY <1>2 DEF Deliver
<1>3. CASE RecordProgress
  BY <1>3 DEF RecordProgress
<1>4. CASE ReadMore
  BY <1>4 DEF ReadMore
<1>5. CASE Suspend
  BY <1>5 DEF Suspend
<1>6. CASE CallReturns
  BY <1>6 DEF CallReturns
<1>7. CASE ResumeAlive
  BY <1>7 DEF ResumeAlive
<1>8. CASE ResumeUnpause
  BY <1>8 DEF ResumeUnpause
<1>9. CASE ReportEnd
  BY <1>9 DEF ReportEnd
<1>10. CASE CallerCancels
  BY <1>10 DEF CallerCancels
<1>11. CASE Expire
  BY <1>11 DEF Expire
<1>12. CASE LoadPaused
  BY <1>12 DEF LoadPaused
<1>13. CASE ReadClock
  BY <1>13 DEF ReadClock
<1>14. CASE Judge
  BY <1>14 DEF Judge
<1>15. CASE Rearm
  BY <1>15 DEF Rearm
<1>16. CASE SetFired
  BY <1>16 DEF SetFired
<1>17. CASE Cancel
  BY <1>17 DEF Cancel
<1>18. ASSUME NEW cause \in {"monitor", "caller", "transport"}, ReadFails(cause)
       PROVE EndBook'
  BY <1>18 DEF ReadFails
<1>19. ASSUME NEW cause \in {"sentinel", "left"}, LeaveQuietly(cause) PROVE EndBook'
  BY <1>19 DEF LeaveQuietly
<1>20. CASE UNCHANGED vars
  BY <1>20 DEF vars
<1>21. QED
  BY <1>1, <1>2, <1>3, <1>4, <1>5, <1>6, <1>7, <1>8, <1>9, <1>10, <1>11, <1>12, <1>13,
     <1>14, <1>15, <1>16, <1>17, <1>18, <1>19, <1>20 DEF Next, Loop, Callback, Finished

-----------------------------------------------------------------------------
Book == TypeOK /\ ClockBook /\ JudgeBook /\ WatchBook /\ EndBook

(* The parts hold together, in every state. *)
LEMMA BookHolds == Spec => []Book
<1>1. Init => Book
  <2> SUFFICES ASSUME Init PROVE Book
    OBVIOUS
  <2> USE MonitorAssumption DEF Init, Never, Pending
  <2>1. TypeOK
    BY DEF TypeOK, Loops, Checks
  <2>2. ClockBook /\ WatchBook
    BY DEF ClockBook, WatchBook, base
  <2>3. JudgeBook /\ EndBook
    BY DEF JudgeBook, EndBook, NoTimerAfterStop, EndNamesItsCause
  <2>4. QED
    BY <2>1, <2>2, <2>3 DEF Book
<1>2. Book /\ [Next]_vars => Book'
  BY TypeStep, ClockStep, JudgeStep, WatchStep, EndStep DEF Book
<1>3. QED
  BY <1>1, <1>2, PTL DEF Spec

(* The types of the monitor and of what it is measured by. *)
THEOREM MonitorTypes == Spec => []TypeOK
<1>1. Book => TypeOK
  BY DEF Book
<1>2. QED
  BY <1>1, BookHolds, PTL

(* idleMonitor.check ends no healthy stream, for every timeout and whatever the
   interleaving of its loads with suspend, resume and alive. *)
THEOREM FiresOnSilenceOnlyHolds == Spec => []FiresOnSilenceOnly
<1>1. Book => FiresOnSilenceOnly
  BY DEF Book, JudgeBook, FiresOnSilenceOnly
<1>2. QED
  BY <1>1, BookHolds, PTL

(* A Read of a dead stream is cancelled within the timeout and two latenesses. *)
THEOREM SilenceIsCutOffHolds == Spec => []SilenceIsCutOff
<1>1. Book => SilenceIsCutOff
  BY MonitorAssumption DEF Book, TypeOK, ClockBook, WatchBook, SilenceIsCutOff, Pending,
     base,
     Checks, Never
<1>2. QED
  BY <1>1, BookHolds, PTL

(* Stream's endings name what ended the read. *)
THEOREM EndNamesItsCauseHolds == Spec => []EndNamesItsCause
<1>1. Book => EndNamesItsCause
  BY DEF Book, EndBook
<1>2. QED
  BY <1>1, BookHolds, PTL

(* stop is final, however it races the callback. *)
THEOREM NoTimerAfterStopHolds == Spec => []NoTimerAfterStop
<1>1. Book => NoTimerAfterStop
  BY DEF Book, EndBook
<1>2. QED
  BY <1>1, BookHolds, PTL
=============================================================================
