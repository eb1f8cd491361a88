------------------------- MODULE SimpleTimerProofs -------------------------
(***************************************************************************)
(* What SimpleTimer promises, for every width of the tick, every wait time *)
(* and every bound on how late a caller may be.                            *)
(***************************************************************************)
EXTENDS SimpleTimer, TLAPS

\* The tick of the last init: the target is a multiple of the wait after it.
Waited == IF auto_reset THEN elapses * wait_time + wait_time ELSE wait_time
Start == IF pc = "init" THEN now ELSE target_time - Waited

\* Ticks wrapped or not, a reading is no later than the ticks that have passed,
\* and exact until the first wrap after init.
Reading(tick, ticks) ==
    /\ tick <= Start + ticks
    /\ Start + ticks < TICKS => tick = Start + ticks

Readings ==
    /\ gap <= since
    /\ Start \in Ticks
    /\ Reading(tick_count, since)
    /\ Reading(now, since - gap)

Latch ==
    /\ pc = "init" => elapses = 0 /\ gap = since
    /\ pc # "init" /\ auto_reset => ~timer_elapsed
    /\ pc # "init" /\ ~auto_reset => elapses = IF timer_elapsed THEN 1 ELSE 0

\* The last reading that was not answered with true came before the instant
\* due; the one in hand, within MaxGap of it.
Punctual ==
    Armed /\ ReachesTarget /\ MaxGap <= wait_time =>
        /\ pc = "idle" => since - gap < elapses * wait_time + wait_time
        /\ pc = "has_elapsed" => since - gap < elapses * wait_time + wait_time + MaxGap

IInv == TypeOK /\ Readings /\ Latch /\ NeverEarly /\ Punctual

-----------------------------------------------------------------------------
(* Arithmetic.                                                             *)

\* A sum that fits is its own remainder.
LEMMA Fits ==
    ASSUME NEW a \in Nat, NEW b \in Nat, NEW n \in Nat \ {0}, a + b < n
    PROVE  (a + b) % n = a + b
  OBVIOUS

\* The tick after the last is 0.
LEMMA Wraps ==
    ASSUME NEW n \in Nat \ {0}, NEW t \in 0..n - 1
    PROVE  (t + 1) % n = IF t = n - 1 THEN 0 ELSE t + 1
  OBVIOUS

\* One elapse more is one wait more.
LEMMA OneMoreWait ==
    ASSUME NEW e \in Nat, NEW w \in Nat
    PROVE  e * w \in Nat /\ (e + 1) * w = e * w + w
  BY SMT

\* The sums of simple-timer.c fit 64 bits: a new target is a wait after the
\* reading, and the next of a period a wait after the last.
LEMMA Targets ==
    ASSUME TypeOK
    PROVE  /\ Target = now + wait_time
           /\ now + wait_time \in 0..TIMES - 1
           /\ now >= target_time => NextTarget = target_time + wait_time
  <1>1. /\ now \in Nat /\ wait_time \in Nat /\ target_time \in Nat /\ TIMES \in Nat \ {0}
        /\ now + wait_time < TIMES
    BY WidthAssumption DEF TypeOK, Ticks
  <1>2. (now + wait_time) % TIMES = now + wait_time
    BY <1>1, Fits
  <1>3. ASSUME now >= target_time
        PROVE  (target_time + wait_time) % TIMES = target_time + wait_time
    BY <1>1, <1>3, Fits
  <1>4. (now + wait_time) - (now - target_time) = target_time + wait_time
    BY <1>1
  <1> QED
    BY <1>1, <1>2, <1>3, <1>4 DEF Target, NextTarget

-----------------------------------------------------------------------------
(* The invariant.                                                          *)

LEMMA InitEstablishes == Init => IInv
  <1> SUFFICES ASSUME Init PROVE IInv
    OBVIOUS
  <1> USE WidthAssumption, BoundAssumption DEF Init
  <1>1. wait_time \in Nat /\ tick_count \in Ticks /\ TIMES > 0
    BY DEF Ticks
  <1>2. TypeOK
    <2>1. timer_elapsed \in BOOLEAN /\ auto_reset \in BOOLEAN
      BY Zenon
    <2> QED
      BY <1>1, <2>1 DEF TypeOK
  <1>3. Readings
    BY <1>1 DEF Readings, Reading, Start, Ticks
  <1>4. NeverEarly
    BY <1>1 DEF NeverEarly
  <1> QED
    BY <1>2, <1>3, <1>4 DEF IInv, Latch, Punctual, Armed

\* A tick: the counter wraps, the reading in hand grows old.
LEMMA TickPreserves ==
    ASSUME IInv, sys_tick_handler
    PROVE  IInv'
  <1> USE WidthAssumption, BoundAssumption DEF IInv, sys_tick_handler, timer
  <1>1. tick_count' = IF tick_count = TICKS - 1 THEN 0 ELSE tick_count + 1
    BY Wraps DEF TypeOK, Ticks, NextTick
  <1>2. TypeOK'
    BY <1>1 DEF TypeOK, Ticks
  <1>3. Start' = Start /\ Start \in Nat /\ since - gap = (since - gap)'
    BY DEF Start, Waited, Readings, Ticks, TypeOK
  <1>4. Readings'
    BY <1>1, <1>3 DEF Readings, Reading, TypeOK, Ticks
  <1>5. elapses * wait_time \in Nat
    BY OneMoreWait DEF TypeOK
  <1>6. NeverEarly'
    BY <1>5 DEF NeverEarly, TypeOK
  <1>7. Latch' /\ Punctual'
    BY <1>3 DEF Latch, Punctual, Armed, ReachesTarget, TypeOK
  <1> QED
    BY <1>2, <1>4, <1>6, <1>7

\* Init and reset: the past is forgotten.
LEMMA ArmPreserves ==
    ASSUME IInv, NEW w \in Waits, NEW a \in BOOLEAN, Arm(w, a)
    PROVE  IInv'
  <1> USE WidthAssumption, BoundAssumption DEF IInv, Arm, system_get_ticks
  <1>1. TypeOK'
    BY DEF TypeOK, Ticks
  <1>2. Start' = tick_count /\ tick_count \in Ticks
    BY DEF Start, TypeOK
  <1>3. Readings'
    BY <1>2 DEF Readings, Reading, Ticks
  <1>4. NeverEarly'
    BY <1>1 DEF NeverEarly, TypeOK
  <1> QED
    BY <1>1, <1>3, <1>4 DEF Latch, Punctual, Armed

LEMMA SetTargetPreserves ==
    ASSUME IInv, SetTarget
    PROVE  IInv'
  <1> USE WidthAssumption, BoundAssumption DEF IInv, SetTarget, ghosts
  <1>1. target_time' = now + wait_time /\ elapses = 0 /\ gap = since
    BY Targets DEF Latch
  <1>2. TypeOK'
    BY <1>1, Targets DEF TypeOK
  <1>3. Waited' = wait_time /\ wait_time \in Nat \ {0} /\ now \in Nat
    BY <1>1 DEF Waited, TypeOK, Ticks
  <1>4. Start' = Start
    BY <1>1, <1>3 DEF Start
  <1>5. Readings'
    BY <1>4 DEF Readings, Reading
  <1>6. Latch' /\ NeverEarly'
    BY <1>1, <1>3 DEF Latch, NeverEarly
  <1>7. since' - gap' = 0 /\ elapses' * wait_time' = 0
    BY <1>1, <1>3 DEF TypeOK
  <1>8. Punctual'
    BY <1>3, <1>7 DEF Punctual
  <1> QED
    BY <1>2, <1>5, <1>6, <1>8

\* A reading of the tick: what follows is about the ticks that have passed now.
LEMMA ReadPreserves ==
    ASSUME IInv, simple_timer_has_elapsed
    PROVE  IInv'
  <1> USE WidthAssumption, BoundAssumption
      DEF IInv, simple_timer_has_elapsed, system_get_ticks, timer
  <1>1. TypeOK'
    BY DEF TypeOK
  <1>2. Start' = Start
    BY DEF Start, Waited
  <1>3. Readings'
    BY <1>2 DEF Readings, Reading, TypeOK
  <1>4. Latch' /\ NeverEarly'
    BY DEF Latch, NeverEarly
  <1>5. elapses * wait_time \in Nat
    BY OneMoreWait DEF TypeOK
  <1>6. Punctual'
    BY <1>5 DEF Punctual, Armed, ReachesTarget, TypeOK
  <1> QED
    BY <1>1, <1>3, <1>4, <1>6

LEMMA TruePreserves ==
    ASSUME IInv, ReturnTrue
    PROVE  IInv'
  <1> USE WidthAssumption, BoundAssumption DEF IInv, ReturnTrue
  <1> DEFINE P == elapses * wait_time
  <1>1. /\ P \in Nat /\ elapses' * wait_time' = P + wait_time
        /\ wait_time \in Nat \ {0} /\ since \in Nat /\ gap \in Nat
        /\ target_time \in Nat /\ now \in 0..TICKS - 1
    BY OneMoreWait DEF TypeOK, Ticks
  <1>2. pc = "has_elapsed" /\ now >= target_time /\ timer_elapsed = FALSE
    BY DEF HasElapsed, TypeOK
  <1>3. ~auto_reset => P = 0
    BY <1>1, <1>2 DEF Latch
  <1>4. Start = IF auto_reset THEN target_time - P - wait_time ELSE target_time - wait_time
    BY <1>1, <1>2 DEF Start, Waited
  <1>5. auto_reset => target_time' = target_time + wait_time
    BY <1>2, Targets
  <1>6. TypeOK'
    <2>1. target_time' \in 0..TIMES - 1
      BY <1>1, <1>2, <1>5, Targets DEF TypeOK
    <2>2. timer_elapsed' \in BOOLEAN /\ auto_reset' \in BOOLEAN
      BY Zenon DEF TypeOK
    <2> QED
      BY <2>1, <2>2 DEF TypeOK
  <1>7. Start' = Start
    BY <1>1, <1>2, <1>4, <1>5 DEF Start, Waited
  <1>8. Readings'
    BY <1>7 DEF Readings, Reading
  <1>9. NeverEarly'
    <2>1. target_time <= Start + (since - gap)
      BY <1>1, <1>2, <1>4 DEF Readings, Reading
    <2>2. P + wait_time <= since
      BY <1>1, <1>3, <1>4, <2>1
    <2> QED
      BY <1>1, <2>2 DEF NeverEarly
  <1>10. Latch'
    BY <1>2 DEF Latch, TypeOK
  <1>11. Punctual'
    <2> SUFFICES ASSUME Armed', ReachesTarget', MaxGap <= wait_time
                 PROVE  since - gap < P + wait_time + wait_time
      BY <1>1 DEF Punctual
    <2>1. auto_reset
      BY <1>1 DEF Armed, TypeOK
    <2>2. ReachesTarget
      BY <1>1, <1>5, <2>1 DEF ReachesTarget
    <2>3. since - gap < P + wait_time + MaxGap
      BY <1>2, <2>1, <2>2 DEF Punctual, Armed
    <2> QED
      BY <1>1, <2>3
  <1> QED
    BY <1>6, <1>8, <1>9, <1>10, <1>11

LEMMA FalsePreserves ==
    ASSUME IInv, ReturnFalse
    PROVE  IInv'
  <1> USE WidthAssumption, BoundAssumption DEF IInv, ReturnFalse, timer, ghosts
  <1> DEFINE P == elapses * wait_time
  <1>1. /\ P \in Nat /\ wait_time \in Nat \ {0} /\ since \in Nat /\ gap \in Nat
        /\ target_time \in Nat /\ now \in 0..TICKS - 1
    BY OneMoreWait DEF TypeOK, Ticks
  <1>2. TypeOK'
    BY DEF TypeOK
  <1>3. Start' = Start
    BY DEF Start, Waited
  <1>4. Readings' /\ Latch' /\ NeverEarly'
    BY <1>3 DEF Readings, Reading, Latch, NeverEarly
  <1>5. Punctual'
    <2> SUFFICES ASSUME Armed, ReachesTarget, MaxGap <= wait_time
                 PROVE  since - gap < P + wait_time
      BY DEF Punctual, Armed, ReachesTarget
    <2>1. now < target_time
      BY <1>1 DEF Armed, HasElapsed, Latch, TypeOK
    <2>2. Start = target_time - P - wait_time
      BY <1>1 DEF Start, Waited, Armed, TypeOK
    <2>3. since - gap < P + wait_time + MaxGap
      BY DEF Punctual
    <2>4. Start + (since - gap) < TICKS
      BY <1>1, <2>2, <2>3 DEF ReachesTarget
    <2>5. now = Start + (since - gap)
      BY <2>4 DEF Readings, Reading
    <2> QED
      BY <1>1, <2>1, <2>2, <2>5
  <1> QED
    BY <1>2, <1>4, <1>5

LEMMA StepPreserves == IInv /\ [Next]_vars => IInv'
  <1> SUFFICES ASSUME IInv, [Next]_vars PROVE IInv'
    OBVIOUS
  <1>1. CASE sys_tick_handler
    BY <1>1, TickPreserves
  <1>2. CASE simple_timer_init
    BY <1>2, ArmPreserves DEF simple_timer_init
  <1>3. CASE simple_timer_reset
    <2>1. wait_time \in Waits /\ auto_reset \in BOOLEAN
      BY DEF IInv, TypeOK
    <2> QED
      BY <1>3, <2>1, ArmPreserves DEF simple_timer_reset
  <1>4. CASE SetTarget
    BY <1>4, SetTargetPreserves
  <1>5. CASE simple_timer_has_elapsed
    BY <1>5, ReadPreserves
  <1>6. CASE ReturnTrue
    BY <1>6, TruePreserves
  <1>7. CASE ReturnFalse
    BY <1>7, FalsePreserves
  <1>8. CASE UNCHANGED vars
    BY <1>8 DEF IInv, TypeOK, Readings, Reading, Start, Waited, Latch, NeverEarly,
                Punctual, Armed, ReachesTarget, vars, timer, ghosts
  <1> QED
    BY <1>1, <1>2, <1>3, <1>4, <1>5, <1>6, <1>7, <1>8 DEF Next, Caller

\* The inductive invariant: how far the tick and the reading in hand can be
\* from the ticks that have really passed since the timer was armed.
THEOREM Invariance == Spec => []IInv
  BY InitEstablishes, StepPreserves, PTL DEF Spec

\* Every field keeps its width, the target computed from two sums included.
THEOREM TypeCorrect == Spec => []TypeOK
  BY Invariance, PTL DEF IInv

\* No timer elapses before its wait is over, wherever ticks fall between the
\* steps of simple_timer_init and simple_timer_has_elapsed and however often
\* the tick has wrapped.
THEOREM Early == Spec => []NeverEarly
  BY Invariance, PTL DEF IInv

\* A one-shot timer elapses once.
THEOREM Once == Spec => []OneShotOnce
  <1>1. IInv => OneShotOnce
    BY DEF IInv, Latch, OneShotOnce, TypeOK
  <1> QED
    BY <1>1, Invariance, PTL

\* A timer whose target lies MaxGap before the wrap elapses within MaxGap of the
\* instant due, in every period.
THEOREM Late == Spec => []NeverLate
  <1>1. IInv => NeverLate
    <2> SUFFICES ASSUME IInv, Armed, ReachesTarget, MaxGap <= wait_time, pc = "idle"
                 PROVE  since < Due + MaxGap
      BY DEF NeverLate
    <2>1. /\ elapses * wait_time \in Nat /\ Due = elapses * wait_time + wait_time
          /\ wait_time \in Nat /\ since \in Nat /\ gap \in Nat /\ gap <= MaxGap
      BY WidthAssumption, BoundAssumption, OneMoreWait DEF IInv, TypeOK, Due
    <2>2. since - gap < elapses * wait_time + wait_time
      BY DEF IInv, Punctual
    <2> QED
      BY BoundAssumption, <2>1, <2>2
  <1> QED
    BY <1>1, Invariance, PTL
=============================================================================
