---------------------------- MODULE SimpleTimer ----------------------------
(***************************************************************************)
(* A software timer on the tick of SysTick, at the widths the code has:    *)
(* tick_count is a uint32_t that wraps, target_time a uint64_t that is     *)
(* computed from it and does not.                                          *)
(*                                                                         *)
(* sys_tick_handler preempts the main loop, so simple_timer_init and       *)
(* simple_timer_has_elapsed are two steps each: the tick is read, and then *)
(* used, by when it may be old.  since, gap and elapses record what really *)
(* happened; no action looks at them but to bound the model.               *)
(*                                                                         *)
(* Definitions named Mutant... are deliberate mistakes no specification    *)
(* uses.                                                                   *)
(***************************************************************************)
EXTENDS Integers

CONSTANTS
    TICKS,      \* number of values of a uint32_t
    TIMES,      \* number of values of a uint64_t
    Waits,      \* the wait times callers ask for
    MaxGap,     \* bound on the ticks from one reading of the tick to the next
    MaxSince    \* bound on the ticks a timer is left without being armed again

ASSUME WidthAssumption ==
    /\ TICKS \in Nat \ {0} /\ TIMES \in Nat /\ Waits \subseteq Nat \ {0}
    /\ \A w \in Waits : TICKS + w <= TIMES
ASSUME BoundAssumption == MaxGap \in Nat \ {0} /\ MaxSince \in Nat

VARIABLES
    tick_count,
    wait_time, target_time, auto_reset, timer_elapsed,  \* simple_timer_t
    pc,         \* "idle", "init", "has_elapsed": where the caller is
    now,        \* the tick it has read
    since,      \* ticks since the tick was read for the last init
    gap,        \* ticks since it was read at all
    elapses     \* how often has_elapsed has returned true since init

timer == <<wait_time, target_time, auto_reset, timer_elapsed>>
ghosts == <<since, gap, elapses>>
vars == <<tick_count, timer, pc, now, ghosts>>

Ticks == 0..TICKS - 1

TypeOK ==
    /\ tick_count \in Ticks /\ now \in Ticks
    /\ wait_time \in Waits /\ target_time \in 0..TIMES - 1
    /\ auto_reset \in BOOLEAN /\ timer_elapsed \in BOOLEAN
    /\ pc \in {"idle", "init", "has_elapsed"}
    /\ since \in Nat /\ gap \in 0..MaxGap /\ elapses \in Nat

\* The first call is simple_timer_init, at whatever tick the program has got to.
Init ==
    /\ tick_count \in Ticks /\ now = tick_count
    /\ wait_time \in Waits /\ auto_reset \in BOOLEAN
    /\ target_time = 0 /\ timer_elapsed = FALSE
    /\ pc = "init"
    /\ since = 0 /\ gap = 0 /\ elapses = 0

-----------------------------------------------------------------------------
\* The counter is taken to be wider than it is.
MutantNextTick == tick_count + 1
NextTick == (tick_count + 1) % TICKS

\* A caller may be late, but by no more than MaxGap.
sys_tick_handler ==
    /\ gap < MaxGap /\ since < MaxSince
    /\ tick_count' = NextTick
    /\ since' = since + 1 /\ gap' = gap + 1
    /\ UNCHANGED <<timer, pc, now, elapses>>

\* system_get_ticks widens the 32 bits it reads.
system_get_ticks(next) ==
    /\ pc = "idle" /\ pc' = next
    /\ now' = tick_count /\ gap' = 0
    /\ UNCHANGED tick_count

\* simple_timer_init and, with the old wait time and mode, simple_timer_reset.
Arm(w, a) ==
    /\ system_get_ticks("init")
    /\ wait_time' = w /\ auto_reset' = a
    /\ since' = 0 /\ elapses' = 0
    /\ UNCHANGED <<target_time, timer_elapsed>>
simple_timer_init == \E w \in Waits, a \in BOOLEAN : Arm(w, a)
simple_timer_reset == Arm(wait_time, auto_reset)

\* The sum is kept in 32 bits, as the tick is.
MutantTarget == (now + wait_time) % TICKS
Target == (now + wait_time) % TIMES

SetTarget ==
    /\ pc = "init" /\ pc' = "idle"
    /\ target_time' = Target
    /\ timer_elapsed' = FALSE
    /\ UNCHANGED <<tick_count, wait_time, auto_reset, now, ghosts>>

simple_timer_has_elapsed ==
    /\ system_get_ticks("has_elapsed")
    /\ UNCHANGED <<timer, since, elapses>>

\* The next period counts from the poll.
MutantNextTarget == (now + wait_time) % TIMES
NextTarget ==
    LET drift == now - target_time IN (((now + wait_time) % TIMES) - drift) % TIMES

\* timer_elapsed is not looked at.
MutantUnlatched == now >= target_time
HasElapsed == now >= target_time /\ ~timer_elapsed

ReturnTrue ==
    /\ pc = "has_elapsed" /\ pc' = "idle"
    /\ HasElapsed
    /\ IF auto_reset
       THEN target_time' = NextTarget /\ UNCHANGED timer_elapsed
       ELSE timer_elapsed' = TRUE /\ UNCHANGED target_time
    /\ elapses' = elapses + 1
    /\ UNCHANGED <<tick_count, wait_time, auto_reset, now, since, gap>>

ReturnFalse ==
    /\ pc = "has_elapsed" /\ pc' = "idle"
    /\ ~HasElapsed
    /\ UNCHANGED <<tick_count, timer, now, ghosts>>

Caller ==
    \/ simple_timer_init \/ simple_timer_reset \/ SetTarget
    \/ simple_timer_has_elapsed \/ ReturnTrue \/ ReturnFalse

Next == sys_tick_handler \/ Caller

Spec == Init /\ [][Next]_vars

-----------------------------------------------------------------------------
(* Properties.                                                             *)

\* A timer never elapses early: n returns of true take n waits of real ticks,
\* late polls, wrapped ticks and a tick that was old when it was used
\* notwithstanding (simple-timer.c:44-63).
NeverEarly == elapses * wait_time <= since

\* simple_timer_has_elapsed returns true once for a one-shot timer, however
\* often it is polled, until it is armed again (simple-timer.c:49).
OneShotOnce == ~auto_reset => elapses <= 1

\* The tick at which the timer is due, if ticks did not wrap.
Due == (elapses + 1) * wait_time
Armed == pc # "init" /\ (auto_reset \/ elapses = 0)
ReachesTarget == target_time + MaxGap <= TICKS

\* A caller that polls at least every MaxGap ticks, and no less often than the
\* timer's period, is told within MaxGap ticks of the instant due.  The
\* instants stay a multiple of the wait apart, so lateness does not add up
\* over the periods (simple-timer.c:54-56).  It takes a target the tick will
\* reach: one beyond the last tick is never reached, and one so close before it
\* that the tick may wrap between two polls is missed.
NeverLate ==
    Armed /\ ReachesTarget /\ MaxGap <= wait_time /\ pc = "idle" => since < Due + MaxGap
=============================================================================
