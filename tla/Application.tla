---------------------------- MODULE Application ----------------------------
(***************************************************************************)
(* The application: its main loop fades an LED by the tick count and       *)
(* answers what the UART receives.  Before it the bootloader reads from    *)
(* the same UART, with the same code, and tears it down when it starts the *)
(* application.                                                            *)
(*                                                                         *)
(* tick_count is a uint32_t, and what system_get_ticks makes of it and     *)
(* last_tick are uint64_t: TICKS and TIMES stand for 2^32 and 2^64.        *)
(*                                                                         *)
(* Definitions named Mutant... are deliberate mistakes no specification    *)
(* uses.                                                                   *)
(***************************************************************************)
EXTENDS Uart

CONSTANTS TICKS, TIMES,
          STEP_TICKS,       \* between two steps of the LED: 10
          DUTY_MAX,         \* 100 percent
          MaxSince          \* bound on the ticks between two steps of the LED: what
                            \* the line delivers holds the loop up for less

ASSUME TicksAssumption ==
    /\ {TICKS, TIMES, STEP_TICKS, DUTY_MAX, MaxSince} \subseteq Nat \ {0}
    /\ STEP_TICKS < MaxSince /\ MaxSince < TICKS /\ 2 * TICKS <= TIMES

VARIABLES
    program,        \* "bootloader", then "app"
    main,           \* where the application's main loop is
    tick_count, last_tick,
    duty_cycle,
    echoed,         \* the bytes written back
    since,          \* ticks since last_tick was read
    wrapped         \* tick_count has passed 0 since

led == <<tick_count, last_tick, duty_cycle, since, wrapped>>
appVars == <<vars, program, main, led, echoed>>

\* echoed starts where the bootloader's part of delivered ends.
AppTypeOK ==
    /\ program \in {"bootloader", "app"}
    /\ main \in {"led", "stamp", "drain", "write"}
    /\ {tick_count, last_tick} \subseteq 0..TICKS - 1
    /\ duty_cycle \in 0..DUTY_MAX
    /\ since \in 0..MaxSince /\ wrapped \in BOOLEAN
    /\ since > 0 => (tick_count - last_tick) % TICKS = since
    /\ wrapped <=> tick_count < last_tick

AppInit ==
    /\ Init
    /\ program = "bootloader" /\ main = "led"
    /\ tick_count = 0 /\ last_tick = 0
    /\ duty_cycle = 0
    /\ echoed = <<>>
    /\ since = 0 /\ wrapped = FALSE

-----------------------------------------------------------------------------
(* The bootloader, as far as the UART goes.                                *)

BootloaderReads == program = "bootloader" /\ Reader
BootloaderLeaves == program = "bootloader" /\ uart_teardown

\* From the reset handler to the main loop: the tick counter starts anew, and the
\* UART is set up last.
StartApplication ==
    /\ program = "bootloader" /\ program' = "app"
    /\ uart_setup
    /\ echoed' = <<>>
    /\ tick_count' \in {0, 1} /\ last_tick' = tick_count'
    /\ UNCHANGED <<main, duty_cycle, since, wrapped>>

-----------------------------------------------------------------------------
(* The main loop.                                                          *)

InMain(m) == program = "app" /\ main = m /\ handler = "idle"

system_get_ticks == tick_count

\* The difference of two uint64_t: a huge one once the tick count has passed 0.
\* Two mistakes: one tick too few, and the sum that waits for what a uint32_t
\* never reaches.
MutantDueEarly == (system_get_ticks - last_tick) % TIMES > STEP_TICKS - 2
MutantDueAfter == system_get_ticks >= last_tick + STEP_TICKS
Due == (system_get_ticks - last_tick) % TIMES >= STEP_TICKS

\* The percentage is not started over.
MutantNextDuty == duty_cycle + 1
NextDuty == IF duty_cycle + 1 > DUTY_MAX THEN 0 ELSE duty_cycle + 1

LedStep ==
    /\ InMain("led") /\ Due
    /\ duty_cycle' = NextDuty
    /\ main' = "stamp"
    /\ UNCHANGED <<vars, program, tick_count, last_tick, echoed, since, wrapped>>

NotYet ==
    /\ InMain("led") /\ ~Due
    /\ main' = "drain"
    /\ UNCHANGED <<vars, program, led, echoed>>

Stamp ==
    /\ InMain("stamp")
    /\ last_tick' = system_get_ticks
    /\ since' = 0 /\ wrapped' = FALSE
    /\ main' = "drain"
    /\ UNCHANGED <<vars, program, tick_count, duty_cycle, echoed>>

\* while(uart_data_available()): the reader of Uart takes a byte, and the loop
\* writes it back before it looks for another.
Read ==
    /\ InMain("drain") /\ Reader
    /\ main' = IF delivered' # delivered THEN "write" ELSE "drain"
    /\ UNCHANGED <<program, led, echoed>>

\* data + 1, cut to a uint8_t.  The bytes received are numbers here, which serve as
\* their values.
EchoOf(data) == (data + 1) % 256

uart_write_byte ==
    /\ InMain("write")
    /\ echoed' = Append(echoed, EchoOf(delivered[Len(delivered)]))
    /\ main' = "drain"
    /\ UNCHANGED <<vars, program, led>>

Drained ==
    /\ InMain("drain")
    /\ pc = "available" /\ ring_buffer_is_empty
    /\ main' = "led"
    /\ UNCHANGED <<vars, program, led, echoed>>

MainLoop == LedStep \/ NotYet \/ Stamp \/ Read \/ uart_write_byte \/ Drained

-----------------------------------------------------------------------------
(* The interrupts.                                                         *)

sys_tick_handler ==
    /\ program = "app" /\ since < MaxSince
    /\ tick_count' = (tick_count + 1) % TICKS
    /\ since' = since + 1
    /\ wrapped' = (wrapped \/ tick_count' = 0)
    /\ UNCHANGED <<vars, program, main, last_tick, duty_cycle, echoed>>

OnTheLine ==
    /\ Arrive \/ usart2_isr
    /\ UNCHANGED <<program, main, led, echoed>>

BootloaderNext ==
    /\ BootloaderReads \/ BootloaderLeaves
    /\ UNCHANGED <<program, main, led, echoed>>

AppNext ==
    BootloaderNext \/ StartApplication \/ MainLoop \/ sys_tick_handler \/ OnTheLine

\* The handlers run when their interrupts are pending and either main loop goes on
\* when they have; the transmitter empties.
AppFairness ==
    /\ WF_appVars(OnTheLine /\ usart2_isr) /\ WF_appVars(sys_tick_handler)
    /\ WF_appVars(BootloaderReads /\ BootloaderNext) /\ WF_appVars(MainLoop)

AppSpec == AppInit /\ [][AppNext]_appVars /\ AppFairness

-----------------------------------------------------------------------------
(* Properties.                                                             *)

\* What both programs do to the UART is what Uart has a reader do to it.
UsesUart == Spec

\* A step of the LED is never early (firmware.c:89), except for the one after the
\* tick count has passed 0, every 49.7 days: the difference is then taken for a
\* huge one.
StepsApart == [][duty_cycle' # duty_cycle => since >= STEP_TICKS \/ wrapped]_duty_cycle

\* The LED goes on fading, up and from 0 again, past every wrap of the tick count
\* and whatever is echoed in between.
KeepsFading ==
    /\ (program = "app" /\ duty_cycle = 0) ~> duty_cycle = DUTY_MAX
    /\ duty_cycle = DUTY_MAX ~> duty_cycle = 0

\* For every byte the application's handler puts into the ring the loop writes one, in
\* the order of reading and whatever the LED does.  It is not the byte itself, as the
\* comment in firmware.c:105 and DOCUMENTATION.md:197 have it, but its successor
\* (EchoOf); of that nothing is said here.
Answered(b) ==
    /\ main # "write"
    /\ \E k \in DOMAIN echoed : delivered[Len(delivered) - Len(echoed) + k] = b
BytesAreAnswered ==
    \A b \in 1..MaxBytes :
        (program = "app" /\ \E k \in DOMAIN Contents : Contents[k] = b) ~> Answered(b)
=============================================================================
