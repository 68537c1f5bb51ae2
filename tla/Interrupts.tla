----------------------------- MODULE Interrupts -----------------------------
(***************************************************************************)
(* How hardware interrupts reach the kernel: the interrupt controller that *)
(* kernel/timer.cpp programs, the gates of kernel/idt.cpp, the stubs of    *)
(* kernel/boot.s and the acknowledgements that the stubs and the handlers  *)
(* send, one instruction of interest per step.                             *)
(*                                                                         *)
(* The devices are outside the code: the clock chip pulses whenever it     *)
(* likes, the keyboard controller holds the bytes of keys until they are   *)
(* read, as many as it has room for, and the drive raises line 14 at the   *)
(* end of a command unless nIEN is set.  The controller latches one        *)
(* request per line, delivers the line of highest priority while no line   *)
(* at least as urgent is in service, and takes an EOI to be about the most *)
(* urgent line in service.                                                 *)
(*                                                                         *)
(* The thread level only matters for the interrupt flag, which switch_task *)
(* clears and sets, and for the disk commands it issues.                   *)
(***************************************************************************)
EXTENDS Integers, Sequences, FiniteSets

CONSTANTS Keys,        \* keys whose codes are one byte, no two of them alike
          FifoSize,    \* bytes that wait in the keyboard and its controller (16)
          MaxPulses,   \* bound: clock pulses
          MaxKeys,     \* bound: keyboard bytes
          MaxCommands  \* bound: disk commands

ASSUME InterruptsAssumption ==
    /\ FifoSize \in Nat \ {0}
    /\ MaxPulses \in Nat /\ MaxKeys \in Nat /\ MaxCommands \in Nat

Timer == 0
Keyboard == 1
Disk == 14
Lines == {Timer, Keyboard, Disk}

\* init_idt leaves every other gate not present: an interrupt through such a
\* gate faults, the fault finds no gate either, and the machine resets.
Gates == {Timer, Keyboard}

VARIABLES IF_,          \* the CPU's interrupt flag
          frames,       \* interrupted code, innermost last: the IF it had, the
                        \* line being handled and the next step of its handler
          irr, isr,     \* lines requested and lines in service
          nIEN,         \* the drive may not interrupt
          executing,    \* the drive executes a command
          reset,        \* the machine has triple-faulted
          timer_ticks,
          pulses,       \* pulses the clock has sent
          down,         \* keys that are held down
          keys,         \* bytes the keyboard controller holds
          sent,         \* every byte the controller has taken
          missed,       \* keys whose last byte it had no room for
          handled,      \* bytes keyboard_handler has read, in order
          keyboard_matrix, \* key |-> 1 while it is held, as far as the kernel knows
          commands      \* disk commands issued

devices == <<pulses, down, keys, sent, missed>>
kernel == <<timer_ticks, handled, keyboard_matrix>>
disk == <<nIEN, executing, commands>>
vars == <<IF_, frames, irr, isr, reset, kernel, devices, disk>>

\* init_timer has unmasked every line; kernel_main runs with IF clear, and
\* the drive comes out of its reset with interrupts on.
Init ==
    /\ IF_ = FALSE
    /\ frames = << >>
    /\ irr = {} /\ isr = {}
    /\ nIEN = FALSE /\ executing = FALSE /\ commands = 0
    /\ reset = FALSE
    /\ timer_ticks = 0 /\ pulses = 0
    /\ down = {} /\ missed = {} /\ keys = << >> /\ sent = << >> /\ handled = << >>
    /\ keyboard_matrix = [k \in Keys |-> 0]

-----------------------------------------------------------------------------
(* Devices.                                                                *)

\* A pulse that comes while the line is still requested is lost.
Pulse ==
    /\ pulses < MaxPulses
    /\ pulses' = pulses + 1
    /\ irr' = irr \cup {Timer}
    /\ UNCHANGED <<IF_, frames, isr, reset, down, keys, sent, missed, kernel, disk>>

\* A key goes down or comes up and sends a byte: its code, bit 7 set when it is
\* released.  The controller requests its line when a byte moves into its empty
\* output buffer; a byte that comes later waits behind it, and one for which there
\* is no room is lost, as may happen while "disktest" runs in the handler.
Strike(k) ==
    /\ Len(sent) < MaxKeys
    /\ down' = IF k \in down THEN down \ {k} ELSE down \cup {k}
    /\ IF Len(keys) < FifoSize
       THEN LET byte == [key |-> k, released |-> k \in down] IN
              /\ sent' = Append(sent, byte)
              /\ keys' = Append(keys, byte)
              /\ missed' = missed \ {k}
       ELSE /\ missed' = missed \cup {k}
            /\ UNCHANGED <<sent, keys>>
    /\ irr' = IF keys = << >> THEN irr \cup {Keyboard} ELSE irr
    /\ UNCHANGED <<IF_, frames, isr, reset, pulses, kernel, disk>>

CommandEnds ==
    /\ executing
    /\ executing' = FALSE
    /\ irr' = IF nIEN THEN irr ELSE irr \cup {Disk}
    /\ UNCHANGED <<IF_, frames, isr, reset, kernel, devices, nIEN, commands>>

-----------------------------------------------------------------------------
(* Delivery: the CPU saves IF, the gate clears it (flags 0x8E, an interrupt *)
(* gate, not a trap gate) and the stub runs.                               *)

GateFlag_TrapGate == IF_
GateFlag == FALSE

Urgent(l) == \A s \in isr : l < s

Deliver(l) ==
    /\ ~reset
    /\ IF_
    /\ l \in irr /\ \A r \in irr : l <= r
    /\ Urgent(l)
    /\ irr' = irr \ {l}
    /\ isr' = isr \cup {l}
    /\ IF l \in Gates
       THEN /\ frames' = Append(frames, [line |-> l, flag |-> IF_, step |-> "handler"])
            /\ IF_' = GateFlag
            /\ UNCHANGED reset
       ELSE /\ reset' = TRUE
            /\ UNCHANGED <<frames, IF_>>
    /\ UNCHANGED <<kernel, devices, disk>>

-----------------------------------------------------------------------------
(* Handlers.                                                               *)

Running(l, s) ==
    /\ ~reset
    /\ frames # << >>
    /\ frames[Len(frames)].line = l
    /\ frames[Len(frames)].step = s

Goto(s) == frames' = [frames EXCEPT ![Len(frames)].step = s]

\* outb(0x20, 0x20): the most urgent line in service is done.
AfterEoi_Ignored == isr
AfterEoi == isr \ {l \in isr : \A s \in isr : l <= s}

TimerCount ==
    /\ Running(Timer, "handler")
    /\ timer_ticks' = timer_ticks + 1
    /\ Goto("eoi")
    /\ UNCHANGED <<IF_, irr, isr, reset, handled, keyboard_matrix, devices, disk>>

\* The EOI of the handler, and after it the one of the stub.
TimerEoi ==
    /\ Running(Timer, "eoi")
    /\ isr' = AfterEoi
    /\ Goto("stub eoi")
    /\ UNCHANGED <<IF_, irr, reset, kernel, devices, disk>>

StubEoi ==
    /\ \E l \in Gates : Running(l, "stub eoi")
    /\ isr' = AfterEoi
    /\ Goto("iret")
    /\ UNCHANGED <<IF_, irr, reset, kernel, devices, disk>>

\* inb(0x60): the next byte, if there is one, moves into the output buffer.
\* The byte marks its key as held or not.
TakeByte ==
    /\ handled' = Append(handled, Head(keys))
    /\ keys' = Tail(keys)

MatrixAfter_KeepsHeld(byte) ==
    [keyboard_matrix EXCEPT ![byte.key] = 1]
MatrixAfter(byte) ==
    [keyboard_matrix EXCEPT ![byte.key] = IF byte.released THEN 0 ELSE 1]

KeyboardRead ==
    /\ Running(Keyboard, "handler")
    /\ keys # << >>
    /\ TakeByte
    /\ keyboard_matrix' = MatrixAfter(Head(keys))
    /\ irr' = IF keys' # << >> THEN irr \cup {Keyboard} ELSE irr
    /\ Goto("eoi")
    /\ UNCHANGED <<IF_, isr, reset, timer_ticks, pulses, down, sent, missed, disk>>

\* A break code is acknowledged and the handler returns; a make code is
\* acknowledged and then acted upon, for as long as a shell command takes.
KeyboardEoi ==
    /\ Running(Keyboard, "eoi")
    /\ isr' = AfterEoi
    /\ IF handled[Len(handled)].released THEN Goto("stub eoi") ELSE Goto("act")
    /\ UNCHANGED <<IF_, irr, reset, kernel, devices, disk>>

\* "disktest" talks to the drive before the handler's last EOI.
KeyboardDone ==
    /\ Running(Keyboard, "act")
    /\ isr' = AfterEoi
    /\ Goto("stub eoi")
    /\ UNCHANGED <<IF_, irr, reset, kernel, devices, disk>>

Iret ==
    /\ \E l \in Gates : Running(l, "iret")
    /\ IF_' = frames[Len(frames)].flag
    /\ frames' = SubSeq(frames, 1, Len(frames) - 1)
    /\ UNCHANGED <<irr, isr, reset, kernel, devices, disk>>

-----------------------------------------------------------------------------
(* Thread level.                                                           *)

\* thread_bootstrap and the end of switch_task.
Sti ==
    /\ ~reset
    /\ frames = << >> /\ ~IF_
    /\ IF_' = TRUE
    /\ UNCHANGED <<frames, irr, isr, reset, kernel, devices, disk>>

\* switch_task.
Cli ==
    /\ ~reset
    /\ frames = << >> /\ IF_
    /\ IF_' = FALSE
    /\ UNCHANGED <<frames, irr, isr, reset, kernel, devices, disk>>

\* ata_read_sector and ata_write_sector, from a thread or from "disktest":
\* the drive's line is gated off before the command is sent.
NienAfterDisable_Not == nIEN
NienAfterDisable == TRUE
Command ==
    /\ ~reset
    /\ frames = << >> \/ Running(Keyboard, "act")
    /\ commands < MaxCommands
    /\ nIEN' = NienAfterDisable
    /\ executing' = TRUE
    /\ commands' = commands + 1
    /\ UNCHANGED <<IF_, frames, irr, isr, reset, kernel, devices>>

-----------------------------------------------------------------------------
HandlerStep == TimerCount \/ TimerEoi \/ StubEoi \/ KeyboardRead \/ KeyboardEoi
               \/ KeyboardDone \/ Iret

Next ==
    \/ Pulse \/ CommandEnds
    \/ \E k \in Keys : Strike(k)
    \/ \E l \in Lines : Deliver(l)
    \/ HandlerStep
    \/ Sti \/ Cli \/ Command

\* Handlers run to their end, and the CPU takes an interrupt at the first
\* instruction boundary with IF set, however briefly switch_task leaves it
\* set.  switch_task always reaches its sti.
Spec ==
    /\ Init /\ [][Next]_vars
    /\ WF_vars(HandlerStep)
    /\ WF_vars(Sti)
    /\ \A l \in Lines : SF_vars(Deliver(l))

-----------------------------------------------------------------------------
(* Properties.                                                             *)

Steps == {"handler", "eoi", "act", "stub eoi", "iret"}

\* Every variable holds a value of its type.
TypeOK ==
    /\ IF_ \in BOOLEAN /\ nIEN \in BOOLEAN /\ executing \in BOOLEAN /\ reset \in BOOLEAN
    /\ frames \in Seq([line : Gates, flag : BOOLEAN, step : Steps])
    /\ irr \subseteq Lines /\ isr \subseteq Lines
    /\ timer_ticks \in 0 .. pulses /\ pulses \in 0 .. MaxPulses
    /\ down \subseteq Keys /\ missed \subseteq Keys
    /\ keyboard_matrix \in [Keys -> {0, 1}]
    /\ commands \in 0 .. MaxCommands

\* Handlers never nest and never run with interrupts enabled, although each of
\* them acknowledges its interrupt long before it ends: this is what allows the
\* heap, the scheduler and the shell to be read as if a handler were one step.
NoNesting == Len(frames) <= 1 /\ (frames # << >> => ~IF_)

\* No interrupt arrives on a line without a gate ("the machine triple-faults
\* and reboots", ata.cpp:29-33).
NoStrayInterrupt == ~reset

\* Once no byte is on its way, the matrix shows the keys that are really held, of all
\* whose last byte was not lost on the way to the controller.  (An extended key would
\* share the entry of the key that has its code: the handler drops the 0xE0.)
MatrixIsTrue ==
    keys = << >> => \A k \in Keys \ missed : keyboard_matrix[k] = 1 <=> k \in down

\* Every byte the controller took is handled.
KeysAreHandled == \A n \in 1 .. MaxKeys : (Len(sent) >= n) ~> (Len(handled) >= n)

\* The tick counter never stops: a pulse that was latched is counted, whatever
\* the keyboard handler is doing.
TimerKeepsTicking ==
    \A n \in 0 .. MaxPulses - 1 : (Timer \in irr /\ timer_ticks = n) ~> (timer_ticks > n)

=============================================================================
