------------------------------ MODULE Syscall ------------------------------
(***************************************************************************)
(* System calls and the way to ring 3: gate 0x80, sys_handler_stub and     *)
(* jump_to_ring3 of kernel/boot.s, syscall_dispatcher of kernel/kernel.cpp *)
(* and the page tables of kernel/vmm.cpp, one stack operation per step.    *)
(*                                                                         *)
(* The stack is a sequence of words, the top last; a pointer into it is a  *)
(* position.  What a call prints, or moves to and from the drive, is left  *)
(* out; which registers it takes it from is not.                           *)
(***************************************************************************)
EXTENDS Integers, Sequences

CONSTANTS Contents,   \* what a program puts into a register
          Bytes       \* what port 0x60 answers

ASSUME SyscallAssumption == Contents \cap {"none"} = {}

Numbers == 0 .. 4             \* call numbers; 0 stands for all that mean nothing
Scratch == {"eax", "ecx", "edx"}   \* what a compiled function does not preserve
Registers == Scratch \cup {"ebx", "ebp", "esi", "edi"}
NoRequest == [row |-> "none", text |-> "none"]

VARIABLES regs, eflags_IF, ring, eip,
          stack,
          at,       \* "program", or the instruction of a stub that comes next
          caller,   \* what the last system call was made with
          request   \* what the dispatcher takes as its arguments

cpu == <<regs, eflags_IF, ring, eip>>
syscall_vars == <<cpu, stack, at, caller, request>>

\* A program in ring 0, called with one word of its caller on the stack.
BootRegs == [r \in Registers |-> IF r = "eax" THEN 0 ELSE r]
BootStack == <<"frame_of_caller">>
BootCaller(flag) == [regs |-> BootRegs, eflags_IF |-> flag, stack |-> BootStack]

SyscallInit ==
    /\ regs = BootRegs /\ eflags_IF \in BOOLEAN
    /\ ring = 0 /\ eip = "program"
    /\ stack = BootStack
    /\ at = "program"
    /\ caller = BootCaller(eflags_IF)
    /\ request = NoRequest

Top(k) == stack[Len(stack) - k]        \* [esp + 4 * k]
Popped(k) == SubSeq(stack, 1, Len(stack) - k)

-----------------------------------------------------------------------------
(* A system call.                                                          *)

\* The program loads its registers and executes int 0x80.  The gate (flags 0xEE)
\* is an interrupt gate.
Int80 ==
    /\ at = "program"
    /\ \E n \in Numbers, a, b, c \in Contents :
         regs' = [regs EXCEPT !.eax = n, !.ebx = a, !.ecx = b, !.edx = c]
    /\ stack' = stack \o <<eflags_IF, ring, eip>>
    /\ eflags_IF' = FALSE /\ eip' = "stub"
    /\ caller' = [regs |-> regs', eflags_IF |-> eflags_IF, stack |-> stack]
    /\ at' = "pusha"
    /\ UNCHANGED <<ring, request>>

PushOrder == <<"eax", "ecx", "edx", "ebx", "esp", "ebp", "esi", "edi">>

Pusha ==
    /\ at = "pusha"
    /\ stack' = stack \o [n \in DOMAIN PushOrder |->
                            IF PushOrder[n] = "esp" THEN Len(stack) ELSE regs[PushOrder[n]]]
    /\ at' = "push_esp"
    /\ UNCHANGED <<cpu, caller, request>>

PushEsp ==
    /\ at = "push_esp"
    /\ stack' = Append(stack, Len(stack))
    /\ at' = "call"
    /\ UNCHANGED <<cpu, caller, request>>

\* syscall_dispatcher.  A compiled function leaves anything in its scratch
\* registers.  Calls 1, 3 and 4 take a row or a sector and a buffer; call 2
\* answers in the slot of eax.
Slot(k) == Top(0) - k                  \* &registers[k]

Answer_InRegister(byte) == stack
Answer(byte) == [stack EXCEPT ![Slot(7)] = byte]

Dispatch ==
    /\ at = "call"
    /\ \E junk \in Contents : regs' = [r \in Registers |-> IF r \in Scratch THEN junk ELSE regs[r]]
    /\ IF stack[Slot(7)] = 2
       THEN \E byte \in Bytes : stack' = Answer(byte)
       ELSE UNCHANGED stack
    /\ request' = IF stack[Slot(7)] \in {1, 3, 4}
                  THEN [row |-> stack[Slot(5)], text |-> stack[Slot(6)]]
                  ELSE NoRequest
    /\ at' = "add_esp"
    /\ UNCHANGED <<eflags_IF, ring, eip, caller>>

AddEsp ==
    /\ at = "add_esp"
    /\ stack' = Popped(1)
    /\ at' = "popa"
    /\ UNCHANGED <<cpu, caller, request>>

\* popa skips the slot of esp.
Popa ==
    /\ at = "popa"
    /\ regs' = [r \in Registers |-> Top(CHOOSE k \in 0 .. 7 : PushOrder[8 - k] = r)]
    /\ stack' = Popped(8)
    /\ at' = "iret"
    /\ UNCHANGED <<eflags_IF, ring, eip, caller, request>>

\* iret to ring 3 takes the stack pointer and its segment as well.
SysIret ==
    /\ at = "iret"
    /\ eip' = Top(0) /\ ring' = Top(1) /\ eflags_IF' = Top(2)
    /\ stack' = IF Top(1) = ring THEN Popped(3) ELSE << >>
    /\ at' = IF Top(1) = ring THEN "program" ELSE "fetch"
    /\ request' = NoRequest
    /\ UNCHANGED <<regs, caller>>

-----------------------------------------------------------------------------
(* Ring 3.                                                                 *)

\* A call of jump_to_ring3: entry_point_addr and the return address are pushed.
CallJump ==
    /\ at = "program"
    /\ stack' = stack \o <<"entry_point", "return_address">>
    /\ at' = "jump"
    /\ UNCHANGED <<cpu, caller, request>>

\* cli, four words of the frame, and then the word at [esp + 24] as the address to
\* go to: the argument is at [esp + 20], and this is the word above it.
jump_to_ring3 ==
    /\ at = "jump"
    /\ eflags_IF' = FALSE
    /\ LET frame == stack \o <<"user_ss", "user_esp", TRUE, 3>> IN
         stack' = Append(frame, frame[Len(frame) - 6])
    /\ regs' = [regs EXCEPT !.eax = stack'[Len(stack')]]
    /\ at' = "iret"
    /\ UNCHANGED <<ring, eip, caller, request>>

\* init_vmm fills two directories that map the first 4MB onto themselves, one for the
\* supervisor (0x03) and one for everyone (0x07), loads the first one into CR3, and
\* nothing ever loads the other: all code lies in pages of the supervisor.
page_directory == [present |-> TRUE, user |-> FALSE]
CR3 == page_directory
Accessible == CR3.present /\ (ring = 0 \/ CR3.user)

\* The first fetch: a page fault finds no gate, and the machine boots again.
Fetch ==
    /\ at = "fetch"
    /\ at' = "program"
    /\ IF Accessible
       THEN UNCHANGED <<cpu, stack, caller, request>>
       ELSE /\ regs' = BootRegs /\ eflags_IF' \in BOOLEAN
            /\ ring' = 0 /\ eip' = "program"
            /\ stack' = BootStack
            /\ caller' = BootCaller(eflags_IF')
            /\ request' = NoRequest

-----------------------------------------------------------------------------
SyscallNext ==
    \/ Int80 \/ Pusha \/ PushEsp \/ Dispatch \/ AddEsp \/ Popa \/ SysIret
    \/ CallJump \/ jump_to_ring3 \/ Fetch

SyscallSpec == SyscallInit /\ [][SyscallNext]_syscall_vars

-----------------------------------------------------------------------------
(* Properties.                                                             *)

\* What a call that is over leaves its caller with.
Resumed ==
    /\ stack = caller.stack /\ eflags_IF = caller.eflags_IF
    /\ \A r \in Registers \ {"eax"} : regs[r] = caller.regs[r]
    /\ IF caller.regs.eax = 2 THEN regs.eax \in Bytes ELSE regs.eax = caller.regs.eax

\* A system call gives its caller back every register, the stack and the interrupt
\* flag ("Restore user-space registers cleanly to their pristine states",
\* boot.s:100), except that call 2 answers in eax.
CallIsTransparent == at = "program" /\ ring = 0 => Resumed

\* What the comments of the dispatcher say of its arguments: the buffer is what the
\* caller had in ebx, the row or sector what it had in ecx (kernel.cpp:203-205,
\* docs/ARCHITECTURE.md:71-73).  pusha puts ecx and edx there.
ArgumentsAreDocumented ==
    request # NoRequest => request = [row |-> caller.regs.ecx, text |-> caller.regs.ebx]

\* What the comments of jump_to_ring3 say: it goes to the address "passed from C++"
\* (boot.s:138).  The word it takes is the one above that.
JumpReachesEntry == at = "fetch" => eip = "entry_point"
=============================================================================
