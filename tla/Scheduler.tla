----------------------------- MODULE Scheduler -----------------------------
(***************************************************************************)
(* The cooperative scheduler of kernel/task.cpp, with the two pieces of    *)
(* kernel/boot.s it stands on: context_switch and the interrupt stubs.     *)
(*                                                                         *)
(* There is one CPU.  It has an instruction pointer, a stack pointer, a    *)
(* register file and the interrupt flag IF; everything a thread that does  *)
(* not run will need again is in the words of its stack.  A stack is an    *)
(* array of words that grows downwards; a stack pointer is the stack and   *)
(* the index of the word last pushed.  Threads form a ring of control      *)
(* blocks; switch_task masks interrupts, moves running_task to the next    *)
(* block, pushes the registers, parks the stack pointer in the old block,  *)
(* takes the one in the new block and pops.                                *)
(*                                                                         *)
(* An interrupt handler is one step: its gate clears IF, no handler sets   *)
(* it or switches threads, so that nothing runs until its iret.  What it   *)
(* leaves behind is garbage in the words below the stack pointer.          *)
(***************************************************************************)
EXTENDS Integers, FiniteSets

CONSTANTS N,           \* how many times create_thread is called
          BootYields,  \* does the boot thread call switch_task?  As shipped it does
                       \* not: kernel_main enters antagonist_main and stays there
          Registers,   \* words that pusha stores (8)
          IsrWords,    \* words an interrupt pushes (3 by the CPU, 8 by pusha, ..)
          StackWords,  \* words of a stack (1024 for a thread)
          Values       \* what a thread may leave in its registers

ASSUME SchedulerAssumption ==
    /\ N \in Nat
    /\ BootYields \in BOOLEAN
    /\ Registers \in Nat \ {0}
    /\ IsrWords \in Nat
    /\ StackWords \in Nat
    /\ StackWords >= Registers + 2 /\ StackWords >= IsrWords + 1
    /\ Values # {}

NULL == 0
KernelTask == 1      \* the control block, and the stack, of the boot thread
Blocks == NULL .. N + 1

\* The addresses kmalloc gives to the k-th thread: a control block and a stack.
\* create_thread does not check that there are any; here there always are.
TcbOf(k) == k + 1
StackOf(k) == k + 1

\* Code addresses.  The first three call switch_task.
Callers == {"boot", "entry", "finished"}
Creating == {"create", "link new", "link head"}
Switching == {"mask", "save", "load", "return"}
Code == Callers \cup Creating \cup Switching \cup {"bootstrap", "guard", "switched"}

ZeroWord == "zero"
Junk == "junk"
Word == Code \cup Values \cup {ZeroWord, Junk}

VARIABLES eip, esp, regs, IF_,  \* the CPU
          mem,             \* stack |-> its words
          tcb,             \* address |-> thread_control_block
          running_task, created, \* created = next_thread_id - 1
          old_task,        \* the local variable of switch_task
          saved,           \* control block |-> what its thread had when it called
          waited           \* control block |-> switches since its thread last ran

cpu == <<eip, esp, regs, IF_>>
ghosts == <<saved, waited>>
vars == <<cpu, mem, tcb, running_task, created, old_task, ghosts>>

-----------------------------------------------------------------------------
(* The machine.                                                            *)

RegisterFile == 1 .. Registers

At(s, i) == [stack |-> s, at |-> i]
Lower(e, n) == [e EXCEPT !.at = @ - n]
Raise(e, n) == [e EXCEPT !.at = @ + n]

\* Beyond the top of a stack lies somebody else's memory.
ReadAt(e, i) == IF i \in 1 .. StackWords THEN mem[e.stack][i] ELSE Junk
Top(e) == ReadAt(e, e.at)

Push(m, e, w) == [m EXCEPT ![e.stack][e.at - 1] = w]

\* The registers are the ones of the call, although context_switch has loaded its two
\* arguments into eax and edx by then: no caller expects to find either again.
Pusha(m, e) ==
    [m EXCEPT ![e.stack] =
        [i \in 1 .. StackWords |->
            IF i \in e.at - Registers .. e.at - 1
            THEN regs[i - (e.at - Registers) + 1]
            ELSE @[i]]]

Popa(e) == [r \in RegisterFile |-> ReadAt(e, e.at + r - 1)]

\* The 36 bytes create_thread writes at the top of a new stack: the address of
\* thread_bootstrap, and below it the frame that popa will take.
FabricatedEsp(s) == At(s, StackWords - Registers)
Fabricate(m, s) ==
    [m EXCEPT ![s] =
        [i \in 1 .. StackWords |->
            IF i = StackWords THEN "bootstrap"
            ELSE IF i >= FabricatedEsp(s).at THEN ZeroWord
            ELSE @[i]]]

-----------------------------------------------------------------------------
(* init_multitasking, called by kernel_main with interrupts disabled.      *)

Init ==
    /\ eip = "boot"
    /\ esp = At(KernelTask, StackWords + 1)
    /\ regs = [r \in RegisterFile |-> ZeroWord]
    /\ IF_ = FALSE
    /\ mem = [s \in Blocks |-> [i \in 1 .. StackWords |-> Junk]]
    /\ tcb = [b \in Blocks |-> [id    |-> 0,
                                esp   |-> At(NULL, 0),
                                entry |-> FALSE,
                                next  |-> KernelTask]]
    /\ running_task = KernelTask
    /\ created = 0
    /\ old_task = NULL
    /\ saved = [b \in Blocks |-> [esp |-> At(b, 0), regs |-> regs]]
    /\ waited = [b \in Blocks |-> 0]

-----------------------------------------------------------------------------
(* create_thread.  The boot thread calls it.                               *)

new == TcbOf(created)     \* the block being made, once created was raised

CreateThread ==
    /\ eip = "boot"
    /\ created < N
    /\ created' = created + 1
    /\ tcb' = [tcb EXCEPT ![TcbOf(created')] =
                  [@ EXCEPT !.id = created',
                            !.entry = TRUE,
                            !.esp = FabricatedEsp(StackOf(created'))]]
    /\ mem' = Fabricate(mem, StackOf(created'))
    /\ saved' = [saved EXCEPT ![TcbOf(created')] =
                    [esp  |-> At(StackOf(created'), StackWords + 1),
                     regs |-> [r \in RegisterFile |-> ZeroWord]]]
    /\ waited' = [waited EXCEPT ![TcbOf(created')] = 0]
    /\ eip' = "link new"
    /\ UNCHANGED <<esp, regs, IF_, running_task, old_task>>

LinkNew_SkipsRest ==
    /\ eip = "link new"
    /\ tcb' = [tcb EXCEPT ![new].next = KernelTask]
    /\ eip' = "link head"
    /\ UNCHANGED <<esp, regs, IF_, mem, running_task, created, old_task, ghosts>>
LinkNew ==
    /\ eip = "link new"
    /\ tcb' = [tcb EXCEPT ![new].next = tcb[KernelTask].next]
    /\ eip' = "link head"
    /\ UNCHANGED <<esp, regs, IF_, mem, running_task, created, old_task, ghosts>>

LinkHead ==
    /\ eip = "link head"
    /\ tcb' = [tcb EXCEPT ![KernelTask].next = new]
    /\ eip' = "boot"
    /\ UNCHANGED <<esp, regs, IF_, mem, running_task, created, old_task, ghosts>>

-----------------------------------------------------------------------------
(* Threads.                                                                *)

\* kernel_main and the entry routines use the registers.
Compute ==
    /\ eip \in {"boot", "entry"}
    /\ regs' \in [RegisterFile -> Values]
    /\ UNCHANGED <<eip, esp, IF_, mem, tcb, running_task, created, old_task, ghosts>>

\* A call of switch_task: the return address goes on the stack.  A boot thread that
\* never calls it keeps the CPU.
CallSwitch ==
    /\ eip \in Callers
    /\ eip = "boot" => BootYields
    /\ mem' = Push(mem, esp, eip)
    /\ esp' = Lower(esp, 1)
    /\ eip' = "guard"
    /\ UNCHANGED <<regs, IF_, tcb, running_task, created, old_task, ghosts>>

Bootstrap ==
    /\ eip = "bootstrap"
    /\ IF_' = TRUE
    /\ eip' = IF running_task # NULL /\ tcb[running_task].entry
              THEN "entry" ELSE "finished"
    /\ UNCHANGED <<esp, regs, mem, tcb, running_task, created, old_task, ghosts>>

\* The entry routine returns to thread_bootstrap, which yields for ever.
EntryReturns ==
    /\ eip = "entry"
    /\ eip' = "finished"
    /\ UNCHANGED <<esp, regs, IF_, mem, tcb, running_task, created, old_task, ghosts>>

-----------------------------------------------------------------------------
(* switch_task and context_switch.                                         *)

Alone == running_task = NULL \/ tcb[running_task].next = running_task

SwitchReturns ==
    /\ eip = "guard" /\ Alone
    /\ eip' = Top(esp)
    /\ esp' = Raise(esp, 1)
    /\ UNCHANGED <<regs, IF_, mem, tcb, running_task, created, old_task, ghosts>>

MaskInterrupts_Not ==
    /\ eip = "guard" /\ ~Alone
    /\ eip' = "mask"
    /\ UNCHANGED <<esp, regs, IF_, mem, tcb, running_task, created, old_task, ghosts>>
MaskInterrupts ==
    /\ eip = "guard" /\ ~Alone
    /\ IF_' = FALSE
    /\ eip' = "mask"
    /\ UNCHANGED <<esp, regs, mem, tcb, running_task, created, old_task, ghosts>>

\* running_task moves on, and the call of context_switch pushes the address
\* at which this thread will wake up.
AdvanceRunning_AfterHead ==
    /\ eip = "mask"
    /\ old_task' = running_task
    /\ running_task' = IF running_task = KernelTask THEN tcb[KernelTask].next ELSE KernelTask
    /\ mem' = Push(mem, esp, "switched")
    /\ esp' = Lower(esp, 1)
    /\ eip' = "save"
    /\ saved' = [saved EXCEPT ![running_task] = [esp |-> esp, regs |-> regs]]
    /\ UNCHANGED <<regs, IF_, tcb, created, waited>>
AdvanceRunning ==
    /\ eip = "mask"
    /\ old_task' = running_task
    /\ running_task' = tcb[running_task].next
    /\ mem' = Push(mem, esp, "switched")
    /\ esp' = Lower(esp, 1)
    /\ eip' = "save"
    /\ saved' = [saved EXCEPT ![running_task] = [esp |-> esp, regs |-> regs]]
    /\ UNCHANGED <<regs, IF_, tcb, created, waited>>

\* pusha ; mov [eax], esp
SaveContext_BeforePush ==
    /\ eip = "save"
    /\ mem' = Pusha(mem, esp)
    /\ esp' = Lower(esp, Registers)
    /\ tcb' = [tcb EXCEPT ![old_task].esp = esp]
    /\ eip' = "load"
    /\ UNCHANGED <<regs, IF_, running_task, created, old_task, ghosts>>
SaveContext ==
    /\ eip = "save"
    /\ mem' = Pusha(mem, esp)
    /\ esp' = Lower(esp, Registers)
    /\ tcb' = [tcb EXCEPT ![old_task].esp = esp']
    /\ eip' = "load"
    /\ UNCHANGED <<regs, IF_, running_task, created, old_task, ghosts>>

\* mov esp, edx ; popa
LoadContext ==
    /\ eip = "load"
    /\ regs' = Popa(tcb[running_task].esp)
    /\ esp' = Raise(tcb[running_task].esp, Registers)
    /\ eip' = "return"
    /\ waited' = [b \in Blocks |->
                    IF b = running_task \/ b \notin {TcbOf(k) : k \in 1 .. created}
                                                     \cup {KernelTask}
                    THEN 0 ELSE waited[b] + 1]
    /\ UNCHANGED <<IF_, mem, tcb, running_task, created, old_task, saved>>

\* ret
ContextReturn ==
    /\ eip = "return"
    /\ eip' = Top(esp)
    /\ esp' = Raise(esp, 1)
    /\ UNCHANGED <<regs, IF_, mem, tcb, running_task, created, old_task, ghosts>>

\* sti ; return to the caller of switch_task
Switched ==
    /\ eip = "switched"
    /\ IF_' = TRUE
    /\ eip' = Top(esp)
    /\ esp' = Raise(esp, 1)
    /\ UNCHANGED <<regs, mem, tcb, running_task, created, old_task, ghosts>>

-----------------------------------------------------------------------------
(* get_thread_count, which the keyboard handler may call at any interrupt, *)
(* for "meminfo".                                                          *)

\* The block that is k links after the head.
Walk[k \in 0 .. N + 2] ==
    IF k = 0 THEN KernelTask ELSE tcb[Walk[k - 1]].next

Laps == {k \in 1 .. N + 2 : Walk[k] = KernelTask}
Forever == 0             \* the walk never comes back to the head
ThreadCount ==
    IF Laps = {} THEN Forever
    ELSE CHOOSE k \in Laps : \A j \in Laps : k <= j

Interrupt ==
    /\ IF_
    /\ mem' = [mem EXCEPT ![esp.stack] =
                  [i \in 1 .. StackWords |->
                      IF i \in esp.at - IsrWords .. esp.at - 1 THEN Junk ELSE @[i]]]
    /\ UNCHANGED <<cpu, tcb, running_task, created, old_task, ghosts>>

-----------------------------------------------------------------------------
CpuStep ==
    \/ CreateThread \/ LinkNew \/ LinkHead
    \/ CallSwitch \/ Bootstrap \/ EntryReturns
    \/ SwitchReturns \/ MaskInterrupts \/ AdvanceRunning \/ SaveContext
    \/ LoadContext \/ ContextReturn \/ Switched

Next == CpuStep \/ Compute \/ Interrupt

\* The CPU never stops executing, and what the alpha and beta routines compute
\* between two calls of switch_task is a bounded loop.  A boot thread that does
\* not yield computes for ever.  Nothing is promised about interrupts.
Spec == Init /\ [][Next]_vars /\ WF_vars(CpuStep)

-----------------------------------------------------------------------------
(* Properties.                                                             *)

\* The threads in the ring: the head, and every thread whose creation is over.
Linked == {KernelTask} \cup
          {TcbOf(k) : k \in 1 .. IF eip \in Creating THEN created - 1 ELSE created}

StackPointer == [stack : Blocks, at : 0 .. StackWords + 1]

\* The CPU, the control blocks and running_task hold values of their types: in
\* particular the CPU never jumps to a word that is not a code address, and no
\* stack pointer leaves its stack.
TypeOK ==
    /\ eip \in Code
    /\ esp \in StackPointer
    /\ regs \in [RegisterFile -> Word]
    /\ IF_ \in BOOLEAN
    /\ mem \in [Blocks -> [1 .. StackWords -> Word]]
    /\ tcb \in [Blocks -> [id : 0 .. N, esp : StackPointer, entry : BOOLEAN, next : Blocks]]
    /\ running_task \in Blocks
    /\ created \in 0 .. N

\* An interrupt never writes past the bottom of the stack it lands on ("every
\* hardware interrupt also lands on the active task's stack", task.cpp:58), and
\* neither does a context switch.
StackHasRoom ==
    /\ TypeOK
    /\ esp.at >= 1
    /\ IF_ => esp.at > IsrWords

\* What a thread wakes up with is what it had when it called switch_task.
AwakeIntact ==
    eip \in {"switched", "bootstrap"} =>
        saved[running_task] = [esp |-> esp, regs |-> regs]

\* The parked stack pointer of every other thread leads to its registers and then
\* to a place to continue.
ParkedIntact ==
    \A b \in Linked \ (IF eip \in {"save", "load"} THEN {old_task, running_task}
                                                  ELSE {running_task}) :
        /\ Popa(tcb[b].esp) = saved[b].regs
        /\ Top(Raise(tcb[b].esp, Registers)) \in {"switched", "bootstrap"}

\* A thread wakes up with the registers and the stack pointer it had when it
\* called switch_task, whatever ran in between, interrupts on the stacks of other
\* threads included; a new one wakes up with zeroed registers on an empty stack (the
\* frame layout of create_thread, task.cpp:68-78, against the pushes and pops of
\* context_switch).
ContextIntact == AwakeIntact /\ ParkedIntact

\* The ring visits every thread exactly once and comes back, also while a new
\* thread is being linked in (task.cpp:90-91 fill in the new block before they
\* publish it), so that the walk of an interrupt handler always ends.
RingComplete ==
    /\ ThreadCount = Cardinality(Linked)
    /\ {Walk[k] : k \in 0 .. ThreadCount} = Linked

\* Round robin: between two turns of a thread every other one has had at most
\* one turn, also when threads were created meanwhile.
BoundedWaiting == \A b \in Linked : waited[b] <= Cardinality(Linked) - 1

\* What the repository says of the two threads: they run "concurrently"
\* (docs/ARCHITECTURE.md:100, kernel.cpp:144-145), so that a thread that was created gets
\* the CPU again and again, a finished one included, which keeps yielding
\* (task.cpp:33-38).  As shipped the boot thread never gives the CPU away.
EveryThreadRuns ==
    \A k \in 1 .. N :
        (TcbOf(k) \in Linked /\ created >= k) ~>
            (running_task = TcbOf(k) /\ eip \in {"entry", "finished"})
=============================================================================
