------------------------------ MODULE MCEntry ------------------------------
(* What enters the kernel: interrupts, system calls, and the keys that the  *)
(* keyboard handler acts upon.  The three modules share no variable: one is *)
(* explored while the others stay as they are at boot.                      *)
EXTENDS MCInterrupts, MCSyscall, MCShell

VARIABLE part                      \* what is explored

MCInit ==
    /\ part \in {"interrupts", "calls", "shell"}
    /\ Init /\ SyscallInit /\ ShellInit
    /\ part # "calls" => ~eflags_IF

MCNext ==
    /\ \/ /\ part = "interrupts" /\ Next
          /\ UNCHANGED <<syscall_vars, shell_vars>>
       \/ /\ part = "calls" /\ SyscallNext
          /\ UNCHANGED <<vars, shell_vars>>
       \/ /\ part = "shell" /\ ShellNext
          /\ UNCHANGED <<vars, syscall_vars>>
    /\ UNCHANGED part

\* The fairness of Interrupts.
MCSpec ==
    /\ MCInit /\ [][MCNext]_<<part, vars, syscall_vars, shell_vars>>
    /\ WF_vars(part = "interrupts" /\ HandlerStep)
    /\ WF_vars(part = "interrupts" /\ Sti)
    /\ \A l \in Lines : SF_vars(part = "interrupts" /\ Deliver(l))
=============================================================================
