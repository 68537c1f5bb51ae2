----------------------------- MODULE MCSyscall -----------------------------
(* Two contents suffice to tell any two registers apart.                    *)
EXTENDS Syscall
=============================================================================
