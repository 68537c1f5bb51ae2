------------------------------- MODULE Window -------------------------------
(* What the tokenizer's context promises: the latest tokens, oldest first.  *)
EXTENDS Naturals, Sequences

CONSTANTS Tokens,  \* what is pushed
          Length   \* how many are remembered

VARIABLE window

Init == window = << >>

Push(t) ==
    window' = Append(IF Len(window) < Length THEN window ELSE Tail(window), t)

Spec == Init /\ [][\E t \in Tokens : Push(t)]_window
=============================================================================
