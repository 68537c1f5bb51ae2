-------------------------- MODULE InterruptsProofs --------------------------
(***************************************************************************)
(* Theorems about Interrupts, for every set of keys and every number of    *)
(* pulses, bytes and commands: handlers do not nest, no interrupt comes in *)
(* on a line without a gate, and the key matrix is true; and about the     *)
(* software interrupt (Syscall), for every content of the registers: a     *)
(* call gives its caller back all it had.                                  *)
(***************************************************************************)
EXTENDS Interrupts, Syscall, SequenceTheorems, TLAPS

Frames == [line : Gates, flag : BOOLEAN, step : Steps]
KeyBytes == [key : Keys, released : BOOLEAN]

\* One handler at most, with interrupts disabled.
AtMostOne == frames = << >> \/ \E f \in Frames : frames = <<f>> /\ ~IF_

\* The drive never asks for its line: nIEN is set before each command.
DriveIsSilent == Disk \notin irr /\ (executing => nIEN) /\ ~reset

\* A pulse is on its way, requested or delivered, until it is counted.
Uncounted == \E f \in Frames : frames = <<f>> /\ f.line = Timer /\ f.step = "handler"
TicksAreCounted ==
    timer_ticks + (IF Timer \in irr THEN 1 ELSE 0) + (IF Uncounted THEN 1 ELSE 0) <= pulses

\* Unless the last byte of a key was lost: the last one that waits to be read tells
\* whether the key is down; when none waits, the matrix does.
LastOf(k, i) == keys[i].key = k /\ \A j \in 1 .. Len(keys) : keys[j].key = k => j <= i
Told(k) ==
    \/ k \in missed
    \/ \E i \in 1 .. Len(keys) : LastOf(k, i) /\ (keys[i].released <=> k \notin down)
    \/ /\ \A i \in 1 .. Len(keys) : keys[i].key # k
       /\ keyboard_matrix[k] = 1 <=> k \in down
KeysAreTold == keys \in Seq(KeyBytes) /\ \A k \in Keys : Told(k)

Flags ==
    /\ IF_ \in BOOLEAN /\ nIEN \in BOOLEAN /\ executing \in BOOLEAN /\ reset \in BOOLEAN
    /\ irr \subseteq Lines /\ isr \subseteq Lines
    /\ timer_ticks \in Nat /\ pulses \in 0 .. MaxPulses
    /\ down \subseteq Keys /\ missed \subseteq Keys /\ keyboard_matrix \in [Keys -> {0, 1}]
    /\ commands \in 0 .. MaxCommands

IInv == Flags /\ AtMostOne /\ DriveIsSilent /\ TicksAreCounted /\ KeysAreTold

-----------------------------------------------------------------------------
(* The frames.                                                             *)

\* What a running handler says of the frames, and what a step of it does to them.
LEMMA RunningFrame ==
    ASSUME AtMostOne, NEW l, NEW s, Running(l, s)
    PROVE  \E f \in Frames : frames = <<f>> /\ f.line = l /\ f.step = s /\ ~IF_
BY DEF AtMostOne, Running

LEMMA GotoFrame ==
    ASSUME NEW f \in Frames, frames = <<f>>, NEW s \in Steps, Goto(s)
    PROVE  \E g \in Frames : frames' = <<g>> /\ g.line = f.line /\ g.step = s
<1> DEFINE g == [f EXCEPT !.step = s]
<1>1. g \in Frames /\ g.line = f.line /\ g.step = s
    BY DEF Frames
<1>2. frames' = <<g>>
    BY DEF Goto
<1> HIDE DEF g
<1> QED BY <1>1, <1>2

\* A step of a handler, other than one that counts, leaves no more to be counted.
LEMMA HandlerStays ==
    ASSUME AtMostOne, NEW l, NEW s, Running(l, s),
           NEW n \in Steps \ {"handler"}, Goto(n), UNCHANGED IF_
    PROVE  AtMostOne' /\ ~Uncounted'
<1>1. PICK f \in Frames : frames = <<f>> /\ ~IF_
    BY RunningFrame
<1>2. PICK g \in Frames : frames' = <<g>> /\ g.step = n
    BY <1>1, GotoFrame
<1> QED BY <1>1, <1>2 DEF AtMostOne, Uncounted

-----------------------------------------------------------------------------
(* The keys.                                                               *)

LEMMA LostTells ==
    ASSUME KeysAreTold, NEW k \in Keys, Strike(k), ~(Len(keys) < FifoSize)
    PROVE  KeysAreTold'
<1>1. keys' = keys /\ missed' = missed \cup {k} /\ UNCHANGED keyboard_matrix
    BY DEF Strike, kernel
<1>2. \A h \in Keys \ {k} : h \in down' <=> h \in down
    BY DEF Strike
<1> QED BY <1>1, <1>2 DEF KeysAreTold, Told, LastOf

LEMMA StrikeTells ==
    ASSUME KeysAreTold, down \subseteq Keys, NEW k \in Keys, Strike(k), Len(keys) < FifoSize
    PROVE  KeysAreTold'
<1> DEFINE byte == [key |-> k, released |-> k \in down]
<1> PICK n \in Nat : n = Len(keys)
    BY LenProperties DEF KeysAreTold
<1>1. byte \in KeyBytes /\ keys \in Seq(KeyBytes) /\ keys' = Append(keys, byte)
    BY DEF Strike, KeysAreTold, KeyBytes
<1>4. byte.key = k
    OBVIOUS
<1>5. byte.released <=> k \in down
    BY Zenon
<1> HIDE DEF byte
<1>2. /\ n \in Nat /\ keys' \in Seq(KeyBytes) /\ Len(keys') = n + 1
      /\ \A i \in 1 .. n : keys'[i] = keys[i]
      /\ keys'[n + 1] = byte
    BY <1>1, AppendProperties, LenProperties
<1>3. down' = IF k \in down THEN down \ {k} ELSE down \cup {k}
    BY DEF Strike
<1>6. UNCHANGED keyboard_matrix
    BY DEF Strike, kernel
<1>7. ASSUME NEW h \in Keys PROVE Told(h)'
    <2>1. CASE h = k
        <3>1. LastOf(k, n + 1)'
            <4>1. keys'[n + 1].key = k /\ \A j \in 1 .. Len(keys') : j <= n + 1
                BY <1>2, <1>4
            <4> QED BY <4>1 DEF LastOf
        <3>2. keys'[n + 1].released <=> k \notin down'
            <4>1. k \in down' <=> k \notin down
                BY <1>3
            <4> QED BY <1>2, <1>5, <4>1
        <3> QED BY <1>2, <2>1, <3>1, <3>2 DEF Told
    <2>2. CASE h # k
        <3>1. h \in down' <=> h \in down
            BY <1>3, <2>2
        <3>2. Told(h)
            BY DEF KeysAreTold
        <3>3. byte.key # h /\ (h \in missed => h \in missed')
            BY <1>4, <2>2 DEF Strike
        <3>4. CASE \E i \in 1 .. Len(keys) : LastOf(h, i) /\ (keys[i].released <=> h \notin down)
            <4>1. PICK i \in 1 .. n : LastOf(h, i) /\ (keys[i].released <=> h \notin down)
                BY <3>4
            <4>2. i \in 1 .. n + 1 /\ keys'[i] = keys[i]
                BY <1>2
            <4>3. LastOf(h, i)'
                <5>1. keys'[i].key = h
                    BY <4>1, <4>2 DEF LastOf
                <5>2. ASSUME NEW j \in 1 .. n + 1, keys'[j].key = h PROVE j <= i
                    <6>1. j # n + 1
                        BY <1>2, <3>3, <5>2
                    <6>2. j \in 1 .. n /\ keys'[j] = keys[j]
                        BY <1>2, <6>1
                    <6> QED BY <4>1, <5>2, <6>2 DEF LastOf
                <5> QED BY <1>2, <5>1, <5>2 DEF LastOf
            <4> QED BY <1>2, <3>1, <4>1, <4>2, <4>3 DEF Told
        <3>5. CASE /\ \A i \in 1 .. Len(keys) : keys[i].key # h
                   /\ keyboard_matrix[h] = 1 <=> h \in down
            <4>1. ASSUME NEW i \in 1 .. n + 1 PROVE keys'[i].key # h
                <5>1. CASE i = n + 1
                    BY <1>2, <3>3, <5>1
                <5>2. CASE i \in 1 .. n
                    BY <1>2, <3>5, <5>2
                <5> QED BY <1>2, <5>1, <5>2
            <4> QED BY <1>2, <1>6, <3>1, <3>5, <4>1 DEF Told
        <3> QED BY <3>2, <3>3, <3>4, <3>5 DEF Told
    <2> QED BY <2>1, <2>2
<1> QED BY <1>2, <1>7 DEF KeysAreTold

LEMMA ReadTells ==
    ASSUME KeysAreTold, keyboard_matrix \in [Keys -> {0, 1}],
           keys # << >>, TakeByte, keyboard_matrix' = MatrixAfter(Head(keys)),
           UNCHANGED <<down, missed>>
    PROVE  KeysAreTold' /\ keyboard_matrix' \in [Keys -> {0, 1}]
<1> DEFINE byte == Head(keys)
           n == Len(keys)
<1>1. /\ keys \in Seq(KeyBytes) /\ keys' = Tail(keys) /\ n \in Nat \ {0}
      /\ byte \in KeyBytes /\ byte = keys[1]
    BY EmptySeq, HeadTailProperties DEF KeysAreTold, TakeByte
<1>2. /\ keys' \in Seq(KeyBytes) /\ Len(keys') = n - 1
      /\ \A i \in 1 .. n - 1 : keys'[i] = keys[i + 1]
    BY <1>1, HeadTailProperties
<1>3. keyboard_matrix' = [keyboard_matrix EXCEPT ![byte.key] = IF byte.released THEN 0 ELSE 1]
    BY DEF MatrixAfter
<1>4. keyboard_matrix' \in [Keys -> {0, 1}]
    BY <1>1, <1>3 DEF KeyBytes
<1> HIDE DEF n, byte
<1>5. ASSUME NEW h \in Keys PROVE Told(h)'
    <2>0. Told(h)
        BY DEF KeysAreTold
    <2>1. CASE \E i \in 1 .. Len(keys) : LastOf(h, i) /\ (keys[i].released <=> h \notin down)
        <3>1. PICK i \in 1 .. n : LastOf(h, i) /\ (keys[i].released <=> h \notin down)
            BY <2>1 DEF n
        <3>2. CASE i = 1
            <4>1. byte.key = h /\ (byte.released <=> h \notin down)
                BY <1>1, <3>1, <3>2 DEF LastOf
            <4>2. \A j \in 1 .. n - 1 : keys'[j].key # h
                <5>1. TAKE j \in 1 .. n - 1
                <5>2. j + 1 \in 1 .. n /\ keys'[j] = keys[j + 1] /\ ~(j + 1 <= i)
                    BY <1>1, <1>2, <3>2
                <5> QED BY <3>1, <5>2 DEF LastOf, n
            <4>3. keyboard_matrix'[h] = 1 <=> h \in down
                BY <1>3, <4>1
            <4> QED BY <1>2, <4>2, <4>3 DEF Told
        <3>3. CASE i # 1
            <4>1. i - 1 \in 1 .. n - 1 /\ keys'[i - 1] = keys[i]
                BY <1>1, <1>2, <3>3
            <4>2. LastOf(h, i - 1)'
                <5>1. keys'[i - 1].key = h
                    BY <3>1, <4>1 DEF LastOf
                <5>2. ASSUME NEW j \in 1 .. n - 1, keys'[j].key = h PROVE j <= i - 1
                    <6>1. j + 1 \in 1 .. n /\ keys[j + 1].key = h
                        BY <1>1, <1>2, <5>2
                    <6>2. j + 1 <= i
                        BY <3>1, <6>1 DEF LastOf, n
                    <6> QED BY <1>1, <6>2
                <5> QED BY <1>2, <5>1, <5>2 DEF LastOf
            <4> QED BY <1>2, <3>1, <4>1, <4>2 DEF Told
        <3> QED BY <3>2, <3>3
    <2>2. CASE /\ \A i \in 1 .. Len(keys) : keys[i].key # h
               /\ keyboard_matrix[h] = 1 <=> h \in down
        <3>1. byte.key # h
            BY <1>1, <2>2 DEF n
        <3>2. ASSUME NEW j \in 1 .. n - 1 PROVE keys'[j].key # h
            <4>1. j + 1 \in 1 .. n /\ keys'[j] = keys[j + 1]
                BY <1>1, <1>2
            <4> QED BY <2>2, <4>1 DEF n
        <3>3. keyboard_matrix'[h] = keyboard_matrix[h]
            BY <1>3, <3>1
        <3> QED BY <1>2, <2>2, <3>2, <3>3 DEF Told
    <2>3. CASE h \in missed
        BY <2>3 DEF Told
    <2> QED BY <2>0, <2>1, <2>2, <2>3 DEF Told
<1> QED BY <1>2, <1>4, <1>5 DEF KeysAreTold

\* What does not touch the keys leaves them told.
LEMMA KeysStayTold ==
    ASSUME KeysAreTold, UNCHANGED <<keys, down, missed, keyboard_matrix>>
    PROVE  KeysAreTold'
BY DEF KeysAreTold, Told, LastOf

-----------------------------------------------------------------------------
(* The invariant.                                                          *)

LEMMA Preserved == IInv /\ [Next]_vars => IInv'
<1> SUFFICES ASSUME IInv, [Next]_vars PROVE IInv'
    OBVIOUS
<1> USE DEF Flags, kernel, devices, disk, DriveIsSilent, TicksAreCounted
<1>0. Flags /\ AtMostOne /\ DriveIsSilent /\ TicksAreCounted /\ KeysAreTold
    BY DEF IInv
<1>1. CASE Pulse
    <2>1. AtMostOne' /\ KeysAreTold' /\ (Uncounted' <=> Uncounted)
        BY <1>0, <1>1, KeysStayTold DEF Pulse, AtMostOne, Uncounted
    <2> QED BY <1>0, <1>1, <2>1, InterruptsAssumption
        DEF InterruptsAssumption, IInv, Pulse, Lines, Timer, Disk
<1>2. CASE CommandEnds
    <2>1. AtMostOne' /\ KeysAreTold' /\ (Uncounted' <=> Uncounted)
        BY <1>0, <1>2, KeysStayTold DEF CommandEnds, AtMostOne, Uncounted
    <2> QED BY <1>0, <1>2, <2>1 DEF IInv, CommandEnds
<1>3. ASSUME NEW k \in Keys, Strike(k) PROVE IInv'
    <2>1. AtMostOne' /\ KeysAreTold' /\ (Uncounted' <=> Uncounted)
        BY <1>0, <1>3, StrikeTells, LostTells DEF Strike, AtMostOne, Uncounted
    <2>2. irr' \in {irr, irr \cup {Keyboard}} /\ down' \subseteq Keys /\ missed' \subseteq Keys
        BY <1>0, <1>3 DEF Strike
    <2> QED BY <1>0, <1>3, <2>1, <2>2 DEF IInv, Strike, Lines, Timer, Disk, Keyboard
<1>4. ASSUME NEW l \in Lines, Deliver(l) PROVE IInv'
    <2>1. l \in Gates /\ frames = << >> /\ l \in irr
        BY <1>0, <1>4 DEF Deliver, AtMostOne, Lines, Gates
    <2> DEFINE f == [line |-> l, flag |-> IF_, step |-> "handler"]
    <2>2. f \in Frames /\ f.line = l
        BY <1>0, <2>1 DEF Frames, Steps
    <2>3. frames' = <<f>> /\ ~IF_' /\ irr' = irr \ {l} /\ UNCHANGED reset
        BY <1>4, <2>1 DEF Deliver, GateFlag
    <2> HIDE DEF f
    <2>4. AtMostOne' /\ ~Uncounted /\ (Uncounted' => l = Timer)
        BY <2>1, <2>2, <2>3 DEF AtMostOne, Uncounted
    <2>5. KeysAreTold'
        BY <1>0, <1>4, KeysStayTold DEF Deliver
    <2>6. isr' = isr \cup {l} /\ UNCHANGED <<kernel, devices, disk>> /\ IF_' \in BOOLEAN
        BY <1>4, <2>1 DEF Deliver, GateFlag
    <2> QED BY <1>0, <2>1, <2>3, <2>4, <2>5, <2>6 DEF IInv
<1>5. CASE TimerCount
    <2>1. AtMostOne' /\ ~Uncounted'
        BY <1>0, <1>5, HandlerStays DEF TimerCount, Steps
    <2>2. Uncounted
        BY <1>0, <1>5, RunningFrame DEF TimerCount, Uncounted
    <2>3. KeysAreTold'
        BY <1>0, <1>5, KeysStayTold DEF TimerCount
    <2> QED BY <1>0, <1>5, <2>1, <2>2, <2>3 DEF IInv, TimerCount
<1>6. CASE TimerEoi
    <2>1. AtMostOne' /\ ~Uncounted'
        BY <1>0, <1>6, HandlerStays DEF TimerEoi, Steps
    <2>2. KeysAreTold'
        BY <1>0, <1>6, KeysStayTold DEF TimerEoi
    <2>3. isr' \subseteq Lines
        BY <1>0, <1>6 DEF TimerEoi, AfterEoi
    <2>4. UNCHANGED <<IF_, irr, reset, kernel, devices, disk>>
        BY <1>6 DEF TimerEoi
    <2> QED BY <1>0, <2>1, <2>2, <2>3, <2>4 DEF IInv
<1>7. CASE StubEoi
    <2>1. AtMostOne' /\ ~Uncounted'
        BY <1>0, <1>7, HandlerStays DEF StubEoi, Steps
    <2>2. KeysAreTold'
        BY <1>0, <1>7, KeysStayTold DEF StubEoi
    <2>3. isr' \subseteq Lines
        BY <1>0, <1>7 DEF StubEoi, AfterEoi
    <2>4. UNCHANGED <<IF_, irr, reset, kernel, devices, disk>>
        BY <1>7 DEF StubEoi
    <2> QED BY <1>0, <2>1, <2>2, <2>3, <2>4 DEF IInv
<1>8. CASE KeyboardRead
    <2>1. AtMostOne' /\ ~Uncounted'
        BY <1>0, <1>8, HandlerStays DEF KeyboardRead, Steps
    <2>2. KeysAreTold' /\ keyboard_matrix' \in [Keys -> {0, 1}]
        BY <1>0, <1>8, ReadTells DEF KeyboardRead
    <2>3. irr' \in {irr, irr \cup {Keyboard}}
        BY <1>8 DEF KeyboardRead
    <2> QED
        BY <1>0, <1>8, <2>1, <2>2, <2>3 DEF IInv, KeyboardRead, Lines, Timer, Disk, Keyboard
<1>9. CASE KeyboardEoi
    <2>1. AtMostOne' /\ ~Uncounted'
        BY <1>0, <1>9, HandlerStays DEF KeyboardEoi, Steps
    <2>2. KeysAreTold'
        BY <1>0, <1>9, KeysStayTold DEF KeyboardEoi
    <2>3. isr' \subseteq Lines
        BY <1>0, <1>9 DEF KeyboardEoi, AfterEoi
    <2>4. UNCHANGED <<IF_, irr, reset, kernel, devices, disk>>
        BY <1>9 DEF KeyboardEoi
    <2> QED BY <1>0, <2>1, <2>2, <2>3, <2>4 DEF IInv
<1>10. CASE KeyboardDone
    <2>1. AtMostOne' /\ ~Uncounted'
        BY <1>0, <1>10, HandlerStays DEF KeyboardDone, Steps
    <2>2. KeysAreTold'
        BY <1>0, <1>10, KeysStayTold DEF KeyboardDone
    <2>3. isr' \subseteq Lines
        BY <1>0, <1>10 DEF KeyboardDone, AfterEoi
    <2>4. UNCHANGED <<IF_, irr, reset, kernel, devices, disk>>
        BY <1>10 DEF KeyboardDone
    <2> QED BY <1>0, <2>1, <2>2, <2>3, <2>4 DEF IInv
<1>11. CASE Iret
    <2>1. PICK f \in Frames : frames = <<f>>
        BY <1>0, <1>11, RunningFrame DEF Iret
    <2>2. frames' = << >> /\ IF_' \in BOOLEAN
        BY <1>11, <2>1 DEF Iret, Frames
    <2>3. AtMostOne' /\ ~Uncounted'
        BY <2>2 DEF AtMostOne, Uncounted
    <2>4. KeysAreTold'
        BY <1>0, <1>11, KeysStayTold DEF Iret
    <2> QED BY <1>0, <1>11, <2>2, <2>3, <2>4 DEF IInv, Iret
<1>12. CASE Sti \/ Cli
    <2>1. frames' = << >> /\ frames = << >> /\ IF_' \in BOOLEAN
        BY <1>12 DEF Sti, Cli
    <2>2. AtMostOne' /\ ~Uncounted'
        BY <2>1 DEF AtMostOne, Uncounted
    <2>3. KeysAreTold'
        BY <1>0, <1>12, KeysStayTold DEF Sti, Cli
    <2> QED BY <1>0, <1>12, <2>1, <2>2, <2>3 DEF IInv, Sti, Cli
<1>13. CASE Command
    <2>1. AtMostOne' /\ (Uncounted' <=> Uncounted)
        BY <1>0, <1>13 DEF Command, AtMostOne, Uncounted
    <2>2. KeysAreTold'
        BY <1>0, <1>13, KeysStayTold DEF Command
    <2> QED BY <1>0, <1>13, <2>1, <2>2, InterruptsAssumption
        DEF InterruptsAssumption, IInv, Command, NienAfterDisable
<1>14. CASE UNCHANGED vars
    <2>1. AtMostOne' /\ (Uncounted' <=> Uncounted)
        BY <1>0, <1>14 DEF vars, AtMostOne, Uncounted
    <2>2. KeysAreTold'
        BY <1>0, <1>14, KeysStayTold DEF vars
    <2> QED BY <1>0, <1>14, <2>1, <2>2 DEF IInv, vars
<1> QED
    BY <1>1, <1>2, <1>3, <1>4, <1>5, <1>6, <1>7, <1>8, <1>9, <1>10, <1>11, <1>12, <1>13,
       <1>14
    DEF Next, HandlerStep

\* The invariant of the interrupt path.
THEOREM Invariance == Spec => []IInv
<1>1. Init => IInv
    <2> SUFFICES ASSUME Init PROVE IInv
        OBVIOUS
    <2>1. AtMostOne /\ DriveIsSilent /\ ~Uncounted
        BY DEF Init, AtMostOne, DriveIsSilent, Uncounted
    <2>2. Flags
        <3>1. 0 \in 0 .. MaxPulses /\ 0 \in 0 .. MaxCommands
            BY InterruptsAssumption DEF InterruptsAssumption
        <3>2. /\ IF_ \in BOOLEAN /\ nIEN \in BOOLEAN /\ executing \in BOOLEAN
              /\ reset \in BOOLEAN
            BY DEF Init
        <3>3. keyboard_matrix \in [Keys -> {0, 1}]
            BY DEF Init
        <3> QED BY <3>1, <3>2, <3>3 DEF Init, Flags
    <2>3. TicksAreCounted
        BY <2>1 DEF Init, TicksAreCounted
    <2>4. keys = << >> /\ keys \in Seq(KeyBytes) /\ Len(keys) = 0
        BY EmptySeq DEF Init
    <2>5. KeysAreTold
        BY <2>4 DEF Init, KeysAreTold, Told
    <2> QED BY <2>1, <2>2, <2>3, <2>5 DEF IInv
<1> QED BY <1>1, Preserved, PTL DEF Spec

\* Handlers never nest and never run with interrupts enabled.
THEOREM HandlersDoNotNest == Spec => []NoNesting
<1>1. IInv => NoNesting
    <2> SUFFICES ASSUME AtMostOne PROVE Len(frames) <= 1 /\ (frames # << >> => ~IF_)
        BY DEF IInv, NoNesting
    <2>1. CASE frames = << >>
        BY <2>1
    <2>2. ASSUME NEW f \in Frames, frames = <<f>>, ~IF_
          PROVE  Len(frames) <= 1 /\ (frames # << >> => ~IF_)
        BY <2>2
    <2> QED BY <2>1, <2>2 DEF AtMostOne
<1> QED BY <1>1, Invariance, PTL

\* No interrupt comes in on the line of the drive, which has no gate.
THEOREM NoLineWithoutGate == Spec => []NoStrayInterrupt
<1>1. IInv => NoStrayInterrupt
    BY DEF IInv, DriveIsSilent, NoStrayInterrupt
<1> QED BY <1>1, Invariance, PTL

\* When every byte that was taken has been read, the matrix shows the keys that are held,
\* of all whose last byte was not lost.
THEOREM MatrixShowsKeys == Spec => []MatrixIsTrue
<1>1. IInv => MatrixIsTrue
    <2> SUFFICES ASSUME IInv, keys = << >>, NEW k \in Keys \ missed
                 PROVE  keyboard_matrix[k] = 1 <=> k \in down
        BY DEF MatrixIsTrue
    <2>1. Len(keys) = 0 /\ Told(k)
        BY DEF IInv, KeysAreTold
    <2> QED BY <2>1 DEF Told
<1> QED BY <1>1, Invariance, PTL

\* Every variable keeps its type: no more ticks are counted than the clock sent.
THEOREM TypeCorrect == Spec => []TypeOK
<1>1. IInv => TypeOK
    <2> SUFFICES ASSUME IInv PROVE TypeOK
        OBVIOUS
    <2>1. frames \in Seq(Frames)
        <3>1. CASE frames = << >>
            BY <3>1, EmptySeq
        <3>2. ASSUME NEW f \in Frames, frames = <<f>> PROVE frames \in Seq(Frames)
            BY <3>2
        <3> QED BY <3>1, <3>2 DEF IInv, AtMostOne
    <2>2. timer_ticks \in 0 .. pulses
        BY DEF IInv, Flags, TicksAreCounted
    <2> QED BY <2>1, <2>2 DEF IInv, Flags, TypeOK, Frames
<1> QED BY <1>1, Invariance, PTL
-----------------------------------------------------------------------------
(* System calls: the software interrupt.                                   *)

\* What a register or a word of the stack can hold.
Words == Nat \cup BOOLEAN \cup Contents \cup Bytes \cup Registers
         \cup {"program", "frame_of_caller", "entry_point", "return_address",
               "user_ss", "user_esp"}

CallTypes ==
    /\ regs \in [Registers -> Words] /\ stack \in Seq(Words)
    /\ eflags_IF \in BOOLEAN
    /\ caller.stack = BootStack /\ caller.eflags_IF \in BOOLEAN
    /\ caller.regs \in [Registers -> Words]

Bottom == "frame_of_caller"
OnlyBottom == Len(stack) = 1 /\ stack[1] = Bottom

\* What int 0x80 has pushed, and what pusha has pushed above it.
FrameKept ==
    stack[1] = Bottom /\ stack[2] = caller.eflags_IF /\ stack[3] = 0 /\ stack[4] = "program"
RegistersKept ==
    /\ stack[6] = caller.regs["ecx"] /\ stack[7] = caller.regs["edx"]
    /\ stack[8] = caller.regs["ebx"] /\ stack[10] = caller.regs["ebp"]
    /\ stack[11] = caller.regs["esi"] /\ stack[12] = caller.regs["edi"]

\* What eax may hold after a call.
Answered(word) ==
    IF caller.regs["eax"] = 2 THEN word \in Bytes ELSE word = caller.regs["eax"]

RequestIsCallers ==
    request # NoRequest =>
        request = [row |-> caller.regs["edx"], text |-> caller.regs["ecx"]]

NoCall == ring = 0 /\ request = NoRequest

AtProgram == at = "program" /\ NoCall /\ eip = "program" /\ Resumed
AtPusha == at = "pusha" /\ NoCall /\ Len(stack) = 4 /\ FrameKept /\ regs = caller.regs
AtPushEsp ==
    /\ at = "push_esp" /\ NoCall
    /\ Len(stack) = 12 /\ FrameKept /\ RegistersKept /\ stack[5] = caller.regs["eax"]
AtCall ==
    /\ at = "call" /\ NoCall
    /\ Len(stack) = 13 /\ FrameKept /\ RegistersKept /\ stack[5] = caller.regs["eax"]
    /\ stack[13] = 12
AtAddEsp ==
    /\ at = "add_esp" /\ ring = 0 /\ RequestIsCallers
    /\ Len(stack) = 13 /\ FrameKept /\ RegistersKept /\ Answered(stack[5])
AtPopa ==
    /\ at = "popa" /\ ring = 0 /\ RequestIsCallers
    /\ Len(stack) = 12 /\ FrameKept /\ RegistersKept /\ Answered(stack[5])
AtReturn ==
    /\ at = "iret" /\ ring = 0 /\ RequestIsCallers
    /\ Len(stack) = 4 /\ FrameKept /\ Answered(regs["eax"])
    /\ \A r \in Registers \ {"eax"} : regs[r] = caller.regs[r]
AtJump == at = "jump" /\ NoCall /\ Len(stack) = 3
\* iret finds ring 3 below the address.
AtLeave == at = "iret" /\ NoCall /\ Len(stack) = 8 /\ stack[7] = 3 /\ stack[6] = TRUE
AtFetch == at = "fetch" /\ ring = 3 /\ stack = << >> /\ request = NoRequest

CallInv ==
    /\ CallTypes
    /\ \/ AtProgram \/ AtPusha \/ AtPushEsp \/ AtCall \/ AtAddEsp \/ AtPopa \/ AtReturn
       \/ AtJump \/ AtLeave \/ AtFetch

\* What is pushed lies above what was there, and popping takes it off again.
LEMMA Pushes ==
    ASSUME NEW s \in Seq(Words), NEW t \in Seq(Words)
    PROVE  /\ s \o t \in Seq(Words) /\ Len(s \o t) = Len(s) + Len(t)
           /\ \A i \in 1 .. Len(s) : (s \o t)[i] = s[i]
           /\ \A i \in 1 .. Len(t) : (s \o t)[Len(s) + i] = t[i]
<1>1. Len(s) \in Nat /\ Len(t) \in Nat
    OBVIOUS
<1>2. \A i \in 1 .. Len(t) : /\ Len(s) + i \in 1 .. Len(s) + Len(t)
                             /\ ~(Len(s) + i <= Len(s))
                             /\ Len(s) + i - Len(s) = i
    BY <1>1
<1> QED BY <1>1, <1>2, ConcatProperties

LEMMA Pops ==
    ASSUME NEW s \in Seq(Words), NEW n \in 0 .. Len(s)
    PROVE  /\ SubSeq(s, 1, n) \in Seq(Words) /\ Len(SubSeq(s, 1, n)) = n
           /\ \A i \in 1 .. n : SubSeq(s, 1, n)[i] = s[i]
<1>1. n \in Nat /\ \A i \in 1 .. n : s[i] \in Words
    BY ElementOfSeq
<1> QED BY <1>1, SubSeqProperties

\* These do not depend on the state.
LEMMA Unchanging ==
    /\ Words' = Words /\ Registers' = Registers
    /\ BootStack' = BootStack /\ NoRequest' = NoRequest
    /\ Bottom' = Bottom
BY DEF Words, Bottom, Registers, Scratch, BootStack, NoRequest

\* The program that makes the first call.
LEMMA InitCalls == SyscallInit => CallInv
<1> SUFFICES ASSUME SyscallInit PROVE CallInv
    OBVIOUS
<1>1. regs \in [Registers -> Words]
    BY DEF SyscallInit, BootRegs, Words
<1>2. stack \in Seq(Words)
    BY DEF SyscallInit, BootStack, Words
<1>3. caller = [regs |-> regs, eflags_IF |-> eflags_IF, stack |-> stack]
    BY DEF SyscallInit, BootCaller
<1>4. CallTypes
    BY <1>1, <1>2, <1>3 DEF CallTypes, SyscallInit
<1>5. regs["eax"] = 0
    BY DEF SyscallInit, BootRegs, Registers, Scratch
<1>6. Resumed
    BY <1>3, <1>5 DEF Resumed
<1>7. AtProgram
    BY <1>6 DEF AtProgram, NoCall, SyscallInit
<1> QED BY <1>4, <1>7 DEF CallInv

\* The gate pushes the flag, the ring and the place to return to.
LEMMA Int80Keeps == CallTypes /\ AtProgram /\ Int80 => CallTypes' /\ AtPusha'
<1> SUFFICES ASSUME CallTypes, AtProgram, Int80 PROVE CallTypes' /\ AtPusha'
    OBVIOUS
<1>1. PICK n \in Numbers, a \in Contents, b \in Contents, c \in Contents :
          regs' = [regs EXCEPT !["eax"] = n, !["ebx"] = a, !["ecx"] = b, !["edx"] = c]
    BY DEF Int80
<1>2. regs' \in [Registers -> Words]
    <2>1. n \in Words /\ a \in Words /\ b \in Words /\ c \in Words
        BY DEF Words, Numbers
    <2> QED BY <1>1, <2>1 DEF CallTypes
<1>3. stack = <<Bottom>> /\ stack = BootStack /\ eflags_IF \in BOOLEAN
    BY DEF AtProgram, Resumed, CallTypes, BootStack, Bottom
<1>4. /\ stack' = <<Bottom>> \o <<eflags_IF, 0, "program">>
      /\ at' = "pusha" /\ ring' = 0 /\ request' = request /\ eflags_IF' = FALSE
      /\ caller' = [regs |-> regs', eflags_IF |-> eflags_IF, stack |-> stack]
    BY <1>3 DEF Int80, AtProgram, NoCall
<1>5. <<Bottom>> \in Seq(Words) /\ <<eflags_IF, 0, "program">> \in Seq(Words)
    BY <1>3 DEF Words, Bottom
<1>6. /\ stack' \in Seq(Words) /\ Len(stack') = 4
      /\ stack'[1] = Bottom /\ stack'[2] = eflags_IF /\ stack'[3] = 0 /\ stack'[4] = "program"
    <2>1. Len(<<Bottom>>) = 1 /\ Len(<<eflags_IF, 0, "program">>) = 3
        OBVIOUS
    <2>2. /\ stack' \in Seq(Words) /\ Len(stack') = 1 + 3
          /\ \A i \in 1 .. 1 : stack'[i] = <<Bottom>>[i]
          /\ \A i \in 1 .. 3 : stack'[1 + i] = <<eflags_IF, 0, "program">>[i]
        BY <1>4, <1>5, <2>1, Pushes
    <2>3. stack'[1 + 1] = eflags_IF /\ stack'[1 + 2] = 0 /\ stack'[1 + 3] = "program"
        BY <2>2
    <2> QED BY <2>2, <2>3
<1>7. CallTypes'
    BY <1>2, <1>3, <1>4, <1>6 DEF CallTypes, Words, Registers, Scratch, BootStack
<1> QED BY <1>4, <1>6, <1>7 DEF AtPusha, AtProgram, NoCall, FrameKept, NoRequest

\* pusha pushes the registers of the caller, which the stub has not touched.
LEMMA PushaKeeps == CallTypes /\ AtPusha /\ Pusha => CallTypes' /\ AtPushEsp'
<1> SUFFICES ASSUME CallTypes, AtPusha, Pusha PROVE CallTypes' /\ AtPushEsp'
    OBVIOUS
<1> DEFINE t == [n \in DOMAIN PushOrder |->
                    IF PushOrder[n] = "esp" THEN Len(stack)
                                                  ELSE regs[PushOrder[n]]]
<1>0. stack' = stack \o t
    BY DEF Pusha
<1>1. /\ at' = "push_esp" /\ ring' = ring /\ request' = request /\ eflags_IF' = eflags_IF
      /\ regs' = regs /\ caller' = caller
    BY DEF Pusha, cpu
<1>2. t \in Seq(Words) /\ Len(t) = 8
    <2>1. DOMAIN PushOrder = 1 .. 8
        BY DEF PushOrder
    <2>2. \A n \in 1 .. 8 : PushOrder[n] = "esp" \/ PushOrder[n] \in Registers
        BY DEF PushOrder, Registers, Scratch
    <2>3. Len(stack) \in Words
        BY DEF AtPusha, Words
    <2>4. t \in [1 .. 8 -> Words]
        BY <2>1, <2>2, <2>3 DEF CallTypes
    <2> QED BY <2>4
<1>3. /\ t[1] = regs["eax"] /\ t[2] = regs["ecx"] /\ t[3] = regs["edx"] /\ t[4] = regs["ebx"]
      /\ t[6] = regs["ebp"] /\ t[7] = regs["esi"] /\ t[8] = regs["edi"]
    BY DEF PushOrder
<1> HIDE DEF t
<1>4. /\ stack' \in Seq(Words) /\ Len(stack') = 12
      /\ \A i \in 1 .. 4 : stack'[i] = stack[i]
      /\ \A i \in 1 .. 8 : stack'[4 + i] = t[i]
    <2>1. stack \in Seq(Words) /\ Len(stack) = 4
        BY DEF CallTypes, AtPusha
    <2>2. /\ stack \o t \in Seq(Words) /\ Len(stack \o t) = Len(stack) + Len(t)
          /\ \A i \in 1 .. Len(stack) : (stack \o t)[i] = stack[i]
          /\ \A i \in 1 .. Len(t) : (stack \o t)[Len(stack) + i] = t[i]
        BY <1>2, <2>1, Pushes
    <2>3. stack' \in Seq(Words) /\ Len(stack') = 12
        BY <1>0, <1>2, <2>1, <2>2
    <2>4. ASSUME NEW i \in 1 .. 4 PROVE stack'[i] = stack[i]
        BY <1>0, <2>1, <2>2
    <2>5. ASSUME NEW i \in 1 .. 8 PROVE stack'[4 + i] = t[i]
        BY <1>0, <1>2, <2>1, <2>2
    <2> QED BY <2>3, <2>4, <2>5
<1>5. /\ stack'[5] = regs["eax"] /\ stack'[6] = regs["ecx"]
      /\ stack'[7] = regs["edx"] /\ stack'[8] = regs["ebx"]
      /\ stack'[10] = regs["ebp"] /\ stack'[11] = regs["esi"] /\ stack'[12] = regs["edi"]
    <2>1. /\ stack'[4 + 1] = regs["eax"] /\ stack'[4 + 2] = regs["ecx"]
          /\ stack'[4 + 3] = regs["edx"] /\ stack'[4 + 4] = regs["ebx"]
          /\ stack'[4 + 6] = regs["ebp"] /\ stack'[4 + 7] = regs["esi"]
          /\ stack'[4 + 8] = regs["edi"]
        BY <1>3, <1>4
    <2> QED BY <2>1
<1>6. CallTypes'
    BY <1>1, <1>4, Unchanging DEF CallTypes
<1>7. FrameKept'
    <2>1. /\ stack'[1] = stack[1] /\ stack'[2] = stack[2]
          /\ stack'[3] = stack[3] /\ stack'[4] = stack[4]
        BY <1>4
    <2> QED BY <1>1, <2>1, Unchanging DEF AtPusha, FrameKept
<1>8. RegistersKept'
    BY <1>1, <1>5 DEF RegistersKept, AtPusha
<1> QED BY <1>1, <1>4, <1>5, <1>6, <1>7, <1>8, Unchanging DEF AtPushEsp, AtPusha, NoCall

\* An Append that keeps the words below it.
LEMMA PushesOne ==
    ASSUME NEW s \in Seq(Words), NEW w \in Words
    PROVE  /\ Append(s, w) \in Seq(Words) /\ Len(Append(s, w)) = Len(s) + 1
           /\ \A i \in 1 .. Len(s) : Append(s, w)[i] = s[i]
           /\ Append(s, w)[Len(s) + 1] = w
BY AppendProperties

\* The pointer that is passed to the dispatcher points at the slot of edi.
LEMMA PushEspKeeps == CallTypes /\ AtPushEsp /\ PushEsp => CallTypes' /\ AtCall'
<1> SUFFICES ASSUME CallTypes, AtPushEsp, PushEsp PROVE CallTypes' /\ AtCall'
    OBVIOUS
<1>1. stack' = Append(stack, 12)
    BY DEF PushEsp, AtPushEsp
<1>2. /\ at' = "call" /\ ring' = ring /\ request' = request /\ eflags_IF' = eflags_IF
      /\ regs' = regs /\ caller' = caller
    BY DEF PushEsp, cpu
<1>3. stack \in Seq(Words) /\ Len(stack) = 12 /\ 12 \in Words
    BY DEF CallTypes, AtPushEsp, Words
<1>4. /\ stack' \in Seq(Words) /\ Len(stack') = 13
      /\ \A i \in 1 .. 12 : stack'[i] = stack[i]
      /\ stack'[13] = 12
    <2>1. /\ Append(stack, 12) \in Seq(Words) /\ Len(Append(stack, 12)) = Len(stack) + 1
          /\ \A i \in 1 .. Len(stack) : Append(stack, 12)[i] = stack[i]
          /\ Append(stack, 12)[Len(stack) + 1] = 12
        BY <1>3, PushesOne
    <2> QED BY <1>1, <1>3, <2>1
<1>5. CallTypes'
    BY <1>2, <1>4, Unchanging DEF CallTypes
<1>6. FrameKept' /\ RegistersKept' /\ stack'[5] = caller'.regs["eax"]
    BY <1>2, <1>4, Unchanging DEF AtPushEsp, FrameKept, RegistersKept
<1> QED BY <1>2, <1>4, <1>5, <1>6, Unchanging DEF AtCall, AtPushEsp, NoCall

\* The dispatcher reads and writes the slots of the registers.
LEMMA DispatchKeeps == CallTypes /\ AtCall /\ Dispatch => CallTypes' /\ AtAddEsp'
<1> SUFFICES ASSUME CallTypes, AtCall, Dispatch PROVE CallTypes' /\ AtAddEsp'
    OBVIOUS
<1>1. Slot(7) = 5 /\ Slot(6) = 6 /\ Slot(5) = 7
    BY DEF Slot, Top, AtCall
<1>2. /\ at' = "add_esp" /\ ring' = ring /\ eflags_IF' = eflags_IF /\ caller' = caller
    BY DEF Dispatch
<1>3. regs' \in [Registers -> Words]
    <2>1. PICK junk \in Contents : regs' = [r \in Registers |->
                                             IF r \in Scratch THEN junk ELSE regs[r]]
        BY DEF Dispatch
    <2>2. junk \in Words
        BY DEF Words
    <2> QED BY <2>1, <2>2 DEF CallTypes
<1>4. stack \in Seq(Words) /\ Len(stack) = 13 /\ stack[5] = caller.regs["eax"]
    BY DEF CallTypes, AtCall
<1>5. /\ stack' \in Seq(Words) /\ Len(stack') = 13
      /\ \A i \in 1 .. 13 : i # 5 => stack'[i] = stack[i]
      /\ Answered(stack[5])'
    <2>1. CASE stack[5] = 2
        <3>1. PICK byte \in Bytes : stack' = [stack EXCEPT ![5] = byte]
            BY <1>1, <2>1 DEF Dispatch, Answer
        <3>2. byte \in Words
            BY DEF Words
        <3>3. /\ stack' \in Seq(Words) /\ Len(stack') = 13
              /\ \A j \in 1 .. 13 : stack'[j] = IF j = 5 THEN byte ELSE stack[j]
            <4>1. DOMAIN stack = 1 .. 13 /\ stack = [j \in 1 .. 13 |-> stack[j]]
                BY <1>4
            <4>2. stack' = [j \in 1 .. 13 |-> IF j = 5 THEN byte ELSE stack[j]]
                BY <3>1, <4>1
            <4>3. \A j \in 1 .. 13 : stack'[j] \in Words
                BY <1>4, <3>2, <4>2, ElementOfSeq
            <4>4. stack' \in [1 .. 13 -> Words]
                BY <4>2, <4>3
            <4> QED BY <4>2, <4>4
        <3>4. stack'[5] \in Bytes
            BY <3>3
        <3> QED BY <1>2, <1>4, <2>1, <3>3, <3>4 DEF Answered
    <2>2. CASE stack[5] # 2
        <3>1. stack' = stack
            BY <1>1, <2>2 DEF Dispatch
        <3> QED BY <1>2, <1>4, <2>2, <3>1 DEF Answered
    <2> QED BY <2>1, <2>2
<1>6. RequestIsCallers'
    <2>1. \/ request' = [row |-> stack[7], text |-> stack[6]]
          \/ request' = NoRequest
        BY <1>1 DEF Dispatch
    <2>2. stack[7] = caller.regs["edx"] /\ stack[6] = caller.regs["ecx"]
        BY DEF AtCall, RegistersKept
    <2> QED BY <1>2, <2>1, <2>2, Unchanging DEF RequestIsCallers
<1>7. CallTypes'
    BY <1>2, <1>3, <1>5, Unchanging DEF CallTypes
<1>8. FrameKept' /\ RegistersKept'
    BY <1>2, <1>5, Unchanging DEF AtCall, FrameKept, RegistersKept
<1>9. ring' = 0
    BY <1>2 DEF AtCall, NoCall
<1>10. Len(stack') = 13 /\ at' = "add_esp" /\ Answered(stack[5])'
    BY <1>2, <1>5
<1> QED BY <1>6, <1>7, <1>8, <1>9, <1>10 DEF AtAddEsp

\* The argument of the dispatcher comes off the stack.
LEMMA AddEspKeeps == CallTypes /\ AtAddEsp /\ AddEsp => CallTypes' /\ AtPopa'
<1> SUFFICES ASSUME CallTypes, AtAddEsp, AddEsp PROVE CallTypes' /\ AtPopa'
    OBVIOUS
<1>1. stack \in Seq(Words) /\ Len(stack) = 13
    BY DEF CallTypes, AtAddEsp
<1>2. stack' = SubSeq(stack, 1, 12)
    BY <1>1 DEF AddEsp, Popped
<1>3. /\ at' = "popa" /\ ring' = ring /\ eflags_IF' = eflags_IF /\ request' = request
      /\ regs' = regs /\ caller' = caller
    BY DEF AddEsp, cpu
<1>4. /\ stack' \in Seq(Words) /\ Len(stack') = 12
      /\ \A i \in 1 .. 12 : stack'[i] = stack[i]
    <2>1. 12 \in 0 .. Len(stack)
        BY <1>1
    <2> QED BY <1>1, <1>2, <2>1, Pops
<1>5. CallTypes'
    BY <1>3, <1>4, Unchanging DEF CallTypes
<1>6. FrameKept' /\ RegistersKept'
    BY <1>3, <1>4, Unchanging DEF AtAddEsp, FrameKept, RegistersKept
<1>7. Answered(stack[5])' /\ RequestIsCallers' /\ ring' = 0
    <2>1. stack'[5] = stack[5]
        BY <1>4
    <2> QED BY <1>3, <2>1, Unchanging DEF AtAddEsp, Answered, RequestIsCallers
<1> QED BY <1>3, <1>4, <1>5, <1>6, <1>7 DEF AtPopa

\* Where popa finds each register.
LEMMA PopaSlots ==
    /\ (CHOOSE k \in 0 .. 7 : PushOrder[8 - k] = "eax") = 7
    /\ (CHOOSE k \in 0 .. 7 : PushOrder[8 - k] = "ecx") = 6
    /\ (CHOOSE k \in 0 .. 7 : PushOrder[8 - k] = "edx") = 5
    /\ (CHOOSE k \in 0 .. 7 : PushOrder[8 - k] = "ebx") = 4
    /\ (CHOOSE k \in 0 .. 7 : PushOrder[8 - k] = "ebp") = 2
    /\ (CHOOSE k \in 0 .. 7 : PushOrder[8 - k] = "esi") = 1
    /\ (CHOOSE k \in 0 .. 7 : PushOrder[8 - k] = "edi") = 0
BY DEF PushOrder

\* popa loads every register from the slot it was pushed to.
LEMMA PopaKeeps == CallTypes /\ AtPopa /\ Popa => CallTypes' /\ AtReturn'
<1> SUFFICES ASSUME CallTypes, AtPopa, Popa PROVE CallTypes' /\ AtReturn'
    OBVIOUS
<1>1. stack \in Seq(Words) /\ Len(stack) = 12
    BY DEF CallTypes, AtPopa
<1>2. stack' = SubSeq(stack, 1, 4)
    BY <1>1 DEF Popa, Popped
<1>3. /\ at' = "iret" /\ ring' = ring /\ eflags_IF' = eflags_IF /\ request' = request
      /\ caller' = caller
    BY DEF Popa
<1>4. /\ stack' \in Seq(Words) /\ Len(stack') = 4
      /\ \A i \in 1 .. 4 : stack'[i] = stack[i]
    <2>1. 4 \in 0 .. Len(stack)
        BY <1>1
    <2> QED BY <1>1, <1>2, <2>1, Pops
<1>5. regs' = [r \in Registers |->
                  stack[12 - (CHOOSE k \in 0 .. 7 : PushOrder[8 - k] = r)]]
    BY <1>1 DEF Popa, Top
<1>6. /\ regs'["eax"] = stack[5]  /\ regs'["ecx"] = stack[6]  /\ regs'["edx"] = stack[7]
      /\ regs'["ebx"] = stack[8]  /\ regs'["ebp"] = stack[10] /\ regs'["esi"] = stack[11]
      /\ regs'["edi"] = stack[12]
    <2> DEFINE place(r) == CHOOSE k \in 0 .. 7 : PushOrder[8 - k] = r
    <2>1. \A r \in Registers : regs'[r] = stack[12 - place(r)]
        BY <1>5
    <2>2. /\ place("eax") = 7 /\ place("ecx") = 6 /\ place("edx") = 5 /\ place("ebx") = 4
          /\ place("ebp") = 2 /\ place("esi") = 1 /\ place("edi") = 0
        BY PopaSlots
    <2> HIDE DEF place
    <2> QED BY <2>1, <2>2 DEF Registers, Scratch
<1>7. regs' \in [Registers -> Words]
    <2>1. regs' = [r \in Registers |-> regs'[r]]
        BY <1>5
    <2>2. \A i \in 1 .. 12 : stack[i] \in Words
        BY <1>1, ElementOfSeq
    <2>3. \A r \in Registers : regs'[r] \in Words
        BY <1>6, <2>2 DEF Registers, Scratch
    <2> QED BY <2>1, <2>3
<1>8. \A r \in Registers \ {"eax"} : regs'[r] = caller.regs[r]
    BY <1>6 DEF AtPopa, RegistersKept, Registers, Scratch
<1>9. CallTypes'
    BY <1>3, <1>4, <1>7, Unchanging DEF CallTypes
<1>10. FrameKept'
    <2>1. /\ stack'[1] = stack[1] /\ stack'[2] = stack[2]
          /\ stack'[3] = stack[3] /\ stack'[4] = stack[4]
        BY <1>4
    <2> QED BY <1>3, <2>1, Unchanging DEF AtPopa, FrameKept
<1>11. Answered(regs["eax"])' /\ RequestIsCallers' /\ ring' = 0
    BY <1>3, <1>6, Unchanging DEF AtPopa, Answered, RequestIsCallers
<1> QED BY <1>3, <1>4, <1>8, <1>9, <1>10, <1>11, Unchanging DEF AtReturn

\* iret takes back what int 0x80 pushed.
LEMMA ReturnKeeps == CallTypes /\ AtReturn /\ SysIret => CallTypes' /\ AtProgram'
<1> SUFFICES ASSUME CallTypes, AtReturn, SysIret PROVE CallTypes' /\ AtProgram'
    OBVIOUS
<1>1. /\ stack \in Seq(Words) /\ Len(stack) = 4 /\ ring = 0
      /\ stack[1] = Bottom /\ stack[2] = caller.eflags_IF /\ stack[3] = 0 /\ stack[4] = "program"
    BY DEF CallTypes, AtReturn, FrameKept
<1>2. Top(0) = stack[4] /\ Top(1) = stack[3] /\ Top(2) = stack[2]
    BY <1>1 DEF Top
<1>3. /\ stack' = SubSeq(stack, 1, 1) /\ at' = "program" /\ eip' = "program" /\ ring' = 0
      /\ eflags_IF' = caller.eflags_IF /\ regs' = regs /\ caller' = caller
      /\ request' = NoRequest
    BY <1>1, <1>2 DEF SysIret, Popped
<1>4. stack' \in Seq(Words) /\ Len(stack') = 1 /\ stack'[1] = Bottom
    BY <1>1, <1>3, Pops
<1>5. stack' = BootStack
    BY <1>4 DEF BootStack, Bottom
<1>6. CallTypes'
    BY <1>3, <1>4, Unchanging DEF CallTypes
<1>7. Resumed'
    <2>1. stack' = caller'.stack /\ eflags_IF' = caller'.eflags_IF
        BY <1>3, <1>5 DEF CallTypes
    <2>2. \A r \in Registers \ {"eax"} : regs'[r] = caller'.regs[r]
        BY <1>3 DEF AtReturn
    <2>3. Answered(regs["eax"])
        BY DEF AtReturn
    <2> QED BY <1>3, <2>1, <2>2, <2>3, Unchanging DEF Resumed, Answered
<1> QED BY <1>3, <1>6, <1>7, Unchanging DEF AtProgram, NoCall

\* The call of jump_to_ring3.
LEMMA CallJumpKeeps == CallTypes /\ AtProgram /\ CallJump => CallTypes' /\ AtJump'
<1> SUFFICES ASSUME CallTypes, AtProgram, CallJump PROVE CallTypes' /\ AtJump'
    OBVIOUS
<1> DEFINE t == <<"entry_point", "return_address">>
<1>1. stack = <<Bottom>>
    BY DEF AtProgram, Resumed, CallTypes, BootStack, Bottom
<1>2. /\ at' = "jump" /\ ring' = ring /\ eflags_IF' = eflags_IF /\ request' = request
      /\ regs' = regs /\ caller' = caller
    BY DEF CallJump, cpu
<1>3. t \in Seq(Words) /\ Len(t) = 2 /\ Len(stack) = 1 /\ stack \in Seq(Words)
    BY <1>1 DEF Words, CallTypes
<1>4. stack' \in Seq(Words) /\ Len(stack') = 3
    <2>1. stack' = stack \o t
        BY DEF CallJump
    <2> HIDE DEF t
    <2>2. stack \o t \in Seq(Words) /\ Len(stack \o t) = Len(stack) + Len(t)
        BY <1>3, Pushes
    <2> QED BY <1>3, <2>1, <2>2
<1>5. CallTypes'
    BY <1>2, <1>4, Unchanging DEF CallTypes
<1> QED BY <1>2, <1>4, <1>5, Unchanging DEF AtJump, AtProgram, NoCall

\* jump_to_ring3 takes a word that its caller did not mean to pass, and the iret
\* that follows finds ring 3 two words below the top.
LEMMA JumpKeeps == CallTypes /\ AtJump /\ jump_to_ring3 => CallTypes' /\ AtLeave'
<1> SUFFICES ASSUME CallTypes, AtJump, jump_to_ring3 PROVE CallTypes' /\ AtLeave'
    OBVIOUS
<1> DEFINE t == <<"user_ss", "user_esp", TRUE, 3>>
           frame == stack \o t
<1>1. /\ at' = "iret" /\ ring' = ring /\ eflags_IF' = FALSE /\ request' = request
      /\ caller' = caller
      /\ stack' = Append(frame, frame[Len(frame) - 6])
      /\ regs' = [regs EXCEPT !["eax"] = stack'[Len(stack')]]
    BY DEF jump_to_ring3
<1>2. t \in Seq(Words) /\ Len(t) = 4 /\ t[3] = TRUE /\ t[4] = 3
    BY DEF Words
<1>3. stack \in Seq(Words) /\ Len(stack) = 3
    BY DEF CallTypes, AtJump
<1> HIDE DEF t
<1>4. /\ frame \in Seq(Words) /\ Len(frame) = Len(stack) + Len(t)
      /\ \A i \in 1 .. Len(stack) : frame[i] = stack[i]
      /\ \A i \in 1 .. Len(t) : frame[Len(stack) + i] = t[i]
    BY <1>2, <1>3, Pushes
<1> HIDE DEF frame
<1>5. Len(frame) = 7 /\ frame[3 + 3] = TRUE /\ frame[3 + 4] = 3
    BY <1>2, <1>3, <1>4
<1>6. frame[1] \in Words /\ Len(frame) - 6 = 1
    <2>1. 1 \in 1 .. Len(frame)
        BY <1>5
    <2>2. \A i \in 1 .. Len(frame) : frame[i] \in Words
        BY <1>4, ElementOfSeq
    <2> QED BY <1>5, <2>1, <2>2
<1>7. /\ stack' \in Seq(Words) /\ Len(stack') = 8
      /\ \A i \in 1 .. 7 : stack'[i] = frame[i]
    BY <1>1, <1>4, <1>5, <1>6, PushesOne
<1>8. stack'[6] = TRUE /\ stack'[7] = 3 /\ stack'[Len(stack')] \in Words
    <2>1. Len(stack') \in 1 .. Len(stack')
        BY <1>7
    <2>2. stack'[Len(stack')] \in Words
        BY <1>7, <2>1, ElementOfSeq
    <2> QED BY <1>5, <1>7, <2>2
<1>9. regs' \in [Registers -> Words]
    BY <1>1, <1>8 DEF CallTypes
<1>10. CallTypes'
    BY <1>1, <1>7, <1>9, Unchanging DEF CallTypes
<1> QED BY <1>1, <1>7, <1>8, <1>10, Unchanging DEF AtLeave, AtJump, NoCall

\* The iret to ring 3 leaves the stack of the kernel.
LEMMA LeaveKeeps == CallTypes /\ AtLeave /\ SysIret => CallTypes' /\ AtFetch'
<1> SUFFICES ASSUME CallTypes, AtLeave, SysIret PROVE CallTypes' /\ AtFetch'
    OBVIOUS
<1>1. Top(1) = 3 /\ Top(2) = TRUE /\ ring = 0
    BY DEF AtLeave, Top, NoCall
<1>2. /\ stack' = << >> /\ at' = "fetch" /\ ring' = 3 /\ eflags_IF' = TRUE /\ regs' = regs
      /\ caller' = caller /\ request' = NoRequest
    BY <1>1 DEF SysIret
<1>3. << >> \in Seq(Words)
    OBVIOUS
<1>4. CallTypes'
    BY <1>2, <1>3, Unchanging DEF CallTypes
<1> QED BY <1>2, <1>4, Unchanging DEF AtFetch

\* The page that ring 3 would run from is the supervisor's.
LEMMA FetchKeeps == CallTypes /\ AtFetch /\ Fetch => CallTypes' /\ AtProgram'
<1> SUFFICES ASSUME CallTypes, AtFetch, Fetch PROVE CallTypes' /\ AtProgram'
    OBVIOUS
<1>1. ~Accessible
    BY DEF AtFetch, Accessible, CR3, page_directory
<1>2. /\ regs' = BootRegs /\ eflags_IF' \in BOOLEAN /\ ring' = 0 /\ eip' = "program"
      /\ stack' = BootStack /\ at' = "program" /\ request' = NoRequest
      /\ caller' = [regs |-> BootRegs, eflags_IF |-> eflags_IF', stack |-> BootStack]
    BY <1>1 DEF Fetch, BootCaller
<1>3. BootRegs \in [Registers -> Words] /\ BootRegs["eax"] = 0
    BY DEF BootRegs, Registers, Scratch, Words
<1>4. BootStack \in Seq(Words)
    BY DEF BootStack, Words
<1>5. CallTypes'
    BY <1>2, <1>3, <1>4, Unchanging DEF CallTypes
<1>6. Resumed'
    BY <1>2, <1>3, Unchanging DEF Resumed
<1> QED BY <1>2, <1>5, <1>6, Unchanging DEF AtProgram, NoCall

\* What the invariant is about.
CallVars == <<regs, eflags_IF, ring, eip, stack, at, caller, request>>

\* The step that is enabled is the one of the place the program is at.
LEMMA StepKeepsCalls == CallInv /\ [SyscallNext]_syscall_vars => CallInv'
<1> SUFFICES ASSUME CallInv, [SyscallNext]_syscall_vars PROVE CallInv'
    OBVIOUS
<1>1. CASE UNCHANGED syscall_vars
    <2>1. UNCHANGED CallVars
        BY <1>1 DEF syscall_vars, cpu, CallVars
    <2> QED BY <2>1, Unchanging
            DEF CallInv, CallVars, CallTypes, NoCall, FrameKept, RegistersKept, Answered,
                RequestIsCallers, Resumed,
                AtProgram, AtPusha, AtPushEsp, AtCall, AtAddEsp, AtPopa, AtReturn, AtJump,
                AtLeave, AtFetch
<1>2. CASE Int80
    <2>1. AtProgram
        BY <1>2 DEF CallInv, Int80, AtPusha, AtPushEsp, AtCall, AtAddEsp, AtPopa,
                    AtReturn, AtJump, AtLeave, AtFetch
    <2> QED BY <1>2, <2>1, Int80Keeps DEF CallInv
<1>3. CASE Pusha
    <2>1. AtPusha
        BY <1>3 DEF CallInv, Pusha, AtProgram, AtPushEsp, AtCall, AtAddEsp, AtPopa,
                    AtReturn, AtJump, AtLeave, AtFetch
    <2> QED BY <1>3, <2>1, PushaKeeps DEF CallInv
<1>4. CASE PushEsp
    <2>1. AtPushEsp
        BY <1>4 DEF CallInv, PushEsp, AtProgram, AtPusha, AtCall, AtAddEsp, AtPopa,
                    AtReturn, AtJump, AtLeave, AtFetch
    <2> QED BY <1>4, <2>1, PushEspKeeps DEF CallInv
<1>5. CASE Dispatch
    <2>1. AtCall
        BY <1>5 DEF CallInv, Dispatch, AtProgram, AtPusha, AtPushEsp, AtAddEsp, AtPopa,
                    AtReturn, AtJump, AtLeave, AtFetch
    <2> QED BY <1>5, <2>1, DispatchKeeps DEF CallInv
<1>6. CASE AddEsp
    <2>1. AtAddEsp
        BY <1>6 DEF CallInv, AddEsp, AtProgram, AtPusha, AtPushEsp, AtCall, AtPopa,
                    AtReturn, AtJump, AtLeave, AtFetch
    <2> QED BY <1>6, <2>1, AddEspKeeps DEF CallInv
<1>7. CASE Popa
    <2>1. AtPopa
        BY <1>7 DEF CallInv, Popa, AtProgram, AtPusha, AtPushEsp, AtCall, AtAddEsp,
                    AtReturn, AtJump, AtLeave, AtFetch
    <2> QED BY <1>7, <2>1, PopaKeeps DEF CallInv
<1>8. CASE SysIret
    <2>1. AtReturn \/ AtLeave
        BY <1>8 DEF CallInv, SysIret, AtProgram, AtPusha, AtPushEsp, AtCall, AtAddEsp,
                    AtPopa, AtJump, AtFetch
    <2> QED BY <1>8, <2>1, ReturnKeeps, LeaveKeeps DEF CallInv
<1>9. CASE CallJump
    <2>1. AtProgram
        BY <1>9 DEF CallInv, CallJump, AtPusha, AtPushEsp, AtCall, AtAddEsp, AtPopa,
                    AtReturn, AtJump, AtLeave, AtFetch
    <2> QED BY <1>9, <2>1, CallJumpKeeps DEF CallInv
<1>10. CASE jump_to_ring3
    <2>1. AtJump
        BY <1>10 DEF CallInv, jump_to_ring3, AtProgram, AtPusha, AtPushEsp, AtCall,
                     AtAddEsp, AtPopa, AtReturn, AtLeave, AtFetch
    <2> QED BY <1>10, <2>1, JumpKeeps DEF CallInv
<1>11. CASE Fetch
    <2>1. AtFetch
        BY <1>11 DEF CallInv, Fetch, AtProgram, AtPusha, AtPushEsp, AtCall, AtAddEsp,
                     AtPopa, AtReturn, AtJump, AtLeave
    <2> QED BY <1>11, <2>1, FetchKeeps DEF CallInv
<1> QED BY <1>1, <1>2, <1>3, <1>4, <1>5, <1>6, <1>7, <1>8, <1>9, <1>10, <1>11 DEF SyscallNext

\* Where the stack of a call is, and what is on it, whatever the program asks for.
THEOREM CallsInvariance == SyscallSpec => []CallInv
BY InitCalls, StepKeepsCalls, PTL DEF SyscallSpec

\* A system call gives back every register but the answer of call 2 in eax, the stack
\* and the interrupt flag.
THEOREM CallsAreTransparent == SyscallSpec => []CallIsTransparent
<1>1. CallInv => CallIsTransparent
    BY DEF CallInv, AtProgram, AtPusha, AtPushEsp, AtCall, AtAddEsp, AtPopa, AtReturn,
           AtJump, AtLeave, AtFetch, CallIsTransparent
<1> QED BY <1>1, CallsInvariance, PTL

\* Calls 1, 3 and 4 take their row or sector from edx and their buffer from ecx, against
\* ArgumentsAreDocumented.
THEOREM ArgumentsAreEdxAndEcx == SyscallSpec => []RequestIsCallers
<1>1. CallInv => RequestIsCallers
    BY DEF CallInv, AtProgram, AtPusha, AtPushEsp, AtCall, AtAddEsp, AtPopa, AtReturn,
           AtJump, AtLeave, AtFetch, NoCall, RequestIsCallers
<1> QED BY <1>1, CallsInvariance, PTL
=============================================================================
