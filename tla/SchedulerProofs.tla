-------------------------- MODULE SchedulerProofs --------------------------
(***************************************************************************)
(* Theorems about Scheduler, for every number of threads, of registers, of *)
(* words that an interrupt pushes, and for every stack that is large       *)
(* enough for one switch and for one interrupt: no stack overflows, and    *)
(* every thread wakes up with the registers and the stack pointer it had.  *)
(*                                                                         *)
(* The invariant says of every block how its stack looks: of one that does *)
(* not run, that it holds a whole frame, made by a switch or fabricated by *)
(* create_thread; of the one that runs, how deep the code that is being    *)
(* executed has gone.                                                      *)
(***************************************************************************)
EXTENDS Scheduler, IntervalInduction, TLAPS

MemType == [Blocks -> [1 .. StackWords -> Word]]
TcbType == [id : 0 .. N, esp : StackPointer, entry : BOOLEAN, next : Blocks]

Types ==
    /\ eip \in Code /\ esp \in StackPointer /\ IF_ \in BOOLEAN
    /\ regs \in [RegisterFile -> Word]
    /\ mem \in MemType
    /\ tcb \in [Blocks -> TcbType]
    /\ running_task \in Blocks /\ created \in 0 .. N
    /\ saved \in [Blocks -> [esp : StackPointer, regs : [RegisterFile -> Word]]]

\* The ring is closed, and the thread that gives up the CPU is not the one that
\* takes it.
Ring ==
    /\ running_task \in Linked
    /\ \A b \in Linked : tcb[b].next \in Linked
    /\ eip \in Creating => created >= 1
    /\ eip = "link head" => tcb[new].next \in Linked
    /\ eip = "mask" => tcb[running_task].next # running_task
    /\ eip \in {"save", "load"} => old_task \in Linked /\ old_task # running_task

\* A stack that was left by a switch, and one that create_thread made.
Slept(b) ==
    /\ tcb[b].esp = At(b, StackWords - 1 - Registers)
    /\ \A r \in RegisterFile : mem[b][StackWords - 1 - Registers + r - 1] = saved[b].regs[r]
    /\ mem[b][StackWords - 1] = "switched" /\ mem[b][StackWords] \in Callers
    /\ saved[b].esp = At(b, StackWords)
Fresh(b) ==
    /\ tcb[b].esp = At(b, StackWords - Registers)
    /\ \A r \in RegisterFile : mem[b][StackWords - Registers + r - 1] = saved[b].regs[r]
    /\ mem[b][StackWords] = "bootstrap"
    /\ saved[b].esp = At(b, StackWords + 1)
Parked(b) == Slept(b) \/ Fresh(b)

\* How deep the code is on the stack of the thread that runs, or gives up the CPU.
Depth ==
    /\ eip \in Callers \cup Creating \cup {"bootstrap"} =>
         esp = At(running_task, StackWords + 1)
    /\ eip \in {"guard", "mask", "switched"} =>
         esp = At(running_task, StackWords) /\ mem[running_task][StackWords] \in Callers
    /\ eip = "save" =>
         /\ esp = At(old_task, StackWords - 1)
         /\ mem[old_task][StackWords - 1] = "switched" /\ mem[old_task][StackWords] \in Callers
         /\ saved[old_task] = [esp |-> At(old_task, StackWords), regs |-> regs]
    /\ eip = "load" => esp = At(old_task, StackWords - 1 - Registers)
    /\ eip = "return" =>
         /\ regs = saved[running_task].regs
         /\ \/ /\ esp = At(running_task, StackWords)
               /\ mem[running_task][StackWords] = "bootstrap"
               /\ saved[running_task].esp = At(running_task, StackWords + 1)
            \/ /\ esp = At(running_task, StackWords - 1)
               /\ mem[running_task][StackWords - 1] = "switched"
               /\ mem[running_task][StackWords] \in Callers
               /\ saved[running_task].esp = At(running_task, StackWords)
    /\ eip \in {"switched", "bootstrap"} => saved[running_task] = [esp |-> esp, regs |-> regs]
    /\ IF_ => eip \in Callers \cup Creating \cup {"guard"}

\* Every other thread is parked; while the CPU changes stacks, all of them are.
Made == KernelTask .. created + 1
Busy == CASE eip = "save" -> old_task [] eip = "load" -> NULL [] OTHER -> running_task
Asleep == \A b \in Made : b = Busy \/ Parked(b)

IInv == Types /\ Ring /\ Depth /\ Asleep

-----------------------------------------------------------------------------
(* Sizes, blocks and stacks.                                               *)

LEMMA Sizes ==
    /\ N \in Nat /\ Registers \in Nat \ {0} /\ IsrWords \in Nat /\ StackWords \in Nat
    /\ StackWords >= Registers + 2 /\ StackWords >= IsrWords + 1
    /\ BootYields \in BOOLEAN /\ Values # {}
    /\ Blocks = 0 .. N + 1
BY SchedulerAssumption DEF SchedulerAssumption, Blocks, NULL

\* The ring holds the blocks from the head's to the last one that was linked.
Last == IF eip \in Creating THEN created ELSE created + 1
LinkedIs ==
    created \in 0 .. N /\ (eip \in Creating => created >= 1) =>
        /\ Linked = 1 .. Last /\ Linked \subseteq Made /\ Made \subseteq Blocks
        /\ NULL \notin Made /\ KernelTask \in Linked

LEMMA LinkedBlocks == LinkedIs
<1> SUFFICES ASSUME created \in 0 .. N, eip \in Creating => created >= 1
             PROVE  /\ Linked = 1 .. Last /\ Linked \subseteq Made /\ Made \subseteq Blocks
                    /\ NULL \notin Made /\ KernelTask \in Linked
    BY DEF LinkedIs
<1>1. N \in Nat /\ Blocks = 0 .. N + 1
    BY Sizes
<1>2. Linked = 1 .. Last
    <2>1. CASE eip \in Creating
        BY <2>1 DEF Linked, Last, TcbOf, KernelTask
    <2>2. CASE eip \notin Creating
        BY <2>2 DEF Linked, Last, TcbOf, KernelTask
    <2> QED BY <2>1, <2>2
<1>3. Last \in Nat /\ Last >= 1 /\ Last <= created + 1
    BY DEF Last
<1> QED BY <1>1, <1>2, <1>3 DEF Made, KernelTask, NULL

\* What the invariant says of the ring, before and after a step that keeps it.
LEMMA RingFacts ==
    ASSUME Types, Ring
    PROVE  /\ running_task \in Made /\ running_task \in Blocks /\ running_task # NULL
           /\ Linked = 1 .. Last /\ Linked \subseteq Made /\ Made \subseteq Blocks
           /\ NULL \notin Made /\ KernelTask \in Linked
           /\ Made = 1 .. created + 1 /\ created \in 0 .. N
BY LinkedBlocks DEF LinkedIs, Types, Ring, Made, KernelTask

\* A word that is pushed.
LEMMA PushStores ==
    ASSUME NEW m \in MemType, NEW b \in Blocks, NEW at \in Int, at - 1 \in 1 .. StackWords,
           NEW w \in Word
    PROVE  /\ Push(m, At(b, at), w) \in MemType
           /\ \A s \in Blocks : s # b => Push(m, At(b, at), w)[s] = m[s]
           /\ \A i \in 1 .. StackWords : Push(m, At(b, at), w)[b][i] =
                                            IF i = at - 1 THEN w ELSE m[b][i]
<1>1. Push(m, At(b, at), w) = [m EXCEPT ![b] = [m[b] EXCEPT ![at - 1] = w]]
    BY DEF Push, At
<1>2. [m[b] EXCEPT ![at - 1] = w] \in [1 .. StackWords -> Word]
    BY DEF MemType
<1> QED BY <1>1, <1>2 DEF MemType

\* A step that touches neither the block, nor its stack, nor what it had, leaves a
\* thread parked.
LEMMA StaysParked ==
    ASSUME NEW b, Parked(b), tcb'[b].esp = tcb[b].esp, mem'[b] = mem[b],
           saved'[b] = saved[b]
    PROVE  Parked(b)'
BY DEF Parked, Slept, Fresh

\* So the others stay asleep when only the busy thread is touched.
LEMMA OthersSleep ==
    ASSUME Asleep, Made' = Made, NEW b, b = Busy, b = Busy',
           \A s \in Made : s # b => /\ tcb'[s].esp = tcb[s].esp /\ mem'[s] = mem[s]
                                    /\ saved'[s] = saved[s]
    PROVE  Asleep'
<1> SUFFICES ASSUME NEW s \in Made, s # b PROVE Parked(s)'
    BY DEF Asleep
<1> QED BY StaysParked DEF Asleep

\* The same, of a step that touches nothing of the kind.
LEMMA NothingStirs ==
    ASSUME Asleep, Busy' = Busy, UNCHANGED <<tcb, mem, saved, created>>
    PROVE  Asleep'
<1>1. Made' = Made
    BY DEF Made
<1> HIDE DEF Busy
<1> QED BY <1>1, OthersSleep

\* A ring that is not being changed is kept by a step that changes no block.
LEMMA RingStays ==
    ASSUME Types, Ring, UNCHANGED <<created, tcb, running_task>>,
           eip \notin Creating, eip' \notin Creating \cup {"mask", "save", "load"}
    PROVE  Ring'
BY DEF Ring, Linked, Creating

-----------------------------------------------------------------------------
(* Steps of the thread that runs which leave every stack as it is.         *)

LEMMA Codes ==
    /\ Code = {"boot", "entry", "finished", "create", "link new", "link head", "mask", "save",
               "load", "return", "bootstrap", "guard", "switched"}
    /\ Callers = {"boot", "entry", "finished"}
    /\ Creating = {"create", "link new", "link head"}
    /\ Code \subseteq Word
BY DEF Code, Callers, Creating, Switching, Word

\* A stack pointer inside its stack, and what it points at.
LEMMA Pointers ==
    ASSUME NEW b \in Blocks, NEW at \in 0 .. StackWords + 1
    PROVE  /\ At(b, at) \in StackPointer
           /\ At(b, at).stack = b /\ At(b, at).at = at
           /\ \A n \in Int : Lower(At(b, at), n) = At(b, at - n)
           /\ \A n \in Int : Raise(At(b, at), n) = At(b, at + n)
           /\ at \in 1 .. StackWords => Top(At(b, at)) = mem[b][at]
BY DEF At, StackPointer, Lower, Raise, Top, ReadAt

LEMMA BootstrapKeeps ==
    ASSUME IInv, Bootstrap
    PROVE  IInv'
<1>1. eip = "bootstrap" /\ eip' \in {"entry", "finished"} /\ IF_' = TRUE
    BY DEF Bootstrap
<1>2. UNCHANGED <<esp, regs, mem, tcb, running_task, created, old_task, saved>>
    BY DEF Bootstrap, ghosts
<1>3. Types'
    BY <1>1, <1>2, Codes DEF IInv, Types, StackPointer, MemType, TcbType
<1>4. Ring'
    BY <1>1, <1>2, RingStays, Codes DEF IInv
<1>5. Depth'
    BY <1>1, <1>2, Codes DEF IInv, Depth
<1>6. Asleep'
    BY <1>1, <1>2, NothingStirs DEF IInv, Busy
<1> QED BY <1>3, <1>4, <1>5, <1>6 DEF IInv

LEMMA EntryReturnsKeeps ==
    ASSUME IInv, EntryReturns
    PROVE  IInv'
<1>1. eip = "entry" /\ eip' = "finished"
    BY DEF EntryReturns
<1>2. UNCHANGED <<IF_, esp, regs, mem, tcb, running_task, created, old_task, saved>>
    BY DEF EntryReturns, ghosts
<1>3. Types'
    BY <1>1, <1>2, Codes DEF IInv, Types, StackPointer, MemType, TcbType
<1>4. Ring'
    BY <1>1, <1>2, RingStays, Codes DEF IInv
<1>5. Depth'
    BY <1>1, <1>2, Codes DEF IInv, Depth
<1>6. Asleep'
    BY <1>1, <1>2, NothingStirs DEF IInv, Busy
<1> QED BY <1>3, <1>4, <1>5, <1>6 DEF IInv

LEMMA ComputeKeeps ==
    ASSUME IInv, Compute
    PROVE  IInv'
<1>1. eip \in {"boot", "entry"} /\ regs' \in [RegisterFile -> Values]
    BY DEF Compute
<1>2. UNCHANGED <<eip, IF_, esp, mem, tcb, running_task, created, old_task, saved>>
    BY DEF Compute, ghosts
<1>3. Types'
    <2>1. regs' \in [RegisterFile -> Word]
        BY <1>1 DEF Word
    <2> QED BY <1>2, <2>1 DEF IInv, Types, StackPointer, MemType, TcbType
<1>4. Ring'
    BY <1>1, <1>2, RingStays, Codes DEF IInv
<1>5. Depth'
    BY <1>1, <1>2, Codes DEF IInv, Depth
<1>6. Asleep'
    BY <1>1, <1>2, NothingStirs DEF IInv, Busy
<1> QED BY <1>3, <1>4, <1>5, <1>6 DEF IInv

LEMMA MaskInterruptsKeeps ==
    ASSUME IInv, MaskInterrupts
    PROVE  IInv'
<1>1. eip = "guard" /\ eip' = "mask" /\ ~Alone /\ IF_' = FALSE
    BY DEF MaskInterrupts
<1>2. UNCHANGED <<esp, regs, mem, tcb, running_task, created, old_task, saved>>
    BY DEF MaskInterrupts, ghosts
<1>3. Types'
    BY <1>1, <1>2, Codes DEF IInv, Types, StackPointer, MemType, TcbType
<1>4. Ring'
    <2>1. Linked' = Linked
        BY <1>1, <1>2 DEF Linked, Creating
    <2> QED BY <1>1, <1>2, <2>1, Codes DEF IInv, Ring, Alone
<1>5. Depth'
    BY <1>1, <1>2, Codes DEF IInv, Depth
<1>6. Asleep'
    BY <1>1, <1>2, NothingStirs DEF IInv, Busy
<1> QED BY <1>3, <1>4, <1>5, <1>6 DEF IInv

LEMMA SwitchReturnsKeeps ==
    ASSUME IInv, SwitchReturns
    PROVE  IInv'
<1>0. StackWords \in Nat /\ StackWords >= 1
    BY Sizes
<1>a. running_task \in Blocks
    BY DEF IInv, Types
<1>1. eip = "guard" /\ eip' = Top(esp) /\ esp' = Raise(esp, 1)
    BY DEF SwitchReturns
<1>2. UNCHANGED <<IF_, regs, mem, tcb, running_task, created, old_task, saved>>
    BY DEF SwitchReturns, ghosts
<1>3. esp = At(running_task, StackWords) /\ mem[running_task][StackWords] \in Callers
    BY <1>1 DEF IInv, Depth
<1>4. eip' \in Callers /\ esp' = At(running_task, StackWords + 1) /\ esp' \in StackPointer
    BY <1>0, <1>a, <1>1, <1>3, Pointers
<1>5. Types'
    BY <1>2, <1>4, Codes DEF IInv, Types, StackPointer, MemType, TcbType
<1>6. Ring'
    BY <1>1, <1>2, <1>4, RingStays, Codes DEF IInv
<1>7. Depth'
    BY <1>1, <1>2, <1>4, Codes DEF IInv, Depth
<1>8. Asleep'
    BY <1>1, <1>2, <1>4, NothingStirs, Codes DEF IInv, Busy
<1> QED BY <1>5, <1>6, <1>7, <1>8 DEF IInv

LEMMA SwitchedKeeps ==
    ASSUME IInv, Switched
    PROVE  IInv'
<1>0. StackWords \in Nat /\ StackWords >= 1
    BY Sizes
<1>a. running_task \in Blocks
    BY DEF IInv, Types
<1>1. eip = "switched" /\ eip' = Top(esp) /\ esp' = Raise(esp, 1) /\ IF_' = TRUE
    BY DEF Switched
<1>2. UNCHANGED <<regs, mem, tcb, running_task, created, old_task, saved>>
    BY DEF Switched, ghosts
<1>3. esp = At(running_task, StackWords) /\ mem[running_task][StackWords] \in Callers
    BY <1>1 DEF IInv, Depth
<1>4. eip' \in Callers /\ esp' = At(running_task, StackWords + 1) /\ esp' \in StackPointer
    BY <1>0, <1>a, <1>1, <1>3, Pointers
<1>5. Types'
    BY <1>1, <1>2, <1>4, Codes DEF IInv, Types, StackPointer, MemType, TcbType
<1>6. Ring'
    BY <1>1, <1>2, <1>4, RingStays, Codes DEF IInv
<1>7. Depth'
    BY <1>1, <1>2, <1>4, Codes DEF IInv, Depth
<1>8. Asleep'
    BY <1>1, <1>2, <1>4, NothingStirs, Codes DEF IInv, Busy
<1> QED BY <1>5, <1>6, <1>7, <1>8 DEF IInv

-----------------------------------------------------------------------------
(* Waking up.                                                              *)

\* What the frame of a parked thread holds, and where its stack pointer leads.
LEMMA ParkedFrame ==
    ASSUME Types, NEW b \in Blocks, Parked(b)
    PROVE  /\ Popa(tcb[b].esp) = saved[b].regs
           /\ \/ /\ Raise(tcb[b].esp, Registers) = At(b, StackWords)
                 /\ mem[b][StackWords] = "bootstrap"
                 /\ saved[b].esp = At(b, StackWords + 1)
              \/ /\ Raise(tcb[b].esp, Registers) = At(b, StackWords - 1)
                 /\ mem[b][StackWords - 1] = "switched"
                 /\ mem[b][StackWords] \in Callers
                 /\ saved[b].esp = At(b, StackWords)
           /\ Raise(tcb[b].esp, Registers) \in StackPointer
           /\ Top(Raise(tcb[b].esp, Registers)) \in {"switched", "bootstrap"}
<1>0. /\ Registers \in Nat /\ Registers >= 1 /\ StackWords \in Nat
      /\ StackWords >= Registers + 2
    BY Sizes
<1>1. saved[b].regs \in [RegisterFile -> Word]
    BY DEF Types
<1>2. ASSUME NEW at \in Int, at >= 1, at + Registers - 1 <= StackWords,
             tcb[b].esp = At(b, at),
             \A r \in RegisterFile : mem[b][at + r - 1] = saved[b].regs[r]
      PROVE  Popa(tcb[b].esp) = saved[b].regs
    <2>1. ASSUME NEW r \in RegisterFile
          PROVE  ReadAt(tcb[b].esp, tcb[b].esp.at + r - 1) = saved[b].regs[r]
        <3>1. r \in Int /\ 1 <= r /\ r <= Registers
            BY <1>0 DEF RegisterFile
        <3>2. at + r - 1 \in 1 .. StackWords
            BY <1>0, <1>2, <3>1
        <3>3. tcb[b].esp.stack = b /\ tcb[b].esp.at = at
            BY <1>2 DEF At
        <3> QED BY <1>2, <2>1, <3>2, <3>3 DEF ReadAt
    <2> QED BY <1>1, <2>1 DEF Popa
<1>3. CASE Slept(b)
    <2>1. Popa(tcb[b].esp) = saved[b].regs
        <3>1. StackWords - 1 - Registers \in Int
            BY <1>0
        <3>2. StackWords - 1 - Registers >= 1 /\ StackWords - 1 - Registers + Registers - 1 <= StackWords
            BY <1>0
        <3> QED BY <1>2, <1>3, <3>1, <3>2 DEF Slept
    <2>2. Raise(tcb[b].esp, Registers) = At(b, StackWords - 1)
        BY <1>0, <1>3 DEF Slept, Raise, At
    <2>3. StackWords - 1 \in 1 .. StackWords /\ StackWords - 1 \in 0 .. StackWords + 1
        BY <1>0
    <2> QED BY <1>3, <2>1, <2>2, <2>3, Pointers DEF Slept
<1>4. CASE Fresh(b)
    <2>1. Popa(tcb[b].esp) = saved[b].regs
        <3>1. StackWords - Registers \in Int
            BY <1>0
        <3>2. StackWords - Registers >= 1 /\ StackWords - Registers + Registers - 1 <= StackWords
            BY <1>0
        <3> QED BY <1>2, <1>4, <3>1, <3>2 DEF Fresh
    <2>2. Raise(tcb[b].esp, Registers) = At(b, StackWords)
        BY <1>0, <1>4 DEF Fresh, Raise, At
    <2>3. StackWords \in 1 .. StackWords /\ StackWords \in 0 .. StackWords + 1
        BY <1>0
    <2> QED BY <1>4, <2>1, <2>2, <2>3, Pointers DEF Fresh
<1> QED BY <1>3, <1>4 DEF Parked

LEMMA LoadContextKeeps ==
    ASSUME IInv, LoadContext
    PROVE  IInv'
<1>a. running_task \in Made /\ running_task \in Blocks /\ running_task # NULL
    BY RingFacts DEF IInv
<1>1. /\ eip = "load" /\ eip' = "return"
      /\ regs' = Popa(tcb[running_task].esp)
      /\ esp' = Raise(tcb[running_task].esp, Registers)
    BY DEF LoadContext
<1>2. UNCHANGED <<IF_, mem, tcb, running_task, created, old_task, saved>>
    BY DEF LoadContext
<1>3. Parked(running_task)
    BY <1>a, <1>1 DEF IInv, Asleep, Busy
<1>4. Types /\ saved[running_task].regs \in [RegisterFile -> Word]
    BY <1>a DEF IInv, Types
<1>5. regs' = saved[running_task].regs /\ esp' \in StackPointer
    BY <1>a, <1>1, <1>3, <1>4, ParkedFrame
<1>6. \/ /\ esp' = At(running_task, StackWords)
         /\ mem[running_task][StackWords] = "bootstrap"
         /\ saved[running_task].esp = At(running_task, StackWords + 1)
      \/ /\ esp' = At(running_task, StackWords - 1)
         /\ mem[running_task][StackWords - 1] = "switched"
         /\ mem[running_task][StackWords] \in Callers
         /\ saved[running_task].esp = At(running_task, StackWords)
    BY <1>a, <1>1, <1>3, <1>4, ParkedFrame
<1>7. Types'
    BY <1>1, <1>2, <1>4, <1>5, Codes DEF Types, StackPointer, MemType, TcbType
<1>8. Ring'
    BY <1>1, <1>2, RingStays, Codes DEF IInv
<1>9. Depth'
    <2>1. ~IF_
        BY <1>1, Codes DEF IInv, Depth
    <2> QED BY <1>1, <1>2, <1>5, <1>6, <2>1, Codes DEF Depth
<1>10. Asleep'
    <2>1. Made' = Made /\ Busy' = running_task
        BY <1>1, <1>2 DEF Made, Busy
    <2>2. \A s \in Made : Parked(s)
        BY <1>1, RingFacts DEF IInv, Asleep, Busy
    <2>3. \A s \in Made : Parked(s)'
        BY <1>2, <2>2, StaysParked
    <2> QED BY <2>1, <2>3 DEF Asleep
<1> QED BY <1>7, <1>8, <1>9, <1>10 DEF IInv

LEMMA ContextReturnKeeps ==
    ASSUME IInv, ContextReturn
    PROVE  IInv'
<1>0. StackWords \in Nat /\ StackWords >= 2
    BY Sizes
<1>a. running_task \in Blocks
    BY DEF IInv, Types
<1>1. eip = "return" /\ eip' = Top(esp) /\ esp' = Raise(esp, 1)
    BY DEF ContextReturn
<1>2. UNCHANGED <<IF_, regs, mem, tcb, running_task, created, old_task, saved>>
    BY DEF ContextReturn, ghosts
<1>3. regs = saved[running_task].regs /\ ~IF_
    BY <1>1, Codes DEF IInv, Depth
<1>4. saved[running_task] = [esp |-> saved[running_task].esp, regs |-> saved[running_task].regs]
    BY <1>a DEF IInv, Types
<1>5. \/ /\ eip' = "bootstrap" /\ esp' = At(running_task, StackWords + 1)
         /\ saved[running_task].esp = At(running_task, StackWords + 1)
      \/ /\ eip' = "switched" /\ esp' = At(running_task, StackWords)
         /\ mem[running_task][StackWords] \in Callers
         /\ saved[running_task].esp = At(running_task, StackWords)
    <2>1. \/ /\ esp = At(running_task, StackWords)
             /\ mem[running_task][StackWords] = "bootstrap"
             /\ saved[running_task].esp = At(running_task, StackWords + 1)
          \/ /\ esp = At(running_task, StackWords - 1)
             /\ mem[running_task][StackWords - 1] = "switched"
             /\ mem[running_task][StackWords] \in Callers
             /\ saved[running_task].esp = At(running_task, StackWords)
        BY <1>1 DEF IInv, Depth
    <2>2. CASE esp = At(running_task, StackWords)
        <3>1. esp # At(running_task, StackWords - 1)
            BY <1>0, <2>2 DEF At
        <3>2. Top(esp) = mem[running_task][StackWords] /\ esp' = At(running_task, StackWords + 1)
            BY <1>0, <1>a, <1>1, <2>2, Pointers
        <3> QED BY <1>1, <2>1, <3>1, <3>2
    <2>3. CASE esp = At(running_task, StackWords - 1)
        <3>1. esp # At(running_task, StackWords)
            BY <1>0, <2>3 DEF At
        <3>2. StackWords - 1 \in 1 .. StackWords /\ StackWords - 1 \in 0 .. StackWords + 1
            BY <1>0
        <3>3. Top(esp) = mem[running_task][StackWords - 1]
              /\ esp' = At(running_task, StackWords - 1 + 1)
            BY <1>a, <1>1, <2>3, <3>2, Pointers
        <3>4. StackWords - 1 + 1 = StackWords
            BY <1>0
        <3> QED BY <1>1, <2>1, <3>1, <3>3, <3>4
    <2> QED BY <2>1, <2>2, <2>3
<1>6. esp' \in StackPointer
    BY <1>0, <1>a, <1>5, Pointers
<1>7. Types'
    BY <1>2, <1>5, <1>6, Codes DEF IInv, Types, StackPointer, MemType, TcbType
<1>8. Ring'
    BY <1>1, <1>2, <1>5, RingStays, Codes DEF IInv
<1>9. Depth'
    BY <1>2, <1>3, <1>4, <1>5, Codes DEF Depth
<1>10. Asleep'
    BY <1>1, <1>2, <1>5, NothingStirs, Codes DEF IInv, Busy
<1> QED BY <1>7, <1>8, <1>9, <1>10 DEF IInv

-----------------------------------------------------------------------------
(* Steps that write to a stack.                                            *)

LEMMA CallSwitchKeeps ==
    ASSUME IInv, CallSwitch
    PROVE  IInv'
<1>0. StackWords \in Nat /\ StackWords >= 1
    BY Sizes
<1>a. running_task \in Blocks /\ mem \in MemType
    BY DEF IInv, Types
<1>1. /\ eip \in Callers /\ eip' = "guard"
      /\ mem' = Push(mem, esp, eip) /\ esp' = Lower(esp, 1)
    BY DEF CallSwitch
<1>2. UNCHANGED <<regs, IF_, tcb, running_task, created, old_task, saved>>
    BY DEF CallSwitch, ghosts
<1>3. esp = At(running_task, StackWords + 1)
    BY <1>1 DEF IInv, Depth
<1>4. /\ mem' \in MemType /\ mem'[running_task][StackWords] = eip
      /\ \A s \in Blocks : s # running_task => mem'[s] = mem[s]
    <2>1. StackWords + 1 \in Int /\ StackWords + 1 - 1 \in 1 .. StackWords
        BY <1>0
    <2>2. eip \in Word
        BY <1>1, Codes
    <2>3. StackWords \in 1 .. StackWords /\ StackWords = StackWords + 1 - 1
        BY <1>0
    <2> QED BY <1>a, <1>1, <1>3, <2>1, <2>2, <2>3, PushStores
<1>5. esp' = At(running_task, StackWords) /\ esp' \in StackPointer
    BY <1>0, <1>a, <1>1, <1>3, Pointers
<1>6. Types'
    BY <1>1, <1>2, <1>4, <1>5, Codes DEF IInv, Types, StackPointer, MemType, TcbType
<1>7. Ring'
    BY <1>1, <1>2, RingStays, Codes DEF IInv
<1>8. Depth'
    BY <1>1, <1>2, <1>4, <1>5, Codes DEF Depth
<1>9. Asleep'
    <2>1. Busy = running_task /\ Busy' = running_task /\ Made' = Made
        BY <1>1, <1>2, Codes DEF Busy, Made
    <2>2. Made \subseteq Blocks /\ Asleep
        BY RingFacts DEF IInv
    <2> QED BY <1>2, <1>4, <2>1, <2>2, OthersSleep
<1> QED BY <1>6, <1>7, <1>8, <1>9 DEF IInv

LEMMA AdvanceRunningKeeps ==
    ASSUME IInv, AdvanceRunning
    PROVE  IInv'
<1>0. StackWords \in Nat /\ StackWords >= 2
    BY Sizes
<1>a. running_task \in Blocks /\ mem \in MemType /\ regs \in [RegisterFile -> Word]
    BY DEF IInv, Types
<1>b. Linked \subseteq Blocks /\ Made \subseteq Blocks
    BY RingFacts DEF IInv
<1>1. /\ eip = "mask" /\ eip' = "save"
      /\ old_task' = running_task /\ running_task' = tcb[running_task].next
      /\ mem' = Push(mem, esp, "switched") /\ esp' = Lower(esp, 1)
      /\ saved' = [saved EXCEPT ![running_task] = [esp |-> esp, regs |-> regs]]
    BY DEF AdvanceRunning
<1>2. UNCHANGED <<regs, IF_, tcb, created>>
    BY DEF AdvanceRunning
<1>3. esp = At(running_task, StackWords) /\ mem[running_task][StackWords] \in Callers /\ ~IF_
    BY <1>1, Codes DEF IInv, Depth
<1>4. /\ mem' \in MemType
      /\ mem'[running_task][StackWords - 1] = "switched"
      /\ mem'[running_task][StackWords] \in Callers
      /\ \A s \in Blocks : s # running_task => mem'[s] = mem[s]
    <2>1. StackWords \in Int /\ StackWords - 1 \in 1 .. StackWords
          /\ StackWords \in 1 .. StackWords /\ StackWords # StackWords - 1
        BY <1>0
    <2>2. "switched" \in Word
        BY Codes
    <2> QED BY <1>a, <1>1, <1>3, <2>1, <2>2, PushStores
<1>5. esp' = At(running_task, StackWords - 1) /\ esp' \in StackPointer /\ esp \in StackPointer
    BY <1>0, <1>a, <1>1, <1>3, Pointers
<1>6. /\ saved' \in [Blocks -> [esp : StackPointer, regs : [RegisterFile -> Word]]]
      /\ saved'[running_task] = [esp |-> esp, regs |-> regs]
      /\ \A s \in Blocks : s # running_task => saved'[s] = saved[s]
    BY <1>a, <1>1, <1>5 DEF IInv, Types
<1>7. /\ Linked' = Linked /\ running_task \in Linked /\ running_task' \in Linked
      /\ running_task' # running_task
    BY <1>1, <1>2, Codes DEF IInv, Ring, Linked
<1>8. StackPointer' = StackPointer
    BY DEF StackPointer
<1>9. Types'
    BY <1>1, <1>2, <1>4, <1>5, <1>6, <1>7, <1>b, Codes DEF IInv, Types, StackPointer, MemType, TcbType
<1>10. Ring'
    BY <1>1, <1>2, <1>7, Codes DEF IInv, Ring
<1>11. Depth'
    BY <1>1, <1>2, <1>3, <1>4, <1>5, <1>6, Codes DEF Depth
<1>12. Asleep'
    <2>1. Busy = running_task /\ Busy' = running_task /\ Made' = Made
        BY <1>1, <1>2, Codes DEF Busy, Made
    <2>2. Asleep
        BY DEF IInv
    <2> QED BY <1>2, <1>4, <1>6, <1>b, <2>1, <2>2, OthersSleep
<1> QED BY <1>9, <1>10, <1>11, <1>12 DEF IInv

LEMMA SaveContextKeeps ==
    ASSUME IInv, SaveContext
    PROVE  IInv'
<1>0. /\ Registers \in Nat /\ Registers >= 1 /\ StackWords \in Nat
      /\ StackWords >= Registers + 2
    BY Sizes
<1> DEFINE f == StackWords - 1 - Registers     \* the first word of the frame
<1>1. /\ eip = "save" /\ eip' = "load"
      /\ mem' = Pusha(mem, esp) /\ esp' = Lower(esp, Registers)
      /\ tcb' = [tcb EXCEPT ![old_task].esp = esp']
    BY DEF SaveContext
<1>2. UNCHANGED <<regs, IF_, running_task, created, old_task, saved>>
    BY DEF SaveContext, ghosts
<1>a. old_task \in Linked /\ old_task \in Made /\ old_task \in Blocks /\ old_task # running_task
    BY <1>1, RingFacts DEF IInv, Ring
<1>b. /\ mem \in MemType /\ regs \in [RegisterFile -> Word] /\ Made \subseteq Blocks
      /\ tcb \in [Blocks -> TcbType]
    BY RingFacts DEF IInv, Types
<1>3. /\ esp = At(old_task, StackWords - 1)
      /\ mem[old_task][StackWords - 1] = "switched" /\ mem[old_task][StackWords] \in Callers
      /\ saved[old_task] = [esp |-> At(old_task, StackWords), regs |-> regs] /\ ~IF_
    BY <1>1, Codes DEF IInv, Depth
<1>c. /\ f \in Int /\ f = StackWords - 1 - Registers /\ f >= 1
      /\ f \in 0 .. StackWords + 1 /\ StackWords - 1 \in 0 .. StackWords + 1
      /\ StackWords - 1 \in 1 .. StackWords /\ StackWords \in 1 .. StackWords
      /\ Registers \in Int
    BY <1>0
<1> HIDE DEF f
<1>4. esp.stack = old_task /\ esp.at = StackWords - 1 /\ esp' = At(old_task, f)
      /\ esp' \in StackPointer
    <2>1. Lower(esp, Registers) = At(old_task, StackWords - 1 - Registers)
        BY <1>a, <1>c, <1>3, Pointers
    <2>2. At(old_task, f) \in StackPointer
        BY <1>a, <1>c, Pointers
    <2>3. esp.stack = old_task /\ esp.at = StackWords - 1
        BY <1>3 DEF At
    <2> QED BY <1>c, <1>1, <2>1, <2>2, <2>3
<1>5. mem' = [mem EXCEPT ![old_task] =
                 [i \in 1 .. StackWords |->
                     IF i \in f .. StackWords - 1 - 1 THEN regs[i - f + 1] ELSE mem[old_task][i]]]
    BY <1>1, <1>4, <1>c DEF Pusha
<1>6. \A s \in Blocks : s # old_task => mem'[s] = mem[s]
    BY <1>5, <1>b DEF MemType
<1>7. mem'[old_task] = [i \in 1 .. StackWords |->
                     IF i \in f .. StackWords - 1 - 1 THEN regs[i - f + 1] ELSE mem[old_task][i]]
    BY <1>5, <1>a, <1>b DEF MemType
<1>8. mem' \in MemType
    <2>1. ASSUME NEW i \in 1 .. StackWords, i \in f .. StackWords - 1 - 1
          PROVE  regs[i - f + 1] \in Word
        <3>1. i - f + 1 \in RegisterFile
            BY <1>0, <1>c, <2>1 DEF RegisterFile
        <3> QED BY <1>b, <3>1
    <2>2. \A i \in 1 .. StackWords : mem[old_task][i] \in Word
        BY <1>a, <1>b DEF MemType
    <2>3. mem'[old_task] \in [1 .. StackWords -> Word]
        BY <1>7, <2>1, <2>2
    <2> QED BY <1>5, <1>7, <1>a, <1>b, <2>3 DEF MemType
<1>9. /\ mem'[old_task][StackWords - 1] = "switched" /\ mem'[old_task][StackWords] \in Callers
    <2>1. StackWords - 1 \notin f .. StackWords - 1 - 1 /\ StackWords \notin f .. StackWords - 1 - 1
        BY <1>0, <1>c
    <2> QED BY <1>3, <1>7, <1>c, <2>1
<1>10. ASSUME NEW r \in RegisterFile
       PROVE  mem'[old_task][f + r - 1] = regs[r]
    <2>1. r \in Int /\ 1 <= r /\ r <= Registers
        BY <1>0 DEF RegisterFile
    <2>2. PICK i \in Int : i = f + r - 1
        BY <1>c, <2>1
    <2>3. i \in 1 .. StackWords /\ i \in f .. StackWords - 1 - 1 /\ i - f + 1 = r
        BY <1>0, <1>c, <2>1, <2>2
    <2>4. mem'[old_task][i] = regs[i - f + 1]
        BY <1>7, <2>3
    <2> QED BY <2>2, <2>3, <2>4
<1>11. /\ tcb' \in [Blocks -> TcbType]
       /\ tcb'[old_task].esp = At(old_task, f)
       /\ \A s \in Blocks : tcb'[s].next = tcb[s].next
       /\ \A s \in Blocks : s # old_task => tcb'[s] = tcb[s]
    <2>1. tcb[old_task] \in TcbType
        BY <1>a, <1>b
    <2>2. [tcb[old_task] EXCEPT !.esp = esp'] \in TcbType
        BY <1>4, <2>1 DEF TcbType
    <2>3. [tcb[old_task] EXCEPT !.esp = esp'].next = tcb[old_task].next
          /\ [tcb[old_task] EXCEPT !.esp = esp'].esp = esp'
        BY <2>1 DEF TcbType
    <2>4. tcb' = [tcb EXCEPT ![old_task] = [tcb[old_task] EXCEPT !.esp = esp']]
        BY <1>1
    <2> HIDE DEF TcbType
    <2> QED BY <1>a, <1>b, <1>4, <2>2, <2>3, <2>4
<1>12. Types'
    BY <1>1, <1>2, <1>4, <1>8, <1>11, Codes DEF IInv, Types, StackPointer, MemType, TcbType
<1>13. Ring'
    <2>1. Linked' = Linked /\ Linked \subseteq Blocks
        BY <1>1, <1>2, RingFacts, Codes DEF IInv, Linked
    <2>2. running_task \in Linked /\ \A b \in Linked : tcb'[b].next \in Linked
        BY <1>11, <2>1 DEF IInv, Ring
    <2> QED BY <1>1, <1>2, <1>a, <2>1, <2>2, Codes DEF Ring
<1>14. Depth'
    BY <1>1, <1>2, <1>3, <1>4, <1>c, Codes DEF Depth
<1>15. Asleep'
    <2>1. Busy = old_task /\ Made' = Made
        BY <1>1, <1>2 DEF Busy, Made
    <2>2. ASSUME NEW s \in Made, s # old_task PROVE Parked(s)'
        BY <1>2, <1>6, <1>11, <1>b, <2>1, <2>2, StaysParked DEF IInv, Asleep
    <2>3. Slept(old_task)'
        BY <1>2, <1>3, <1>9, <1>10, <1>11, <1>c DEF Slept
    <2> QED BY <1>2, <2>1, <2>2, <2>3 DEF Asleep, Parked
<1> QED BY <1>12, <1>13, <1>14, <1>15 DEF IInv

LEMMA InterruptKeeps ==
    ASSUME IInv, Interrupt
    PROVE  IInv'
<1>0. StackWords \in Nat /\ StackWords >= 1 /\ IsrWords \in Nat
    BY Sizes
<1>a. running_task \in Blocks /\ mem \in MemType
    BY DEF IInv, Types
<1>1. /\ IF_
      /\ mem' = [mem EXCEPT ![esp.stack] =
                   [i \in 1 .. StackWords |->
                       IF i \in esp.at - IsrWords .. esp.at - 1 THEN Junk ELSE @[i]]]
      /\ UNCHANGED <<eip, esp, regs, IF_, tcb, running_task, created, old_task, saved>>
    BY DEF Interrupt, cpu, ghosts
<1>2. eip \in Callers \cup Creating \cup {"guard"}
    BY <1>1 DEF IInv, Depth
<1>3. esp.stack = running_task
    <2>1. esp = At(running_task, StackWords + 1) \/ esp = At(running_task, StackWords)
        BY <1>2 DEF IInv, Depth
    <2> QED BY <2>1 DEF At
<1>4. /\ mem' \in MemType
      /\ \A s \in Blocks : s # running_task => mem'[s] = mem[s]
    <2>1. Junk \in Word
        BY DEF Word
    <2>2. [i \in 1 .. StackWords |->
              IF i \in esp.at - IsrWords .. esp.at - 1 THEN Junk ELSE mem[running_task][i]]
          \in [1 .. StackWords -> Word]
        BY <1>a, <2>1 DEF MemType
    <2> QED BY <1>a, <1>1, <1>3, <2>2 DEF MemType
<1>5. eip = "guard" => mem'[running_task][StackWords] = mem[running_task][StackWords]
    <2> SUFFICES ASSUME eip = "guard"
                 PROVE  mem'[running_task][StackWords] = mem[running_task][StackWords]
        OBVIOUS
    <2>1. esp.at = StackWords
        BY DEF IInv, Depth, At
    <2>2. StackWords \in 1 .. StackWords /\ StackWords \notin esp.at - IsrWords .. esp.at - 1
        BY <1>0, <2>1
    <2> QED BY <1>a, <1>1, <1>3, <2>2 DEF MemType
<1>6. Types'
    BY <1>1, <1>4 DEF IInv, Types, StackPointer, MemType, TcbType
<1>7. Ring'
    <2>1. Linked' = Linked /\ new' = new
        BY <1>1 DEF Linked, new
    <2> QED BY <1>1, <2>1 DEF IInv, Ring
<1>8. Depth'
    BY <1>1, <1>2, <1>5, Codes DEF IInv, Depth
<1>9. Asleep'
    <2>1. Busy = running_task /\ Busy' = running_task /\ Made' = Made
        BY <1>1, <1>2, Codes DEF Busy, Made
    <2>2. Made \subseteq Blocks /\ Asleep
        BY RingFacts DEF IInv
    <2> QED BY <1>1, <1>4, <2>1, <2>2, OthersSleep
<1> QED BY <1>6, <1>7, <1>8, <1>9 DEF IInv

-----------------------------------------------------------------------------
(* A thread is made, and linked into the ring.                             *)

LEMMA CreateThreadKeeps ==
    ASSUME IInv, CreateThread
    PROVE  IInv'
<1>0. /\ Registers \in Nat /\ Registers >= 1 /\ StackWords \in Nat
      /\ StackWords >= Registers + 2 /\ N \in Nat /\ Blocks = 0 .. N + 1
    BY Sizes
<1> DEFINE f == StackWords - Registers
<1>1. /\ eip = "boot" /\ created < N /\ created' = created + 1 /\ eip' = "link new"
      /\ tcb' = [tcb EXCEPT ![TcbOf(created')] =
                    [@ EXCEPT !.id = created', !.entry = TRUE,
                              !.esp = FabricatedEsp(StackOf(created'))]]
      /\ mem' = Fabricate(mem, StackOf(created'))
      /\ saved' = [saved EXCEPT ![TcbOf(created')] =
                      [esp  |-> At(StackOf(created'), StackWords + 1),
                       regs |-> [r \in RegisterFile |-> ZeroWord]]]
    BY DEF CreateThread
<1>2. UNCHANGED <<esp, regs, IF_, running_task, old_task>>
    BY DEF CreateThread
<1>a. /\ running_task \in Linked /\ running_task \in Made /\ Linked = 1 .. Last
      /\ Made = 1 .. created + 1 /\ Made \subseteq Blocks /\ created \in 0 .. N
    BY RingFacts DEF IInv, Ring
<1>b. /\ mem \in MemType /\ tcb \in [Blocks -> TcbType]
      /\ saved \in [Blocks -> [esp : StackPointer, regs : [RegisterFile -> Word]]]
    BY DEF IInv, Types
<1>p. PICK b \in Nat : b = created + 2        \* the new block
    BY <1>a
<1>c. /\ b \in Blocks /\ b \notin Made /\ TcbOf(created') = b /\ StackOf(created') = b
      /\ created' \in 0 .. N /\ created' >= 1
    <2>1. created < N /\ created' = created + 1
        BY <1>1
    <2> QED BY <1>0, <1>a, <1>p, <2>1 DEF TcbOf, StackOf
<1>d. /\ f \in Int /\ f = StackWords - Registers /\ f >= 1 /\ f \in 0 .. StackWords + 1
      /\ StackWords + 1 \in 0 .. StackWords + 1 /\ StackWords \in 1 .. StackWords
    BY <1>0
<1> HIDE DEF f
<1>3. At(b, f) \in StackPointer /\ At(b, StackWords + 1) \in StackPointer
    BY <1>c, <1>d, Pointers
<1>4. FabricatedEsp(StackOf(created')) = At(b, f) /\ FabricatedEsp(b).at = f
    BY <1>c, <1>d DEF FabricatedEsp, At
<1>5. mem' = [mem EXCEPT ![b] =
                 [i \in 1 .. StackWords |->
                     IF i = StackWords THEN "bootstrap"
                     ELSE IF i >= f THEN ZeroWord ELSE mem[b][i]]]
    BY <1>1, <1>b, <1>c, <1>4 DEF Fabricate, MemType
<1>6. /\ mem' \in MemType
      /\ \A s \in Blocks : s # b => mem'[s] = mem[s]
      /\ mem'[b] = [i \in 1 .. StackWords |->
                     IF i = StackWords THEN "bootstrap"
                     ELSE IF i >= f THEN ZeroWord ELSE mem[b][i]]
    <2>1. "bootstrap" \in Word /\ ZeroWord \in Word
        BY Codes DEF Word
    <2>2. [i \in 1 .. StackWords |->
              IF i = StackWords THEN "bootstrap"
              ELSE IF i >= f THEN ZeroWord ELSE mem[b][i]] \in [1 .. StackWords -> Word]
        <3>1. \A i \in 1 .. StackWords : mem[b][i] \in Word
            BY <1>b, <1>c DEF MemType
        <3> QED BY <2>1, <3>1
    <2> QED BY <1>b, <1>c, <1>5, <2>2 DEF MemType
<1>7. /\ tcb' \in [Blocks -> TcbType]
      /\ tcb'[b].esp = At(b, f)
      /\ \A s \in Blocks : tcb'[s].next = tcb[s].next
      /\ \A s \in Blocks : s # b => tcb'[s] = tcb[s]
    <2> DEFINE t == [tcb[b] EXCEPT !.id = created', !.entry = TRUE, !.esp = At(b, f)]
    <2>1. tcb[b] \in TcbType
        BY <1>b, <1>c
    <2>2. t \in TcbType /\ t.next = tcb[b].next /\ t.esp = At(b, f)
        BY <1>c, <1>3, <2>1 DEF TcbType
    <2>3. tcb' = [tcb EXCEPT ![b] = t]
        BY <1>1, <1>c, <1>4
    <2> HIDE DEF t
    <2> QED BY <1>b, <1>c, <2>2, <2>3
<1>8. /\ saved' \in [Blocks -> [esp : StackPointer, regs : [RegisterFile -> Word]]]
      /\ saved'[b] = [esp |-> At(b, StackWords + 1), regs |-> [r \in RegisterFile |-> ZeroWord]]
      /\ \A s \in Blocks : s # b => saved'[s] = saved[s]
    <2>1. [r \in RegisterFile |-> ZeroWord] \in [RegisterFile -> Word]
        BY DEF Word
    <2>2. saved' = [saved EXCEPT ![b] = [esp  |-> At(b, StackWords + 1),
                                         regs |-> [r \in RegisterFile |-> ZeroWord]]]
        BY <1>1, <1>c
    <2> QED BY <1>b, <1>c, <1>3, <2>1, <2>2
<1>9. Types'
    BY <1>1, <1>2, <1>c, <1>6, <1>7, <1>8, Codes
       DEF IInv, Types, StackPointer, MemType, TcbType
<1>10. Ring'
    <2>1. Linked' = Linked
        <3>1. Linked = {KernelTask} \cup {TcbOf(k) : k \in 1 .. created}
            BY <1>1, Codes DEF Linked
        <3>2. Linked' = {KernelTask} \cup {TcbOf(k) : k \in 1 .. created' - 1}
            BY <1>1, Codes DEF Linked
        <3>3. created \in Int
            BY <1>0, <1>a
        <3>4. created' = created + 1
            BY <1>1
        <3>5. created' - 1 = created
            BY <3>3, <3>4
        <3> QED BY <3>1, <3>2, <3>5
    <2>2. \A s \in Linked : tcb'[s].next \in Linked
        <3>1. Linked \subseteq Blocks
            BY RingFacts DEF IInv
        <3> QED BY <1>7, <3>1 DEF IInv, Ring
    <2> QED BY <1>1, <1>2, <1>a, <1>c, <2>1, <2>2, Codes DEF Ring
<1>11. Depth'
    BY <1>1, <1>2, Codes DEF IInv, Depth
<1>12. Asleep'
    <2>1. Busy = running_task /\ Busy' = running_task
        BY <1>1, <1>2 DEF Busy
    <2>2. Made' = Made \cup {b}
        <3>1. Made' = 1 .. created + 1 + 1
            BY <1>1 DEF Made, KernelTask
        <3> QED BY <1>a, <1>p, <3>1
    <2>3. ASSUME NEW s \in Made, s # running_task PROVE Parked(s)'
        <3>1. Parked(s) /\ s \in Blocks /\ s # b
            BY <1>a, <1>c, <2>1, <2>3 DEF IInv, Asleep
        <3> QED BY <1>6, <1>7, <1>8, <3>1, StaysParked
    <2>4. Fresh(b)'
        <3>1. ASSUME NEW r \in RegisterFile
              PROVE  mem'[b][f + r - 1] = ZeroWord
            <4>1. r \in Int /\ 1 <= r /\ r <= Registers
                BY <1>0 DEF RegisterFile
            <4>2. PICK i \in Int : i = f + r - 1
                BY <1>d, <4>1
            <4>3. i \in 1 .. StackWords /\ i # StackWords /\ i >= f
                BY <1>0, <1>d, <4>1, <4>2
            <4>4. mem'[b][i] = ZeroWord
                BY <1>6, <4>3
            <4> QED BY <4>2, <4>4
        <3>2. mem'[b][StackWords] = "bootstrap"
            BY <1>6, <1>d
        <3>3. \A r \in RegisterFile : saved'[b].regs[r] = ZeroWord
            BY <1>8
        <3>4. saved'[b].esp = At(b, StackWords + 1)
            BY <1>8
        <3> QED BY <1>7, <1>d, <3>1, <3>2, <3>3, <3>4 DEF Fresh
    <2> QED BY <2>1, <2>2, <2>3, <2>4 DEF Asleep, Parked
<1> QED BY <1>9, <1>10, <1>11, <1>12 DEF IInv

LEMMA LinkNewKeeps ==
    ASSUME IInv, LinkNew
    PROVE  IInv'
<1>1. /\ eip = "link new" /\ eip' = "link head"
      /\ tcb' = [tcb EXCEPT ![new].next = tcb[KernelTask].next]
    BY DEF LinkNew
<1>2. UNCHANGED <<esp, regs, IF_, mem, running_task, created, old_task, saved>>
    BY DEF LinkNew, ghosts
<1>a. /\ running_task \in Linked /\ KernelTask \in Linked /\ Linked = 1 .. Last
      /\ Made = 1 .. created + 1 /\ Made \subseteq Blocks /\ Linked \subseteq Blocks
      /\ created \in 0 .. N /\ created >= 1
    BY <1>1, RingFacts, Codes DEF IInv, Ring
<1>b. tcb \in [Blocks -> TcbType]
    BY DEF IInv, Types
<1>c. /\ new \in Blocks /\ new \notin Linked /\ new' = new /\ Linked' = Linked
    <2>1. N \in Nat /\ Blocks = 0 .. N + 1
        BY Sizes
    <2>2. created \in Int /\ 1 <= created /\ created <= N
        BY <1>a, <2>1
    <2>3. Linked = 1 .. created
        BY <1>1, <1>a, Codes DEF Last
    <2>4. new = created + 1
        BY DEF new, TcbOf
    <2>5. new' = new
        BY <1>2 DEF new
    <2>6. Linked' = Linked
        <3>1. eip \in Creating /\ eip' \in Creating /\ created' = created
            BY <1>1, <1>2, Codes
        <3> QED BY <3>1 DEF Linked
    <2> QED BY <2>1, <2>2, <2>3, <2>4, <2>5, <2>6
<1>3. /\ tcb' \in [Blocks -> TcbType]
      /\ tcb'[new].next = tcb[KernelTask].next
      /\ \A s \in Blocks : tcb'[s].esp = tcb[s].esp
      /\ \A s \in Blocks : s # new => tcb'[s] = tcb[s]
    <2> DEFINE t == [tcb[new] EXCEPT !.next = tcb[KernelTask].next]
    <2>1. tcb[new] \in TcbType /\ tcb[KernelTask].next \in Blocks
        BY <1>a, <1>b, <1>c DEF TcbType
    <2>2. t \in TcbType /\ t.next = tcb[KernelTask].next /\ t.esp = tcb[new].esp
        BY <2>1 DEF TcbType
    <2>3. tcb' = [tcb EXCEPT ![new] = t]
        BY <1>1
    <2> HIDE DEF t
    <2> QED BY <1>b, <1>c, <2>2, <2>3
<1>4. Types'
    BY <1>1, <1>2, <1>3, Codes DEF IInv, Types, StackPointer, MemType, TcbType
<1>5. Ring'
    <2>1. \A s \in Linked : tcb'[s].next = tcb[s].next
        BY <1>a, <1>c, <1>3
    <2>2. /\ \A s \in Linked : tcb[s].next \in Linked
        BY DEF IInv, Ring
    <2>3. tcb'[new].next \in Linked
        BY <1>a, <1>3, <2>2
    <2>4. tcb'[new'].next \in Linked'
        BY <1>c, <2>3
    <2>5. \A s \in Linked' : tcb'[s].next \in Linked'
        BY <1>c, <2>1, <2>2
    <2>6. running_task' \in Linked' /\ created' >= 1
        BY <1>2, <1>a, <1>c
    <2>7. eip' \notin {"mask", "save", "load"}
        BY <1>1
    <2> QED BY <2>4, <2>5, <2>6, <2>7 DEF Ring
<1>6. Depth'
    BY <1>1, <1>2, Codes DEF IInv, Depth
<1>7. Asleep'
    <2>1. Busy = running_task /\ Busy' = running_task /\ Made' = Made
        BY <1>1, <1>2 DEF Busy, Made
    <2>2. Asleep
        BY DEF IInv
    <2> QED BY <1>2, <1>3, <1>a, <2>1, <2>2, OthersSleep
<1> QED BY <1>4, <1>5, <1>6, <1>7 DEF IInv

LEMMA LinkHeadKeeps ==
    ASSUME IInv, LinkHead
    PROVE  IInv'
<1>1. /\ eip = "link head" /\ eip' = "boot"
      /\ tcb' = [tcb EXCEPT ![KernelTask].next = new]
    BY DEF LinkHead
<1>2. UNCHANGED <<esp, regs, IF_, mem, running_task, created, old_task, saved>>
    BY DEF LinkHead, ghosts
<1>a. /\ running_task \in Linked /\ KernelTask \in Linked /\ Linked = 1 .. created
      /\ Made = 1 .. created + 1 /\ Made \subseteq Blocks /\ Linked \subseteq Blocks
      /\ created \in 0 .. N /\ created >= 1
    BY <1>1, RingFacts, Codes DEF IInv, Ring, Last
<1>b. tcb \in [Blocks -> TcbType] /\ new = created + 1 /\ new \in Blocks /\ new # KernelTask
    BY <1>a DEF IInv, Types, new, TcbOf, KernelTask
<1>c. Linked' = Linked \cup {new}
    <2>1. Linked' = {KernelTask} \cup {TcbOf(k) : k \in 1 .. created}
        BY <1>1, <1>2, Codes DEF Linked
    <2>2. Linked' = 1 .. created + 1
        <3>1. created \in Int /\ created >= 1
            BY <1>a, Sizes
        <3> QED BY <2>1, <3>1 DEF TcbOf, KernelTask
    <2> QED BY <1>a, <1>b, <2>2
<1>3. /\ tcb' \in [Blocks -> TcbType]
      /\ tcb'[KernelTask].next = new
      /\ \A s \in Blocks : tcb'[s].esp = tcb[s].esp
      /\ \A s \in Blocks : s # KernelTask => tcb'[s] = tcb[s]
    <2> DEFINE t == [tcb[KernelTask] EXCEPT !.next = new]
    <2>1. tcb[KernelTask] \in TcbType /\ KernelTask \in Blocks
        BY <1>a, <1>b
    <2>2. t \in TcbType /\ t.next = new /\ t.esp = tcb[KernelTask].esp
        BY <1>b, <2>1 DEF TcbType
    <2>3. tcb' = [tcb EXCEPT ![KernelTask] = t]
        BY <1>1
    <2> HIDE DEF t
    <2> QED BY <1>b, <2>1, <2>2, <2>3
<1>4. Types'
    BY <1>1, <1>2, <1>3, Codes DEF IInv, Types, StackPointer, MemType, TcbType
<1>5. Ring'
    <2>1. \A s \in Linked : tcb[s].next \in Linked
        BY DEF IInv, Ring
    <2>2. tcb[new].next \in Linked
        BY <1>1, Codes DEF IInv, Ring
    <2>3. \A s \in Linked' : tcb'[s].next \in Linked'
        BY <1>a, <1>b, <1>c, <1>3, <2>1, <2>2
    <2> QED BY <1>1, <1>2, <1>a, <1>c, <2>3, Codes DEF Ring
<1>6. Depth'
    BY <1>1, <1>2, Codes DEF IInv, Depth
<1>7. Asleep'
    <2>1. Busy = running_task /\ Busy' = running_task /\ Made' = Made
        BY <1>1, <1>2 DEF Busy, Made
    <2>2. Asleep
        BY DEF IInv
    <2> QED BY <1>2, <1>3, <1>a, <2>1, <2>2, OthersSleep
<1> QED BY <1>4, <1>5, <1>6, <1>7 DEF IInv

-----------------------------------------------------------------------------
(* The theorems.                                                           *)

LEMMA InitInvariant == Init => IInv
<1> SUFFICES ASSUME Init PROVE IInv
    OBVIOUS
<1>0. StackWords \in Nat /\ N \in Nat /\ Blocks = 0 .. N + 1
    BY Sizes
<1>1. /\ eip = "boot" /\ esp = At(KernelTask, StackWords + 1) /\ IF_ = FALSE
      /\ regs = [r \in RegisterFile |-> ZeroWord]
      /\ mem = [s \in Blocks |-> [i \in 1 .. StackWords |-> Junk]]
      /\ tcb = [b \in Blocks |-> [id |-> 0, esp |-> At(NULL, 0), entry |-> FALSE,
                                  next |-> KernelTask]]
      /\ running_task = KernelTask /\ created = 0
      /\ saved = [b \in Blocks |-> [esp |-> At(b, 0), regs |-> regs]]
    BY DEF Init
<1>2. KernelTask \in Blocks /\ NULL \in Blocks /\ ZeroWord \in Word /\ Junk \in Word
    BY <1>0 DEF KernelTask, NULL, Word
<1>3. /\ At(KernelTask, StackWords + 1) \in StackPointer
      /\ \A b \in Blocks : At(b, 0) \in StackPointer
    BY <1>0, <1>2, Pointers
<1>4. Types
    <2>1. regs \in [RegisterFile -> Word]
        BY <1>1, <1>2
    <2>2. tcb \in [Blocks -> TcbType]
        <3>1. [id |-> 0, esp |-> At(NULL, 0), entry |-> FALSE, next |-> KernelTask] \in TcbType
            BY <1>0, <1>2, <1>3 DEF TcbType
        <3> QED BY <1>1, <3>1
    <2>3. saved \in [Blocks -> [esp : StackPointer, regs : [RegisterFile -> Word]]]
        BY <1>1, <1>3, <2>1
    <2>4. mem \in MemType
        BY <1>1, <1>2 DEF MemType
    <2>5. eip \in Code /\ esp \in StackPointer /\ IF_ \in BOOLEAN
        BY <1>1, <1>3, Codes
    <2>6. running_task \in Blocks /\ created \in 0 .. N
        BY <1>0, <1>1, <1>2
    <2> QED BY <2>1, <2>2, <2>3, <2>4, <2>5, <2>6 DEF Types
<1>5. Linked = {KernelTask} /\ Made = {KernelTask}
    <2>1. created = 0 /\ eip \notin Creating
        BY <1>1, Codes
    <2> QED BY <2>1 DEF Linked, Made, KernelTask
<1>6. Ring
    BY <1>1, <1>2, <1>5, Codes DEF Ring
<1>7. Depth
    BY <1>1, Codes DEF Depth
<1>8. Asleep
    BY <1>1, <1>5 DEF Asleep, Busy
<1> QED BY <1>4, <1>6, <1>7, <1>8 DEF IInv

LEMMA StepInvariant == IInv /\ [Next]_vars => IInv'
<1> SUFFICES ASSUME IInv, [Next]_vars PROVE IInv'
    OBVIOUS
<1>1. CASE CreateThread BY <1>1, CreateThreadKeeps
<1>2. CASE LinkNew BY <1>2, LinkNewKeeps
<1>3. CASE LinkHead BY <1>3, LinkHeadKeeps
<1>4. CASE CallSwitch BY <1>4, CallSwitchKeeps
<1>5. CASE Bootstrap BY <1>5, BootstrapKeeps
<1>6. CASE EntryReturns BY <1>6, EntryReturnsKeeps
<1>7. CASE SwitchReturns BY <1>7, SwitchReturnsKeeps
<1>8. CASE MaskInterrupts BY <1>8, MaskInterruptsKeeps
<1>9. CASE AdvanceRunning BY <1>9, AdvanceRunningKeeps
<1>10. CASE SaveContext BY <1>10, SaveContextKeeps
<1>11. CASE LoadContext BY <1>11, LoadContextKeeps
<1>12. CASE ContextReturn BY <1>12, ContextReturnKeeps
<1>13. CASE Switched BY <1>13, SwitchedKeeps
<1>14. CASE Compute BY <1>14, ComputeKeeps
<1>15. CASE Interrupt BY <1>15, InterruptKeeps
<1>16. CASE UNCHANGED vars
    <2>1. UNCHANGED <<eip, esp, regs, IF_, mem, tcb, running_task, created, old_task, saved>>
        BY <1>16 DEF vars, cpu, ghosts
    <2>2. Types'
        BY <2>1 DEF IInv, Types, StackPointer, MemType, TcbType
    <2>3. Linked' = Linked /\ new' = new
        BY <2>1 DEF Linked, new
    <2>4. Ring'
        BY <2>1, <2>3 DEF IInv, Ring
    <2>5. Depth'
        BY <2>1 DEF IInv, Depth
    <2>6. Asleep'
        BY <2>1, NothingStirs DEF IInv, Busy
    <2> QED BY <2>2, <2>4, <2>5, <2>6 DEF IInv
<1> QED
    BY <1>1, <1>2, <1>3, <1>4, <1>5, <1>6, <1>7, <1>8, <1>9, <1>10, <1>11, <1>12,
       <1>13, <1>14, <1>15, <1>16 DEF Next, CpuStep

\* The invariant holds in every reachable state: of init_multitasking, of
\* create_thread, of switch_task and context_switch, and of interrupts between
\* any two of their instructions that are not masked.
THEOREM Invariance == Spec => []IInv
<1>1. Init => IInv
    BY InitInvariant
<1>2. IInv /\ [Next]_vars => IInv'
    BY StepInvariant
<1> QED BY <1>1, <1>2, PTL DEF Spec

\* No push of a switch and no interrupt writes below the bottom of the stack it
\* lands on (task.cpp:58), and the CPU never jumps to a word that is not an
\* address of code, for every size of stack that holds one frame and one interrupt.
THEOREM StacksHaveRoom == Spec => []StackHasRoom
<1>1. IInv => StackHasRoom
    <2> SUFFICES ASSUME IInv PROVE StackHasRoom
        OBVIOUS
    <2>0. /\ StackWords \in Nat /\ Registers \in Nat /\ IsrWords \in Nat
          /\ StackWords >= Registers + 2 /\ StackWords >= IsrWords + 1
        BY Sizes
    <2>1. TypeOK
        BY DEF IInv, Types, TypeOK, MemType, TcbType
    <2>2. IF_ => esp.at > IsrWords
        <3> SUFFICES ASSUME IF_ PROVE esp.at > IsrWords
            OBVIOUS
        <3>1. esp = At(running_task, StackWords + 1) \/ esp = At(running_task, StackWords)
            BY DEF IInv, Depth
        <3> QED BY <2>0, <3>1 DEF At
    <2>3. esp.at >= 1
        <3>1. eip \in Code
            BY DEF IInv, Types
        <3>2. \E b : esp \in {At(b, StackWords + 1), At(b, StackWords), At(b, StackWords - 1),
                              At(b, StackWords - 1 - Registers)}
            BY <3>1, Codes DEF IInv, Depth
        <3>3. PICK b : esp \in {At(b, StackWords + 1), At(b, StackWords), At(b, StackWords - 1),
                                At(b, StackWords - 1 - Registers)}
            BY <3>2
        <3> QED BY <2>0, <3>3 DEF At
    <2> QED BY <2>1, <2>2, <2>3 DEF StackHasRoom
<1> QED BY <1>1, Invariance, PTL

\* Every thread wakes up with the registers and the stack pointer with which it
\* called switch_task, a new one with those that create_thread fabricated
\* (task.cpp:68-78), and until then nothing touches what it has parked.
THEOREM ThreadsKeepContext == Spec => []ContextIntact
<1>1. IInv => ContextIntact
    <2> SUFFICES ASSUME IInv PROVE ContextIntact
        OBVIOUS
    <2>1. AwakeIntact
        BY DEF IInv, Depth, AwakeIntact
    <2>2. ParkedIntact
        <3> SUFFICES ASSUME NEW b \in Linked \ (IF eip \in {"save", "load"}
                                               THEN {old_task, running_task}
                                               ELSE {running_task})
                     PROVE  /\ Popa(tcb[b].esp) = saved[b].regs
                            /\ Top(Raise(tcb[b].esp, Registers)) \in {"switched", "bootstrap"}
            BY DEF ParkedIntact
        <3>1. b \in Made /\ b \in Blocks /\ b # NULL
            BY RingFacts DEF IInv
        <3>2. b # Busy
            BY <3>1 DEF Busy
        <3>3. Parked(b)
            BY <3>1, <3>2 DEF IInv, Asleep
        <3>4. Types
            BY DEF IInv
        <3> QED BY <3>1, <3>3, <3>4, ParkedFrame
    <2> QED BY <2>1, <2>2 DEF ContextIntact
<1> QED BY <1>1, Invariance, PTL

\* Types, for the CPU, the stacks and the control blocks.
THEOREM TypeCorrect == Spec => []TypeOK
<1>1. IInv => TypeOK
    BY DEF IInv, Types, TypeOK, MemType, TcbType
<1> QED BY <1>1, Invariance, PTL

-----------------------------------------------------------------------------
(* The order of the ring.  The head points at the thread linked last, and  *)
(* every other block at the one linked before it: so the ring is a cycle,  *)
(* and how long a thread has waited is known from where the CPU is.        *)

RingOrder ==
    /\ \A b \in Linked : tcb[b].next = IF b = KernelTask THEN Last ELSE b - 1
    /\ eip = "link head" => tcb[new].next = Last

\* The thread whose turn it is, or is ending, and the turns since that of b.
Cursor == IF eip \in {"save", "load"} THEN old_task ELSE running_task
TurnsSince(b) == IF b >= Cursor THEN b - Cursor ELSE b - Cursor + Last

Turns ==
    /\ waited \in [Blocks -> Nat]
    /\ eip \in {"save", "load"} => running_task = tcb[old_task].next
    /\ eip \in Creating => waited[new] = 0
    /\ \A b \in Linked : waited[b] <= TurnsSince(b)

Orderly == RingOrder /\ Turns

LEMMA OrderFacts ==
    ASSUME IInv
    PROVE  /\ created \in Int /\ Last \in Int /\ Last >= 1 /\ Last <= created + 1 /\ created <= N
           /\ Linked = 1 .. Last /\ Linked \subseteq Blocks /\ KernelTask \in Linked
           /\ Blocks = 0 .. N + 1 /\ N \in Nat
           /\ running_task \in Linked
           /\ eip \in {"save", "load"} => old_task \in Linked /\ old_task # running_task
           /\ Cursor \in Linked
<1>1. /\ Linked = 1 .. Last /\ Linked \subseteq Made /\ Made \subseteq Blocks
      /\ KernelTask \in Linked /\ created \in 0 .. N
    BY RingFacts DEF IInv
<1>2. N \in Nat /\ Blocks = 0 .. N + 1
    BY Sizes
<1>3. eip \in Creating => created >= 1
    BY DEF IInv, Ring
<1>4. created \in Int /\ Last \in Int /\ Last >= 1 /\ Last <= created + 1 /\ created <= N
    BY <1>1, <1>2, <1>3 DEF Last
<1>5. running_task \in Linked
      /\ (eip \in {"save", "load"} => old_task \in Linked /\ old_task # running_task)
    BY DEF IInv, Ring
<1>6. Cursor \in Linked
    BY <1>5 DEF Cursor
<1> HIDE DEF Last, Linked, Made, Blocks
<1> QED BY <1>1, <1>2, <1>4, <1>5, <1>6

\* A step that links no thread and ends no turn.
LEMMA QuietKeepsOrder ==
    ASSUME IInv, Orderly, UNCHANGED <<created, waited>>,
           \A b \in Blocks : tcb'[b].next = tcb[b].next,
           eip \in Creating => eip' = eip, eip' \in Creating => eip' = eip,
           Cursor' = Cursor,
           eip' \in {"save", "load"} => running_task' = tcb'[old_task'].next
    PROVE  Orderly'
<1>1. Last' = Last /\ Linked' = Linked /\ new' = new /\ Linked \subseteq Blocks
    BY OrderFacts DEF Last, Linked, new
<1>2. eip \in Creating => new \in Blocks
    <2> SUFFICES ASSUME eip \in Creating PROVE new \in Blocks
        OBVIOUS
    <2>1. created \in Int /\ 0 <= created /\ created <= N /\ Blocks = 0 .. N + 1 /\ N \in Nat
        BY OrderFacts DEF IInv, Types
    <2> QED BY <2>1 DEF new, TcbOf
<1>3. RingOrder'
    <2>1. eip' = "link head" => eip = "link head"
        BY DEF Creating
    <2> QED BY <1>1, <1>2, <2>1 DEF Orderly, RingOrder, Creating
<1>4. \A b \in Linked : TurnsSince(b)' = TurnsSince(b)
    BY <1>1 DEF TurnsSince
<1>5. Turns'
    BY <1>1, <1>4 DEF Orderly, Turns, Creating
<1> QED BY <1>3, <1>5 DEF Orderly

\* Where the two returns of switch_task, and that of context_switch, lead.
LEMMA ReturnsLead ==
    ASSUME IInv
    PROVE  /\ SwitchReturns \/ Switched => eip' \in Callers
           /\ ContextReturn => eip' \in {"switched", "bootstrap"}
<1>0. StackWords \in Nat /\ StackWords >= 2 /\ running_task \in Blocks
    BY Sizes DEF IInv, Types
<1>1. ASSUME SwitchReturns \/ Switched PROVE eip' \in Callers
    <2>1. eip \in {"guard", "switched"} /\ eip' = Top(esp)
        BY <1>1 DEF SwitchReturns, Switched
    <2>2. esp = At(running_task, StackWords) /\ mem[running_task][StackWords] \in Callers
        BY <2>1 DEF IInv, Depth
    <2> QED BY <1>0, <2>1, <2>2, Pointers
<1>2. ASSUME ContextReturn PROVE eip' \in {"switched", "bootstrap"}
    <2>1. eip = "return" /\ eip' = Top(esp)
        BY <1>2 DEF ContextReturn
    <2>2. \/ esp = At(running_task, StackWords) /\ mem[running_task][StackWords] = "bootstrap"
          \/ /\ esp = At(running_task, StackWords - 1)
             /\ mem[running_task][StackWords - 1] = "switched"
        BY <2>1 DEF IInv, Depth
    <2>3. /\ StackWords \in 0 .. StackWords + 1 /\ StackWords \in 1 .. StackWords
          /\ StackWords - 1 \in 0 .. StackWords + 1 /\ StackWords - 1 \in 1 .. StackWords
        BY <1>0
    <2>4. Top(At(running_task, StackWords)) = mem[running_task][StackWords]
          /\ Top(At(running_task, StackWords - 1)) = mem[running_task][StackWords - 1]
        BY <1>0, <2>3, Pointers
    <2> QED BY <2>1, <2>2, <2>4
<1> QED BY <1>1, <1>2

\* A write of one link.
LEMMA LinkIsSet ==
    ASSUME tcb \in [Blocks -> TcbType], NEW b \in Blocks, NEW v,
           tcb' = [tcb EXCEPT ![b].next = v]
    PROVE  tcb'[b].next = v /\ \A s \in Blocks \ {b} : tcb'[s] = tcb[s]
<1>1. tcb'[b] = [tcb[b] EXCEPT !.next = v] /\ tcb[b] \in TcbType
    OBVIOUS
<1>2. tcb'[b].next = v
    BY <1>1 DEF TcbType
<1> QED BY <1>2

LEMMA StepKeepsOrder == IInv /\ Orderly /\ [Next]_vars => Orderly'
<1> SUFFICES ASSUME IInv, Orderly, [Next]_vars PROVE Orderly'
    OBVIOUS
<1>a. /\ created \in Int /\ Last \in Int /\ Last >= 1 /\ Last <= created + 1 /\ created <= N
      /\ Linked = 1 .. Last /\ Linked \subseteq Blocks /\ KernelTask \in Linked
      /\ Blocks = 0 .. N + 1 /\ N \in Nat /\ running_task \in Linked /\ Cursor \in Linked
      /\ created >= 0 /\ tcb \in [Blocks -> TcbType]
    BY OrderFacts DEF IInv, Types
<1>b. RingOrder /\ Turns
    BY DEF Orderly
<1>1. CASE CallSwitch \/ Bootstrap \/ EntryReturns \/ MaskInterrupts \/ SwitchReturns \/ Switched
           \/ ContextReturn
    <2>1. /\ UNCHANGED <<created, waited, tcb, running_task, old_task>>
          /\ eip \in Callers \cup {"bootstrap", "guard", "return", "switched"}
        BY <1>1 DEF CallSwitch, Bootstrap, EntryReturns, MaskInterrupts, SwitchReturns, Switched,
                    ContextReturn, ghosts, Callers
    <2>2. eip' \in Callers \cup {"guard", "mask", "switched", "bootstrap"}
        BY <1>1, ReturnsLead DEF CallSwitch, Bootstrap, EntryReturns, MaskInterrupts, Callers
    <2>3. Cursor' = Cursor
        BY <2>1, <2>2, Codes DEF Cursor
    <2> QED BY <2>1, <2>2, <2>3, Codes, QuietKeepsOrder
<1>2. CASE Compute \/ Interrupt \/ UNCHANGED vars
    <2>1. UNCHANGED <<eip, created, waited, tcb, running_task, old_task>>
        BY <1>2 DEF Compute, Interrupt, vars, cpu, ghosts
    <2>2. Cursor' = Cursor
        BY <2>1 DEF Cursor
    <2>3. eip \in {"save", "load"} => running_task = tcb[old_task].next
        BY <1>b DEF Turns
    <2> QED BY <2>1, <2>2, <2>3, QuietKeepsOrder
<1>3. CASE AdvanceRunning
    <2>1. /\ eip = "mask" /\ eip' = "save" /\ UNCHANGED <<created, waited, tcb>>
          /\ old_task' = running_task /\ running_task' = tcb[running_task].next
        BY <1>3 DEF AdvanceRunning
    <2>2. Cursor' = Cursor
        BY <2>1 DEF Cursor
    <2> QED BY <2>1, <2>2, Codes, QuietKeepsOrder
<1>4. CASE SaveContext
    <2>1. /\ eip = "save" /\ eip' = "load" /\ UNCHANGED <<created, waited, running_task, old_task>>
          /\ tcb' = [tcb EXCEPT ![old_task].esp = esp']
        BY <1>4 DEF SaveContext, ghosts
    <2>2. Cursor' = Cursor
        BY <2>1 DEF Cursor
    <2>3. \A b \in Blocks : tcb'[b].next = tcb[b].next
        BY <1>a, <2>1 DEF TcbType
    <2>4. old_task \in Blocks /\ running_task = tcb[old_task].next
        BY <1>a, <1>b, <2>1, OrderFacts DEF Turns
    <2> QED BY <2>1, <2>2, <2>3, <2>4, Codes, QuietKeepsOrder
<1>5. CASE LoadContext
    <2>1. /\ eip = "load" /\ eip' = "return" /\ UNCHANGED <<created, tcb, running_task, old_task>>
          /\ waited' = [b \in Blocks |->
                          IF b = running_task \/ b \notin {TcbOf(k) : k \in 1 .. created}
                                                           \cup {KernelTask}
                          THEN 0 ELSE waited[b] + 1]
        BY <1>5 DEF LoadContext
    <2>2. Last' = Last /\ Linked' = Linked /\ new' = new
        BY <2>1, Codes DEF Last, Linked, new
    <2>3. RingOrder'
        BY <1>b, <2>1, <2>2 DEF RingOrder
    <2>4. waited' \in [Blocks -> Nat] /\ (\A b \in Blocks : waited'[b] <= waited[b] + 1)
          /\ waited'[running_task] = 0
        BY <1>a, <1>b, <2>1 DEF Turns
    <2>5. old_task \in Linked /\ running_task = IF old_task = 1 THEN Last ELSE old_task - 1
        BY <1>b, <2>1, OrderFacts DEF Turns, RingOrder, KernelTask
    <2>6. ASSUME NEW b \in Linked PROVE waited'[b] <= TurnsSince(b)'
        <3>1. b \in Blocks /\ b \in 1 .. Last /\ old_task \in 1 .. Last
            BY <1>a, <2>5
        <3>2. waited[b] \in Nat /\ waited'[b] \in Nat /\ waited'[b] <= waited[b] + 1
            BY <1>b, <2>4, <3>1 DEF Turns
        <3>3. waited[b] <= IF b >= old_task THEN b - old_task ELSE b - old_task + Last
            BY <1>b, <2>1 DEF Turns, TurnsSince, Cursor
        <3>4. TurnsSince(b)' = IF b >= running_task THEN b - running_task
                               ELSE b - running_task + Last
            BY <2>1, <2>2 DEF TurnsSince, Cursor
        <3>5. CASE b = running_task
            BY <1>a, <2>4, <3>1, <3>4, <3>5
        <3>6. CASE b # running_task /\ old_task = 1
            BY <1>a, <2>5, <3>1, <3>2, <3>3, <3>4, <3>6
        <3>7. CASE b # running_task /\ old_task # 1
            BY <1>a, <2>5, <3>1, <3>2, <3>3, <3>4, <3>7
        <3> QED BY <3>5, <3>6, <3>7
    <2>7. Turns'
        BY <2>1, <2>2, <2>4, <2>6, Codes DEF Turns
    <2> QED BY <2>3, <2>7 DEF Orderly
<1>6. CASE CreateThread
    <2> DEFINE made == TcbOf(created')
    <2>1. /\ eip = "boot" /\ eip' = "link new" /\ created' = created + 1 /\ created < N
          /\ UNCHANGED <<running_task, old_task>>
          /\ tcb' = [tcb EXCEPT ![made] = [@ EXCEPT !.id = created', !.entry = TRUE,
                                                    !.esp = FabricatedEsp(StackOf(created'))]]
          /\ waited' = [waited EXCEPT ![made] = 0]
        BY <1>6 DEF CreateThread
    <2>2. created' = created + 1 /\ created < N
        BY <2>1
    <2>3. eip \notin Creating /\ eip' \in Creating /\ eip' # "link head"
        BY <2>1, Codes
    <2>4. Last = created + 1 /\ Last' = created'
        BY <2>3 DEF Last
    <2>5. new' = made /\ made = created + 2
        BY <1>a, <2>2 DEF new, TcbOf
    <2> HIDE DEF made
    <2>6. Last' = Last /\ made \in Blocks /\ made \notin Linked
        BY <1>a, <2>2, <2>4, <2>5
    <2>7. Linked' = Linked
        <3>1. created' - 1 = created
            BY <1>a, <2>2
        <3> QED BY <2>3, <3>1 DEF Linked
    <2>8. \A b \in Linked : tcb'[b] = tcb[b]
        BY <1>a, <2>1, <2>6
    <2>9. RingOrder'
        BY <1>b, <2>3, <2>6, <2>7, <2>8 DEF RingOrder
    <2>10. waited' \in [Blocks -> Nat] /\ waited'[made] = 0
           /\ \A b \in Linked : waited'[b] = waited[b]
        BY <1>a, <1>b, <2>1, <2>6 DEF Turns
    <2>11. \A b \in Linked : TurnsSince(b)' = TurnsSince(b)
        BY <2>1, <2>6 DEF TurnsSince, Cursor
    <2>12. eip' \notin {"save", "load"}
        BY <2>1
    <2>13. Turns'
        BY <1>b, <2>5, <2>7, <2>10, <2>11, <2>12 DEF Turns
    <2> QED BY <2>9, <2>13 DEF Orderly
<1>7. CASE LinkNew
    <2>1. /\ eip = "link new" /\ eip' = "link head"
          /\ UNCHANGED <<created, running_task, old_task, waited>>
          /\ tcb' = [tcb EXCEPT ![new].next = tcb[KernelTask].next]
        BY <1>7 DEF LinkNew, ghosts
    <2>2. eip \in Creating /\ eip' \in Creating /\ eip' \notin {"save", "load"}
        BY <2>1, Codes
    <2>3. Last' = Last /\ Last = created /\ new' = new /\ Linked' = Linked
        BY <2>1, <2>2 DEF Last, new, Linked
    <2>4. new = created + 1
        BY DEF new, TcbOf
    <2>5. new \in Blocks /\ new \notin Linked
        BY <1>a, <2>3, <2>4
    <2>6. tcb'[new].next = tcb[KernelTask].next /\ \A b \in Linked : tcb'[b] = tcb[b]
        <3>1. tcb \in [Blocks -> TcbType] /\ Linked \subseteq Blocks
            BY <1>a
        <3> HIDE DEF new
        <3>2. /\ tcb'[new].next = tcb[KernelTask].next
              /\ \A s \in Blocks \ {new} : tcb'[s] = tcb[s]
            BY <2>1, <2>5, <3>1, LinkIsSet
        <3> QED BY <2>5, <3>1, <3>2
    <2>7. tcb[KernelTask].next = Last
        BY <1>a, <1>b DEF RingOrder
    <2>8. RingOrder'
        BY <1>b, <2>3, <2>6, <2>7 DEF RingOrder
    <2>9. \A b \in Linked : TurnsSince(b)' = TurnsSince(b)
        BY <2>1, <2>3 DEF TurnsSince, Cursor
    <2>10. Turns'
        BY <1>b, <2>1, <2>2, <2>3, <2>9 DEF Turns
    <2> QED BY <2>8, <2>10 DEF Orderly
<1>8. CASE LinkHead
    <2>1. /\ eip = "link head" /\ eip' = "boot"
          /\ UNCHANGED <<created, running_task, old_task, waited>>
          /\ tcb' = [tcb EXCEPT ![KernelTask].next = new]
        BY <1>8 DEF LinkHead, ghosts
    <2>2. eip \in Creating /\ eip' \notin Creating
        BY <2>1, Codes
    <2>3. Last' = created + 1 /\ Last = created /\ new = created + 1
        BY <2>1, <2>2 DEF Last, new, TcbOf
    <2>4. Linked' = 1 .. created + 1
        <3>1. Linked' = {KernelTask} \cup {TcbOf(k) : k \in 1 .. created}
            BY <2>1, <2>2 DEF Linked
        <3>2. created \in Nat
            BY <1>a
        <3>3. {TcbOf(k) : k \in 1 .. created} = 2 .. created + 1
            <4>1. \A x \in 2 .. created + 1 : x - 1 \in 1 .. created /\ x = TcbOf(x - 1)
                BY <3>2 DEF TcbOf
            <4>2. \A k \in 1 .. created : TcbOf(k) \in 2 .. created + 1
                BY <3>2 DEF TcbOf
            <4> QED BY <4>1, <4>2
        <3>4. {1} \cup (2 .. created + 1) = 1 .. created + 1
            BY <3>2
        <3> QED BY <3>1, <3>3, <3>4 DEF KernelTask
    <2>5. tcb'[KernelTask].next = new /\ \A b \in Blocks \ {KernelTask} : tcb'[b] = tcb[b]
        <3>1. tcb \in [Blocks -> TcbType] /\ KernelTask \in Blocks
            BY <1>a
        <3> HIDE DEF new, KernelTask
        <3> QED BY <2>1, <3>1, LinkIsSet
    <2>6. \A b \in Linked : tcb[b].next = IF b = KernelTask THEN Last ELSE b - 1
        BY <1>b DEF RingOrder
    <2>7. tcb[new].next = Last
        BY <1>b, <2>1 DEF RingOrder
    <2>8. ASSUME NEW b \in 1 .. created + 1
          PROVE  tcb'[b].next = IF b = KernelTask THEN Last' ELSE b - 1
        <3>0. b \in Blocks /\ (b = new \/ b \in Linked)
            BY <1>a, <2>3
        <3>1. CASE b = KernelTask
            BY <2>3, <2>5, <3>1
        <3>2. CASE b # KernelTask /\ b = new
            BY <1>a, <2>3, <2>5, <2>7, <3>0, <3>2
        <3>3. CASE b # KernelTask /\ b # new
            BY <2>5, <2>6, <3>0, <3>3
        <3> QED BY <3>1, <3>2, <3>3
    <2>9. RingOrder'
        BY <2>1, <2>4, <2>8 DEF RingOrder
    <2>10. eip \notin {"save", "load"} /\ eip' \notin {"save", "load"}
           /\ running_task' = running_task /\ waited' = waited
        BY <2>1
    <2>11. ASSUME NEW b \in 1 .. created + 1 PROVE waited'[b] <= TurnsSince(b)'
        <3>1. TurnsSince(b)' = IF b >= running_task THEN b - running_task
                               ELSE b - running_task + Last'
            BY <2>10 DEF TurnsSince, Cursor
        <3>2. running_task \in 1 .. Last /\ b \in Blocks /\ waited[b] \in Nat
            BY <1>a, <1>b, <2>3 DEF Turns
        <3>3. CASE b = new
            <4>1. waited'[b] = 0
                BY <1>b, <2>2, <2>10, <3>3 DEF Turns
            <4> QED BY <1>a, <2>3, <3>1, <3>2, <3>3, <4>1
        <3>4. CASE b # new
            <4>1. b \in Linked
                BY <1>a, <2>3, <3>4
            <4>2. waited[b] <= IF b >= running_task THEN b - running_task
                               ELSE b - running_task + Last
                BY <1>b, <2>10, <4>1 DEF Turns, TurnsSince, Cursor
            <4> QED BY <1>a, <2>3, <2>10, <3>1, <3>2, <4>2
        <3> QED BY <3>3, <3>4
    <2>12. Turns'
        BY <1>b, <2>2, <2>4, <2>10, <2>11 DEF Turns
    <2> QED BY <2>9, <2>12 DEF Orderly
<1> QED
    BY <1>1, <1>2, <1>3, <1>4, <1>5, <1>6, <1>7, <1>8 DEF Next, CpuStep

\* The invariant of the ring and of the turns, in every reachable state.
LEMMA OrderInvariance == Spec => [](IInv /\ Orderly)
<1>1. Init => Orderly
    <2> SUFFICES ASSUME Init PROVE Orderly
        OBVIOUS
    <2>1. eip = "boot" /\ running_task = KernelTask /\ created = 0
          /\ tcb = [b \in Blocks |-> [id |-> 0, esp |-> At(NULL, 0), entry |-> FALSE,
                                      next |-> KernelTask]]
          /\ waited = [b \in Blocks |-> 0]
        BY DEF Init
    <2>2. eip \notin Creating /\ eip \notin {"save", "load", "link head"}
        BY <2>1, Codes
    <2>3. Last = 1 /\ Linked = {1} /\ KernelTask = 1 /\ 1 \in Blocks
        <3>1. N \in Nat /\ Blocks = 0 .. N + 1
            BY Sizes
        <3> QED BY <2>1, <2>2, <3>1 DEF Last, Linked, KernelTask
    <2>4. RingOrder
        BY <2>1, <2>2, <2>3 DEF RingOrder
    <2>5. TurnsSince(1) = 0
        BY <2>1, <2>2, <2>3 DEF TurnsSince, Cursor
    <2>6. Turns
        BY <2>1, <2>2, <2>3, <2>5 DEF Turns
    <2> QED BY <2>4, <2>6 DEF Orderly
<1> QED BY <1>1, InitInvariant, StepInvariant, StepKeepsOrder, PTL DEF Spec

\* Round robin, for every number of threads: a thread never waits for more than one
\* turn of every other one, also when create_thread links new ones in meanwhile.
THEOREM WaitingIsBounded == Spec => []BoundedWaiting
<1>1. IInv /\ Orderly => BoundedWaiting
    <2> SUFFICES ASSUME IInv, Orderly, NEW b \in Linked
                 PROVE  waited[b] <= Cardinality(Linked) - 1
        BY DEF BoundedWaiting
    <2>1. Last \in Int /\ Last >= 1 /\ Linked = 1 .. Last /\ Cursor \in Linked /\ b \in Blocks
        BY OrderFacts
    <2>2. Cardinality(Linked) = Last
        BY <2>1, FS_Interval
    <2>3. waited[b] \in Nat /\ waited[b] <= TurnsSince(b)
        BY <2>1 DEF Orderly, Turns
    <2>4. TurnsSince(b) <= Last - 1
        BY <2>1 DEF TurnsSince
    <2>5. TurnsSince(b) \in Int
        BY <2>1 DEF TurnsSince
    <2> QED BY <2>1, <2>2, <2>3, <2>4, <2>5
<1> QED BY <1>1, OrderInvariance, PTL

\* The walk of get_thread_count is defined by the links: by recursion along the ring.
LEMMA WalkFollowsLinks ==
    ASSUME IInv
    PROVE  Walk = [k \in 0 .. N + 2 |-> IF k = 0 THEN KernelTask ELSE tcb[Walk[k - 1]].next]
<1> DEFINE step == [k \in 1 .. N + 2 |-> [b \in Blocks |-> tcb[b].next]]
<1>1. N + 2 \in Nat /\ KernelTask \in Blocks
    BY Sizes DEF KernelTask
<1>2. step \in [1 .. N + 2 -> [Blocks -> Blocks]]
    BY DEF IInv, Types, TcbType
<1>3. PICK w \in [0 .. N + 2 -> Blocks] :
          w[0] = KernelTask /\ \A k \in 1 .. N + 2 : w[k] = step[k][w[k - 1]]
    <2> HIDE DEF step
    <2>1. \E w : Computes(w, N + 2, Blocks, KernelTask, step)
        BY <1>1, <1>2, RecursionExists
    <2> QED BY <2>1 DEF Computes
<1>4. w = [k \in 0 .. N + 2 |-> IF k = 0 THEN KernelTask ELSE tcb[w[k - 1]].next]
    <2>1. ASSUME NEW k \in 1 .. N + 2 PROVE w[k] = tcb[w[k - 1]].next
        <3>1. k - 1 \in 0 .. N + 2
            BY <1>1
        <3> QED BY <1>3, <3>1
    <2>2. ASSUME NEW k \in 0 .. N + 2
          PROVE  w[k] = IF k = 0 THEN KernelTask ELSE tcb[w[k - 1]].next
        <3>1. CASE k = 0
            BY <1>3, <3>1
        <3>2. CASE k # 0
            <4>1. k \in 1 .. N + 2
                BY <1>1, <3>2
            <4> QED BY <2>1, <3>2, <4>1
        <3> QED BY <3>1, <3>2
    <2> QED BY <2>2
<1>5. \E u : u = [k \in 0 .. N + 2 |-> IF k = 0 THEN KernelTask ELSE tcb[u[k - 1]].next]
    BY <1>4
<1> HIDE DEF step
<1> QED BY <1>5 DEF Walk

\* Along one lap it visits the head, then the threads from the last linked downwards.
LEMMA OneLap ==
    ASSUME IInv, Orderly
    PROVE  /\ Walk[0] = KernelTask
           /\ \A k \in 1 .. Last : Walk[k] = Last + 1 - k
<1>1. /\ Last \in Int /\ Last >= 1 /\ Last <= N + 1 /\ N \in Nat /\ Linked = 1 .. Last
      /\ KernelTask = 1
    BY OrderFacts DEF KernelTask
<1>2. Walk[0] = KernelTask /\ \A k \in 1 .. N + 2 : Walk[k] = tcb[Walk[k - 1]].next
    <2> DEFINE W == Walk
    <2>1. W = [k \in 0 .. N + 2 |-> IF k = 0 THEN KernelTask ELSE tcb[W[k - 1]].next]
        BY WalkFollowsLinks
    <2> HIDE DEF W
    <2>2. W[0] = KernelTask /\ \A k \in 1 .. N + 2 : W[k] = tcb[W[k - 1]].next
        BY <1>1, <2>1
    <2> QED BY <2>2 DEF W
<1>3. \A b \in Linked : tcb[b].next = IF b = 1 THEN Last ELSE b - 1
    BY <1>1 DEF Orderly, RingOrder
<1> DEFINE T == {k \in 0 .. Last : k = 0 \/ Walk[k] = Last + 1 - k}
<1>4. 0 \in T
    BY <1>1
<1>5. ASSUME NEW k \in 0 .. Last - 1, k \in T PROVE k + 1 \in T
    <2>1. k + 1 \in 1 .. N + 2 /\ k \in Int /\ (k + 1) - 1 = k /\ 0 <= k /\ k + 1 <= Last
        BY <1>1
    <2>2. Walk[k + 1] = tcb[Walk[k]].next
        BY <1>2, <2>1
    <2>3. CASE k = 0
        <3>1. Walk[k] = 1 /\ 1 \in Linked
            BY <1>1, <1>2, <2>3
        <3> QED BY <1>1, <1>3, <2>1, <2>2, <2>3, <3>1
    <2>4. CASE k # 0
        <3>1. Walk[k] = Last + 1 - k
            BY <1>5, <2>4
        <3>2. Last + 1 - k \in Linked /\ Last + 1 - k # 1
            BY <1>1, <2>1, <2>4
        <3>3. Walk[k + 1] = (Last + 1 - k) - 1
            BY <1>3, <2>2, <3>1, <3>2
        <3> QED BY <1>1, <2>1, <3>3
    <2> QED BY <2>3, <2>4
<1> HIDE DEF T
<1>6. 0 .. Last \subseteq T
    BY <1>1, <1>4, <1>5, UpTo
<1> QED BY <1>1, <1>2, <1>6 DEF T

\* Whatever interrupt counts the threads while create_thread links a new one in
\* (task.cpp:90-91), the walk ends, and has met every linked thread exactly once.
THEOREM RingStaysComplete == Spec => []RingComplete
<1>1. IInv /\ Orderly => RingComplete
    <2> SUFFICES ASSUME IInv, Orderly PROVE RingComplete
        OBVIOUS
    <2>1. /\ Last \in Int /\ Last >= 1 /\ Last <= N + 1 /\ N \in Nat /\ Linked = 1 .. Last
          /\ KernelTask = 1
        BY OrderFacts DEF KernelTask
    <2>2. Walk[0] = 1 /\ \A k \in 1 .. Last : Walk[k] = Last + 1 - k
        BY <2>1, OneLap
    <2>3. Last \in Laps /\ \A k \in Laps : Last <= k
        BY <2>1, <2>2 DEF Laps
    <2>4. Laps \subseteq Int
        BY <2>1 DEF Laps
    <2>5. ThreadCount = Last
        <3>1. \A k \in Laps : (\A j \in Laps : k <= j) => k = Last
            BY <2>1, <2>3, <2>4
        <3>2. \E k \in Laps : \A j \in Laps : k <= j
            BY <2>3
        <3>3. Laps # {}
            BY <2>3
        <3> HIDE DEF Laps
        <3> QED BY <3>1, <3>2, <3>3 DEF ThreadCount
    <2>6. Cardinality(Linked) = Last
        BY <2>1, FS_Interval
    <2>7. {Walk[k] : k \in 0 .. Last} = 1 .. Last
        <3>1. ASSUME NEW k \in 0 .. Last PROVE Walk[k] \in 1 .. Last
            <4>1. CASE k = 0
                BY <2>1, <2>2, <4>1
            <4>2. CASE k \in 1 .. Last
                BY <2>1, <2>2, <4>2
            <4> QED BY <2>1, <4>1, <4>2
        <3>2. ASSUME NEW b \in 1 .. Last PROVE \E k \in 0 .. Last : Walk[k] = b
            <4>1. Last + 1 - b \in 1 .. Last /\ Last + 1 - b \in 0 .. Last
                  /\ Last + 1 - (Last + 1 - b) = b
                BY <2>1
            <4>2. Walk[Last + 1 - b] = b
                BY <2>2, <4>1
            <4> QED BY <4>1, <4>2
        <3> QED BY <3>1, <3>2
    <2> QED BY <2>1, <2>5, <2>6, <2>7 DEF RingComplete
<1> QED BY <1>1, OrderInvariance, PTL
=============================================================================
