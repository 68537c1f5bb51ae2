------------------------- MODULE DistributionProofs -------------------------
(***************************************************************************)
(* Theorems about Distribution, for every vocabulary, context length, ring *)
(* size, set of tokens, words and lifespans: the type invariant, what a    *)
(* forward pass counts, and the two refinements.                           *)
(***************************************************************************)
EXTENDS Distribution, SequenceTheorems, IntervalInduction, TLAPS

-----------------------------------------------------------------------------
(* The forward pass counts.                                                *)

\* The layer after n slots of the loop of evaluate_tensor_forward, of which
\* Accumulated is the last.
Pass(after) ==
    [n \in 0 .. FONTANA_CONTEXT_LEN |->
        IF n = 0 THEN Baseline
        ELSE IF context_history[n - 1] \in Ids
             THEN [after[n - 1] EXCEPT ![context_history[n - 1]] = @ + 1]
             ELSE after[n - 1]]

\* The slots before n that hold token i.
Seen(n, i) == {s \in 0 .. n - 1 : context_history[s] = i}

LEMMA SeenOneMore ==
    ASSUME NEW n \in Nat, NEW i
    PROVE  /\ IsFiniteSet(Seen(n, i)) /\ Cardinality(Seen(n, i)) \in Nat
           /\ Cardinality(Seen(0, i)) = 0
           /\ Cardinality(Seen(n + 1, i)) =
                 IF context_history[n] = i THEN Cardinality(Seen(n, i)) + 1
                                           ELSE Cardinality(Seen(n, i))
<1>1. IsFiniteSet(Seen(n, i)) /\ Cardinality(Seen(n, i)) \in Nat
    <2>1. 0 \in Int /\ n - 1 \in Int
        OBVIOUS
    <2>2. IsFiniteSet(0 .. n - 1)
        BY <2>1, FS_Interval
    <2> QED BY <2>2, FS_Subset, FS_CardinalityType DEF Seen
<1>2. Cardinality(Seen(0, i)) = 0
    <2>1. Seen(0, i) = {}
        BY DEF Seen
    <2> QED BY <2>1, FS_EmptySet
<1>3. n \notin Seen(n, i)
    BY DEF Seen
<1>4. CASE context_history[n] = i
    <2>1. Seen(n + 1, i) = Seen(n, i) \cup {n}
        BY <1>4 DEF Seen
    <2> QED BY <1>1, <1>2, <1>3, <1>4, <2>1, FS_AddElement
<1>5. CASE context_history[n] # i
    <2>1. Seen(n + 1, i) = Seen(n, i)
        BY <1>5 DEF Seen
    <2> QED BY <1>1, <1>2, <1>5, <2>1
<1> QED BY <1>4, <1>5

\* The recursion has a solution, which is what Accumulated takes its result from.
LEMMA PassExists == \E after : after = Pass(after)
<1> DEFINE S == [Ids -> Nat]
           step == [n \in 1 .. FONTANA_CONTEXT_LEN |->
                       [o \in S |-> IF context_history[n - 1] \in Ids
                                    THEN [o EXCEPT ![context_history[n - 1]] = @ + 1]
                                    ELSE o]]
<1>1. FONTANA_CONTEXT_LEN \in Nat /\ FONTANA_VOCAB_SIZE \in Nat
    BY CognitionAssumption DEF CognitionAssumption
<1>2. Baseline \in S
    BY DEF Baseline
<1>3. step \in [1 .. FONTANA_CONTEXT_LEN -> [S -> S]]
    OBVIOUS
<1>4. \E w : Computes(w, FONTANA_CONTEXT_LEN, S, Baseline, step)
    <2> HIDE DEF S, step
    <2> QED BY <1>1, <1>2, <1>3, RecursionExists
<1>5. PICK w : Computes(w, FONTANA_CONTEXT_LEN, S, Baseline, step)
    BY <1>4
<1>6. /\ w \in [0 .. FONTANA_CONTEXT_LEN -> S] /\ w[0] = Baseline
      /\ \A n \in 1 .. FONTANA_CONTEXT_LEN : w[n] = step[n][w[n - 1]]
    <2> HIDE DEF S, step
    <2> QED BY <1>5 DEF Computes
<1>7. ASSUME NEW n \in 0 .. FONTANA_CONTEXT_LEN PROVE w[n] = Pass(w)[n]
    <2>1. CASE n = 0
        BY <1>6, <2>1 DEF Pass
    <2>2. CASE n # 0
        <3>1. n \in 1 .. FONTANA_CONTEXT_LEN /\ n - 1 \in 0 .. FONTANA_CONTEXT_LEN
            BY <1>1, <2>2
        <3>2. w[n] = step[n][w[n - 1]] /\ w[n - 1] \in S
            BY <1>6, <3>1
        <3> QED BY <2>2, <3>1, <3>2 DEF Pass
    <2> QED BY <2>1, <2>2
<1>8. w = Pass(w)
    <2>1. DOMAIN w = 0 .. FONTANA_CONTEXT_LEN /\ w = [n \in 0 .. FONTANA_CONTEXT_LEN |-> w[n]]
        BY <1>6
    <2>2. Pass(w) = [n \in 0 .. FONTANA_CONTEXT_LEN |-> Pass(w)[n]]
        BY DEF Pass
    <2> HIDE DEF S, step
    <2> QED BY <1>7, <2>1, <2>2
<1> QED BY <1>8

LEMMA AccumulatedCounts ==
    /\ Accumulated \in [Ids -> Nat]
    /\ \A i \in Ids : Accumulated[i] = Cardinality(Occurrences(i))
<1> DEFINE after == CHOOSE a : a = Pass(a)
<1>1. after = Pass(after)
    BY PassExists
<1>2. Accumulated = after[FONTANA_CONTEXT_LEN]
    BY DEF Accumulated, Pass
<1> HIDE DEF after
<1>3. FONTANA_CONTEXT_LEN \in Nat
    BY CognitionAssumption DEF CognitionAssumption
<1> DEFINE T == {n \in 0 .. FONTANA_CONTEXT_LEN :
                    /\ after[n] \in [Ids -> Nat]
                    /\ \A k \in Ids : after[n][k] = Cardinality(Seen(n, k))}
<1>4. 0 \in T
    <2>1. after[0] = [k \in Ids |-> 0]
        BY <1>1, <1>3 DEF Pass, Baseline
    <2> QED BY <1>3, <2>1, SeenOneMore
<1>5. ASSUME NEW n \in 0 .. FONTANA_CONTEXT_LEN - 1, n \in T PROVE n + 1 \in T
    <2>1. n \in Nat /\ n + 1 \in 0 .. FONTANA_CONTEXT_LEN /\ n + 1 # 0 /\ (n + 1) - 1 = n
        BY <1>3
    <2>2. after[n] \in [Ids -> Nat] /\ \A k \in Ids : after[n][k] = Cardinality(Seen(n, k))
        BY <1>5
    <2>3. after[n + 1] = IF context_history[n] \in Ids
                         THEN [after[n] EXCEPT ![context_history[n]] = @ + 1] ELSE after[n]
        BY <1>1, <2>1 DEF Pass
    <2>4. after[n + 1] \in [Ids -> Nat]
        BY <2>2, <2>3
    <2>5. ASSUME NEW k \in Ids PROVE after[n + 1][k] = Cardinality(Seen(n + 1, k))
        <3>1. after[n + 1][k] = IF context_history[n] = k THEN after[n][k] + 1 ELSE after[n][k]
            BY <2>2, <2>3
        <3> QED BY <2>1, <2>2, <3>1, SeenOneMore
    <2> QED BY <2>1, <2>4, <2>5
<1> HIDE DEF T
<1>6. 0 .. FONTANA_CONTEXT_LEN \subseteq T
    BY <1>3, <1>4, <1>5, UpTo
<1>7. FONTANA_CONTEXT_LEN \in T
    BY <1>3, <1>6
<1>8. \A i \in Ids : Seen(FONTANA_CONTEXT_LEN, i) = Occurrences(i)
    BY DEF Seen, Occurrences, Slots
<1> QED BY <1>2, <1>7, <1>8 DEF T

-----------------------------------------------------------------------------
(* Words and types.                                                        *)

\* What a word is tokenized to is an entry of the vocabulary.
LEMMA TokenIsId == \A word : tokenize_string_slice(word) \in Ids
<1> SUFFICES ASSUME NEW word PROVE tokenize_string_slice(word) \in Ids
    OBVIOUS
<1> DEFINE matches == {i \in Ids : token_string[i] = word}
<1>1. FONTANA_VOCAB_SIZE \in Nat /\ FONTANA_VOCAB_SIZE >= 1
    BY CognitionAssumption DEF CognitionAssumption
<1>2. 0 \in Ids /\ OutOfVocabulary \in Ids
    BY <1>1 DEF Ids, OutOfVocabulary
<1>3. ASSUME matches # {} PROVE \E i \in matches : \A m \in matches : i <= m
    <2>1. matches \subseteq Nat
        BY <1>1 DEF Ids
    <2> HIDE DEF matches
    <2> QED BY <1>3, <2>1, Smallest
<1> QED BY <1>2, <1>3 DEF tokenize_string_slice

\* The part of DistributionTypeOK that a push disturbs.
ContextType ==
    context_history \in [Slots -> Nat] /\ current_index \in 0 .. FONTANA_CONTEXT_LEN

LEMMA PushKeepsType ==
    ASSUME ContextType, NEW t \in Nat, push_token_to_context(t)
    PROVE  ContextType'
<1>1. FONTANA_CONTEXT_LEN \in Nat /\ FONTANA_CONTEXT_LEN >= 1
    BY CognitionAssumption DEF CognitionAssumption
<1>2. CASE current_index < FONTANA_CONTEXT_LEN
    BY <1>1, <1>2 DEF ContextType, push_token_to_context, Slots
<1>3. CASE ~(current_index < FONTANA_CONTEXT_LEN)
    <2>1. Shifted(t) \in [Slots -> Nat]
        BY <1>1 DEF Shifted, ContextType, Slots
    <2> QED BY <1>3, <2>1 DEF ContextType, push_token_to_context
<1> QED BY <1>2, <1>3

\* The part of DistributionTypeOK about the ring.
RingType ==
    /\ particle_pool \in [ParticleSlots -> [active : BOOLEAN, lifetime_ticks : Int]]
    /\ next_particle_slot \in ParticleSlots

LEMMA SpawnKeepsType ==
    ASSUME RingType, NEW l \in Lifespans, spawn_particle(l)
    PROVE  RingType'
<1>1. MAX_PARTICLES \in Nat /\ MAX_PARTICLES >= 1 /\ l \in Int
    BY ParticlesAssumption DEF ParticlesAssumption
<1>2. Advanced(next_particle_slot) \in ParticleSlots
    BY <1>1 DEF Advanced, RingType, ParticleSlots
<1> QED BY <1>1, <1>2 DEF RingType, spawn_particle

LEMMA FrameKeepsType ==
    ASSUME RingType, update_and_render_particles
    PROVE  RingType'
BY DEF RingType, update_and_render_particles, Aged

\* The thread that is noted exists, whatever the order of creation.
NoteType ==
    /\ active_state \subseteq Threads
    /\ current_running_thread_id \in active_state \cup {0}

LEMMA SwitchKeepsType ==
    ASSUME NoteType, switch_task
    PROVE  NoteType'
BY DEF NoteType, switch_task

\* What an entry of the vocabulary keeps of a word.
LEMMA LearnKeepsType ==
    ASSUME token_string \in [Ids -> {Kept[word] : word \in Words} \cup {Empty}],
           NEW id \in Ids, NEW word \in Words, add_vocab_mapping(id, word)
    PROVE  token_string' \in [Ids -> {Kept[w] : w \in Words} \cup {Empty}]
BY DEF add_vocab_mapping

\* Every variable keeps its type: the layer counts, the vocabulary holds what is kept of
\* words, and the noted thread exists.
THEOREM TypeCorrect == DistributionSpec => []DistributionTypeOK
<1> USE DEF DistributionTypeOK, ContextType, RingType, NoteType
<1>1. DistributionInit => DistributionTypeOK
    BY CognitionAssumption, ParticlesAssumption
    DEF CognitionAssumption, ParticlesAssumption, DistributionInit, CognitionInit,
        ParticlesInit, Slots, ParticleSlots, Threads
<1>2. DistributionTypeOK /\ [DistributionNext]_distribution_vars => DistributionTypeOK'
    <2> SUFFICES ASSUME DistributionTypeOK, [DistributionNext]_distribution_vars
                 PROVE  DistributionTypeOK'
        OBVIOUS
    <2> USE DEF cognition, particles, threads
    <2>1. CASE DisplayFrame
        BY <2>1, FrameKeepsType, SwitchKeepsType DEF DisplayFrame, switch_task
    <2>2. CASE CognitivePass
        <3>1. output_layer' \in [Ids -> Nat]
            BY <2>2, AccumulatedCounts DEF CognitivePass, evaluate_tensor_forward
        <3> QED BY <2>2, <3>1, SwitchKeepsType
                DEF CognitivePass, evaluate_tensor_forward, switch_task
    <2>3. ASSUME NEW id \in Threads, create_isolated_thread(id) PROVE DistributionTypeOK'
        BY <2>3 DEF create_isolated_thread
    <2>4. ASSUME NEW l \in Lifespans, Spawn(l) PROVE DistributionTypeOK'
        BY <2>4, SpawnKeepsType DEF Spawn
    <2>5. ASSUME NEW t \in Tokens, PushToken(t) PROVE DistributionTypeOK'
        <3>1. t \in Nat
            BY CognitionAssumption DEF CognitionAssumption
        <3> QED BY <2>5, <3>1, PushKeepsType DEF PushToken, push_token_to_context
    <2>6. ASSUME NEW word \in Words, ReadWord(word) PROVE DistributionTypeOK'
        <3>1. tokenize_string_slice(word) \in Nat
            BY TokenIsId, CognitionAssumption DEF CognitionAssumption, Ids
        <3> QED BY <2>6, <3>1, PushKeepsType DEF ReadWord, Read, push_token_to_context
    <2>7. ASSUME NEW id \in Ids, NEW word \in Words, Learn(id, word)
          PROVE  DistributionTypeOK'
        BY <2>7, LearnKeepsType DEF Learn, add_vocab_mapping
    <2>8. CASE UNCHANGED distribution_vars
        BY <2>8 DEF distribution_vars
    <2> QED BY <2>1, <2>2, <2>3, <2>4, <2>5, <2>6, <2>7, <2>8 DEF DistributionNext
<1> QED BY <1>1, <1>2, PTL DEF DistributionSpec

-----------------------------------------------------------------------------
(* Sequences that are one append, or one shift and append, further.        *)

LEMMA FunctionIsSeq ==
    ASSUME NEW S, NEW n \in Nat, NEW f \in [1 .. n -> S]
    PROVE  f \in Seq(S) /\ Len(f) = n
BY SeqDef

LEMMA IsAppend ==
    ASSUME NEW S, NEW s \in Seq(S), NEW e \in S, NEW t \in Seq(S),
           Len(t) = Len(s) + 1,
           \A k \in 1 .. Len(s) : t[k] = s[k],
           t[Len(s) + 1] = e
    PROVE  t = Append(s, e)
<1>1. /\ Append(s, e) \in Seq(S)
      /\ Len(Append(s, e)) = Len(s) + 1
      /\ \A k \in 1 .. Len(s) : Append(s, e)[k] = s[k]
      /\ Append(s, e)[Len(s) + 1] = e
    BY AppendProperties
<1>2. Len(s) \in Nat
    BY LenProperties
<1>3. \A k \in 1 .. Len(t) : t[k] = Append(s, e)[k]
    <2> TAKE k \in 1 .. Len(t)
    <2>1. k \in 1 .. Len(s) \/ k = Len(s) + 1
        BY <1>2
    <2> QED BY <1>1, <2>1
<1> QED BY <1>1, <1>3, SeqEqual

LEMMA IsShift ==
    ASSUME NEW S, NEW s \in Seq(S), s # << >>, NEW e \in S, NEW t \in Seq(S),
           Len(t) = Len(s),
           \A k \in 1 .. Len(s) - 1 : t[k] = s[k + 1],
           t[Len(s)] = e
    PROVE  t = Append(Tail(s), e)
<1>1. /\ Tail(s) \in Seq(S)
      /\ Len(Tail(s)) = Len(s) - 1
      /\ \A k \in 1 .. Len(Tail(s)) : Tail(s)[k] = s[k + 1]
    BY HeadTailProperties
<1>2. Len(s) \in Nat /\ Len(s) - 1 \in Nat
    BY LenProperties, EmptySeq
<1> QED BY <1>1, <1>2, IsAppend

-----------------------------------------------------------------------------
(* The context is a window on the tokens.                                  *)

RememberedIsSeq ==
    /\ Remembered \in Seq(Nat) /\ Len(Remembered) = current_index
    /\ current_index \in Nat /\ current_index <= FONTANA_CONTEXT_LEN
    /\ FONTANA_CONTEXT_LEN \in Nat \ {0}
    /\ \A k \in 1 .. current_index : Remembered[k] = context_history[k - 1]

LEMMA RememberedType == ContextType => RememberedIsSeq
<1> SUFFICES ASSUME ContextType PROVE RememberedIsSeq
    OBVIOUS
<1>1. current_index \in Nat /\ FONTANA_CONTEXT_LEN \in Nat \ {0}
    BY CognitionAssumption DEF CognitionAssumption, ContextType
<1>2. Remembered \in [1 .. current_index -> Nat]
    BY <1>1 DEF Remembered, ContextType, Slots
<1> QED BY <1>1, <1>2, FunctionIsSeq DEF Remembered, RememberedIsSeq, ContextType

\* A push appends, and forgets the oldest token only when the context is full.
LEMMA PushIsAppend ==
    ASSUME ContextType, NEW t \in Nat, push_token_to_context(t)
    PROVE  TheWindow!Push(t)
<1> DEFINE m == current_index
<1>1. ContextType'
    BY PushKeepsType
<1>2. RememberedIsSeq /\ RememberedIsSeq'
    BY <1>1, RememberedType, PTL
<1>3. /\ Remembered \in Seq(Nat) /\ Len(Remembered) = m
      /\ m \in Nat /\ FONTANA_CONTEXT_LEN \in Nat \ {0} /\ m <= FONTANA_CONTEXT_LEN
      /\ \A k \in 1 .. m : Remembered[k] = context_history[k - 1]
      /\ Remembered' \in Seq(Nat) /\ Len(Remembered') = m'
      /\ \A k \in 1 .. m' : Remembered'[k] = context_history'[k - 1]
    BY <1>2 DEF RememberedIsSeq
<1>4. CASE m < FONTANA_CONTEXT_LEN
    <2>1. /\ context_history' = [context_history EXCEPT ![m] = t]
          /\ m' = m + 1
        BY <1>4 DEF push_token_to_context
    <2>2. \A k \in 1 .. m : Remembered'[k] = Remembered[k]
        BY <1>3, <1>4, <2>1 DEF ContextType, Slots
    <2>3. Remembered'[m + 1] = t
        BY <1>3, <1>4, <2>1 DEF ContextType, Slots
    <2>4. Remembered' = Append(Remembered, t)
        BY <1>3, <2>1, <2>2, <2>3, IsAppend
    <2> QED BY <1>3, <1>4, <2>4 DEF TheWindow!Push
<1>5. CASE ~(m < FONTANA_CONTEXT_LEN)
    <2>1. context_history' = Shifted(t) /\ m' = m /\ m = FONTANA_CONTEXT_LEN
        BY <1>3, <1>5 DEF push_token_to_context
    <2>2. ASSUME NEW k \in 1 .. m - 1
          PROVE  Remembered'[k] = Remembered[k + 1]
        <3>1. k - 1 \in Slots /\ k - 1 # FONTANA_CONTEXT_LEN - 1 /\ k + 1 \in 1 .. m
            BY <1>3, <2>1 DEF Slots
        <3>2. Shifted(t)[k - 1] = context_history[k]
            BY <3>1 DEF Shifted
        <3>3. Remembered'[k] = context_history'[k - 1]
            BY <1>3, <2>1
        <3>4. Remembered[k + 1] = context_history[(k + 1) - 1] /\ (k + 1) - 1 = k
            BY <1>3, <3>1
        <3> QED BY <2>1, <3>2, <3>3, <3>4
    <2>3. Remembered'[m] = t
        BY <1>3, <2>1 DEF Shifted, Slots
    <2>4. Remembered # << >>
        <3>1. Len(Remembered) # 0
            BY <1>3, <2>1
        <3> QED BY <3>1
    <2>5. Remembered' = Append(Tail(Remembered), t)
        <3>1. Len(Remembered) = m /\ Len(Remembered') = m
            BY <1>3, <2>1
        <3>2. \A k \in 1 .. Len(Remembered) - 1 : Remembered'[k] = Remembered[k + 1]
            BY <2>2, <3>1
        <3> HIDE DEF m
        <3> QED BY <1>3, <2>3, <2>4, <3>1, <3>2, IsShift
    <2> QED BY <1>3, <1>5, <2>5 DEF TheWindow!Push
<1> QED BY <1>4, <1>5

\* The context always holds the latest tokens, in the order of their pushes.
THEOREM ImplementsWindow == DistributionSpec => RefinesWindow
<1> DEFINE Step == \E t \in Tokens \cup Ids : TheWindow!Push(t)
<1>1. DistributionInit => TheWindow!Init
    <2> SUFFICES ASSUME DistributionInit PROVE Remembered = << >>
        BY DEF TheWindow!Init
    <2>1. current_index = 0
        BY DEF DistributionInit, CognitionInit
    <2> QED BY <2>1 DEF Remembered
<1>2. DistributionTypeOK /\ [DistributionNext]_distribution_vars => [Step]_Remembered
    <2> SUFFICES ASSUME DistributionTypeOK, [DistributionNext]_distribution_vars
                 PROVE  [Step]_Remembered
        OBVIOUS
    <2>1. ContextType
        BY DEF DistributionTypeOK, ContextType
    <2>2. ASSUME UNCHANGED <<context_history, current_index>>
          PROVE  UNCHANGED Remembered
        BY <2>2 DEF Remembered
    <2>3. CASE DisplayFrame
        BY <2>2, <2>3 DEF DisplayFrame, cognition
    <2>4. CASE CognitivePass
        BY <2>2, <2>4 DEF CognitivePass, evaluate_tensor_forward
    <2>5. ASSUME NEW id \in Threads, create_isolated_thread(id) PROVE UNCHANGED Remembered
        BY <2>2, <2>5 DEF create_isolated_thread, cognition
    <2>6. ASSUME NEW l \in Lifespans, Spawn(l) PROVE UNCHANGED Remembered
        BY <2>2, <2>6 DEF Spawn, cognition
    <2>7. ASSUME NEW t \in Tokens, PushToken(t) PROVE Step
        <3>1. t \in Nat
            BY CognitionAssumption DEF CognitionAssumption
        <3> QED BY <2>1, <2>7, <3>1, PushIsAppend DEF PushToken
    <2>8. ASSUME NEW word \in Words, ReadWord(word) PROVE Step
        <3> DEFINE t == tokenize_string_slice(word)
        <3>1. t \in Ids /\ t \in Nat
            BY TokenIsId, CognitionAssumption DEF CognitionAssumption, Ids
        <3>2. push_token_to_context(t)
            BY <2>8 DEF ReadWord, Read
        <3> HIDE DEF t
        <3> QED BY <2>1, <3>1, <3>2, PushIsAppend
    <2>9. ASSUME NEW id \in Ids, NEW word \in Words, Learn(id, word)
          PROVE  UNCHANGED Remembered
        BY <2>2, <2>9 DEF Learn, add_vocab_mapping
    <2>10. CASE UNCHANGED distribution_vars
        BY <2>2, <2>10 DEF distribution_vars, cognition
    <2> QED
        BY <2>3, <2>4, <2>5, <2>6, <2>7, <2>8, <2>9, <2>10 DEF DistributionNext
<1> QED BY <1>1, <1>2, TypeCorrect, PTL DEF DistributionSpec, RefinesWindow, TheWindow!Spec
-----------------------------------------------------------------------------
(* The ring is a trail of particles.                                       *)

SlotFrom(first, k) ==
    LET s == first + k - 1 IN IF s < MAX_PARTICLES THEN s ELSE s - MAX_PARTICLES

\* Read from a slot, the ring visits every slot once; read from the next one, it
\* visits them in the same order and ends with the one it began with.
LEMMA RingOrder ==
    ASSUME NEW s \in ParticleSlots
    PROVE  /\ MAX_PARTICLES \in Nat \ {0} /\ Advanced(s) \in ParticleSlots
           /\ \A k \in 1 .. MAX_PARTICLES : SlotFrom(s, k) \in ParticleSlots
           /\ \A k \in 1 .. MAX_PARTICLES - 1 :
                 SlotFrom(Advanced(s), k) = SlotFrom(s, k + 1) /\ SlotFrom(s, k + 1) # s
           /\ SlotFrom(Advanced(s), MAX_PARTICLES) = s
<1>1. MAX_PARTICLES \in Nat \ {0} /\ s \in Nat /\ s < MAX_PARTICLES
    BY ParticlesAssumption DEF ParticlesAssumption, ParticleSlots
<1>2. Advanced(s) = IF s + 1 = MAX_PARTICLES THEN 0 ELSE s + 1
    BY <1>1 DEF Advanced
<1> QED BY <1>1, <1>2 DEF SlotFrom, ParticleSlots

DrawableIsSeq ==
    /\ Drawable \in Seq(Int) /\ Len(Drawable) = MAX_PARTICLES
    /\ \A k \in 1 .. MAX_PARTICLES :
         Drawable[k] = FramesLeft(particle_pool[SlotFrom(next_particle_slot, k)])

LEMMA DrawableType == RingType => DrawableIsSeq
<1> SUFFICES ASSUME RingType PROVE DrawableIsSeq
    OBVIOUS
<1>1. \A k \in 1 .. MAX_PARTICLES : FromOldest(k) = SlotFrom(next_particle_slot, k)
    BY DEF FromOldest, SlotFrom
<1>2. MAX_PARTICLES \in Nat
      /\ \A k \in 1 .. MAX_PARTICLES : SlotFrom(next_particle_slot, k) \in ParticleSlots
    BY RingOrder DEF RingType
<1>3. \A s \in ParticleSlots : FramesLeft(particle_pool[s]) \in Int
    BY DEF FramesLeft, RingType
<1>4. Drawable \in [1 .. MAX_PARTICLES -> Int]
    BY <1>1, <1>2, <1>3 DEF Drawable
<1> QED BY <1>1, <1>2, <1>4, FunctionIsSeq DEF Drawable, DrawableIsSeq

\* A spawned particle takes the place of the oldest one.
LEMMA SpawnIsShift ==
    ASSUME RingType, NEW l \in Lifespans, spawn_particle(l)
    PROVE  TheTrail!Spawn(l)
<1> DEFINE n == next_particle_slot
           e == TheTrail!Frames(l)
<1>1. RingType'
    BY SpawnKeepsType
<1>2. DrawableIsSeq /\ DrawableIsSeq'
    BY <1>1, DrawableType, PTL
<1>3. /\ MAX_PARTICLES \in Nat \ {0} /\ n \in ParticleSlots /\ n' = Advanced(n)
      /\ \A k \in 1 .. MAX_PARTICLES : SlotFrom(n, k) \in ParticleSlots
      /\ \A k \in 1 .. MAX_PARTICLES - 1 :
            SlotFrom(n', k) = SlotFrom(n, k + 1) /\ SlotFrom(n, k + 1) # n
      /\ SlotFrom(n', MAX_PARTICLES) = n
    BY RingOrder DEF RingType, spawn_particle
<1>4. l \in Int
    BY ParticlesAssumption DEF ParticlesAssumption
<1>5. /\ particle_pool'[n] = [active |-> TRUE, lifetime_ticks |-> l]
      /\ \A s \in ParticleSlots : s # n => particle_pool'[s] = particle_pool[s]
    BY <1>3 DEF spawn_particle, RingType
<1>6. e = FramesLeft(particle_pool'[n]) /\ e \in Int
    BY <1>4, <1>5 DEF TheTrail!Frames, FramesLeft
<1>7. Drawable'[MAX_PARTICLES] = e
    BY <1>2, <1>3, <1>6 DEF DrawableIsSeq
<1>8. ASSUME NEW k \in 1 .. MAX_PARTICLES - 1
      PROVE  Drawable'[k] = Drawable[k + 1]
    <2>1. k \in 1 .. MAX_PARTICLES /\ k + 1 \in 1 .. MAX_PARTICLES
        BY <1>3
    <2>2. Drawable'[k] = FramesLeft(particle_pool'[SlotFrom(n', k)])
        BY <1>2, <2>1 DEF DrawableIsSeq
    <2>3. Drawable[k + 1] = FramesLeft(particle_pool[SlotFrom(n, k + 1)])
        BY <1>2, <2>1 DEF DrawableIsSeq
    <2> QED BY <1>3, <1>5, <2>1, <2>2, <2>3
<1>9. Drawable # << >>
    BY <1>2, <1>3, EmptySeq DEF DrawableIsSeq
<1>10. /\ Drawable \in Seq(Int) /\ Drawable' \in Seq(Int)
       /\ Len(Drawable) = MAX_PARTICLES /\ Len(Drawable') = MAX_PARTICLES
    BY <1>2 DEF DrawableIsSeq
<1>11. Drawable' = Append(Tail(Drawable), e)
    <2> HIDE DEF e
    <2> QED BY <1>6, <1>7, <1>8, <1>9, <1>10, IsShift
<1> QED BY <1>11 DEF TheTrail!Spawn

\* A frame takes one frame from what is left of every particle.
LEMMA FrameIsDraw ==
    ASSUME RingType, update_and_render_particles
    PROVE  TheTrail!Draw
<1>1. /\ MAX_PARTICLES \in Nat \ {0}
      /\ \A k \in 1 .. MAX_PARTICLES : FromOldest(k) \in ParticleSlots
    BY RingOrder DEF RingType, FromOldest, SlotFrom
<1>2. \A k \in 1 .. MAX_PARTICLES : FromOldest(k)' = FromOldest(k)
    BY DEF FromOldest, update_and_render_particles
<1>3. ASSUME NEW p \in [active : BOOLEAN, lifetime_ticks : Int]
      PROVE  FramesLeft(Aged(p)) = TheTrail!Frames(FramesLeft(p))
    <2>1. CASE ~p.active
        BY <2>1 DEF FramesLeft, Aged, TheTrail!Frames
    <2>2. CASE p.active
        BY <2>2 DEF FramesLeft, Aged, TheTrail!Frames
    <2> QED BY <2>1, <2>2
<1>4. ASSUME NEW k \in 1 .. MAX_PARTICLES
      PROVE  FramesLeft(particle_pool'[FromOldest(k)']) = TheTrail!Frames(Drawable[k])
    <2>1. particle_pool'[FromOldest(k)'] = Aged(particle_pool[FromOldest(k)])
        BY <1>1, <1>2 DEF update_and_render_particles
    <2>2. particle_pool[FromOldest(k)] \in [active : BOOLEAN, lifetime_ticks : Int]
        BY <1>1 DEF RingType
    <2> QED BY <1>3, <2>1, <2>2 DEF Drawable
<1>5. Drawable' = [k \in 1 .. MAX_PARTICLES |-> FramesLeft(particle_pool'[FromOldest(k)'])]
    BY DEF Drawable
<1> QED BY <1>4, <1>5 DEF TheTrail!Draw

\* A particle that is not overwritten is drawn in all the frames of its life but the
\* last, and the one that is overwritten is the oldest.
THEOREM ImplementsTrail == DistributionSpec => RefinesTrail
<1> DEFINE Step == TheTrail!Draw \/ \E l \in Lifespans : TheTrail!Spawn(l)
<1>1. DistributionInit => TheTrail!Init
    <2> SUFFICES ASSUME DistributionInit PROVE Drawable = [k \in 1 .. MAX_PARTICLES |-> 0]
        BY DEF TheTrail!Init
    <2>1. RingType
        BY ParticlesAssumption
        DEF ParticlesAssumption, DistributionInit, ParticlesInit, RingType, ParticleSlots
    <2>2. \A k \in 1 .. MAX_PARTICLES : FromOldest(k) \in ParticleSlots
        BY <2>1, RingOrder DEF RingType, FromOldest, SlotFrom
    <2>3. \A s \in ParticleSlots : FramesLeft(particle_pool[s]) = 0
        BY DEF DistributionInit, ParticlesInit, FramesLeft
    <2> QED BY <2>2, <2>3 DEF Drawable
<1>2. DistributionTypeOK /\ [DistributionNext]_distribution_vars => [Step]_Drawable
    <2> SUFFICES ASSUME DistributionTypeOK, [DistributionNext]_distribution_vars
                 PROVE  [Step]_Drawable
        OBVIOUS
    <2>1. RingType
        BY DEF DistributionTypeOK, RingType
    <2>2. ASSUME UNCHANGED particles
          PROVE  UNCHANGED Drawable
        BY <2>2 DEF Drawable, FromOldest, particles
    <2>3. CASE DisplayFrame
        BY <2>1, <2>3, FrameIsDraw DEF DisplayFrame
    <2>4. CASE CognitivePass
        BY <2>2, <2>4 DEF CognitivePass
    <2>5. ASSUME NEW id \in Threads, create_isolated_thread(id) PROVE UNCHANGED Drawable
        BY <2>2, <2>5 DEF create_isolated_thread
    <2>6. ASSUME NEW l \in Lifespans, Spawn(l) PROVE Step
        BY <2>1, <2>6, SpawnIsShift DEF Spawn
    <2>7. ASSUME NEW t \in Tokens, PushToken(t) PROVE UNCHANGED Drawable
        BY <2>2, <2>7 DEF PushToken
    <2>8. ASSUME NEW word \in Words, ReadWord(word) PROVE UNCHANGED Drawable
        BY <2>2, <2>8 DEF ReadWord
    <2>9. ASSUME NEW id \in Ids, NEW word \in Words, Learn(id, word)
          PROVE  UNCHANGED Drawable
        BY <2>2, <2>9 DEF Learn
    <2>10. CASE UNCHANGED distribution_vars
        BY <2>2, <2>10 DEF distribution_vars
    <2> QED
        BY <2>3, <2>4, <2>5, <2>6, <2>7, <2>8, <2>9, <2>10 DEF DistributionNext
<1> QED BY <1>1, <1>2, TypeCorrect, PTL DEF DistributionSpec, RefinesTrail, TheTrail!Spec

-----------------------------------------------------------------------------
\* A forward pass is a function of the context (tensor.cpp:44), for every context and
\* vocabulary: it leaves for each token its number of occurrences, whatever earlier
\* passes left in the layer.
THEOREM PassesArePure == DistributionSpec => ForwardIsPure
<1> DEFINE Pure == CognitivePass => \A i \in Ids : output_layer'[i] = Cardinality(Occurrences(i))
<1>1. Pure
    BY AccumulatedCounts DEF CognitivePass, evaluate_tensor_forward
<1> QED BY <1>1, PTL DEF ForwardIsPure
=============================================================================
