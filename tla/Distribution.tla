---------------------------- MODULE Distribution ----------------------------
(***************************************************************************)
(* The threads of src/threads.cpp: the display server, which draws the     *)
(* particles, and the cognitive engine, which evaluates the context.  Both *)
(* end a turn with the switch_task of this file, which picks the next      *)
(* thread and only notes it: nothing in boot.s reads the note, so that the *)
(* loop that was entered goes on.  Which loop the CPU is in is fixed by    *)
(* whoever calls it; nothing shipped does.                                 *)
(***************************************************************************)
EXTENDS Cognition, Particles, FiniteSets

MAX_DISTRO_THREADS == 3
Threads == 0 .. MAX_DISTRO_THREADS - 1

VARIABLES active_state,               \* the threads that have been created
          current_running_thread_id,
          loop                        \* the loop the CPU is in

threads == <<active_state, current_running_thread_id, loop>>
distribution_vars == <<cognition, particles, threads>>

\* init_distro_threads.
DistributionInit ==
    /\ CognitionInit /\ ParticlesInit
    /\ active_state = {}
    /\ current_running_thread_id = 0
    /\ loop \in {"display", "cognition"}

\* An id out of range is ignored.
create_isolated_thread(id) ==
    /\ id \in Threads
    /\ active_state' = active_state \cup {id}
    /\ UNCHANGED <<cognition, particles, current_running_thread_id, loop>>

\* After the last thread comes thread 1: the supervisor is not switched to.
NextThread ==
    LET next_thread_id == (current_running_thread_id + 1) % MAX_DISTRO_THREADS
    IN  IF next_thread_id = 0 THEN 1 ELSE next_thread_id

switch_task ==
    /\ current_running_thread_id' =
         IF NextThread \in active_state THEN NextThread ELSE current_running_thread_id
    /\ UNCHANGED <<active_state, loop>>

\* One iteration of display_server_thread_loop.
DisplayFrame ==
    /\ loop = "display"
    /\ update_and_render_particles
    /\ switch_task
    /\ UNCHANGED cognition

\* One iteration of cognitive_engine_thread_loop.
CognitivePass ==
    /\ loop = "cognition"
    /\ evaluate_tensor_forward
    /\ switch_task
    /\ UNCHANGED particles

\* Calls that anything may make between two turns.
Spawn(lifespan) == spawn_particle(lifespan) /\ UNCHANGED <<cognition, threads>>
PushToken(t) == push_token_to_context(t) /\ UNCHANGED <<particles, threads>>
ReadWord(word) == Read(word) /\ UNCHANGED <<particles, threads>>
Learn(id, word) == add_vocab_mapping(id, word) /\ UNCHANGED <<particles, threads>>

DistributionNext ==
    \/ DisplayFrame \/ CognitivePass
    \/ \E id \in Threads : create_isolated_thread(id)
    \/ \E l \in Lifespans : Spawn(l)
    \/ \E t \in Tokens : PushToken(t)
    \/ \E word \in Words : ReadWord(word)
    \/ \E id \in Ids, word \in Words : Learn(id, word)

\* The loops are endless.
DistributionSpec ==
    /\ DistributionInit /\ [][DistributionNext]_distribution_vars
    /\ WF_distribution_vars(DisplayFrame) /\ WF_distribution_vars(CognitivePass)

-----------------------------------------------------------------------------
(* Properties.                                                             *)

\* Every variable holds a value of its type: an entry of the vocabulary is what 15
\* characters keep of some word, an output counts occurrences, and the note names a
\* thread that has been created, or none.
DistributionTypeOK ==
    /\ token_string \in [Ids -> {Kept[word] : word \in Words} \cup {Empty}]
    /\ context_history \in [Slots -> Nat] /\ current_index \in 0 .. FONTANA_CONTEXT_LEN
    /\ output_layer \in [Ids -> Nat]
    /\ particle_pool \in [ParticleSlots -> [active : BOOLEAN, lifetime_ticks : Int]]
    /\ next_particle_slot \in ParticleSlots
    /\ active_state \subseteq Threads
    /\ current_running_thread_id \in active_state \cup {0}
    /\ loop \in {"display", "cognition"}

Occurrences(i) == {s \in Slots : context_history[s] = i}

\* "A forward pass must be a pure function of its input context" (tensor.cpp:44):
\* repeated passes do not add up, and the output of a token is its number of
\* occurrences in the context.
ForwardIsPure ==
    [][CognitivePass => \A i \in Ids : output_layer'[i] = Cardinality(Occurrences(i))]_distribution_vars

\* What the repository says of switch_task: it "Cycles execution focus between Thread 1
\* (Graphics) and Thread 2 (Cognition) continuously" (threads.cpp:108), so that once
\* both threads exist the CPU is in the loop of each of them again and again.  It is
\* not: the loop that was entered never leaves it.
FocusAlternates ==
    \A l \in {"display", "cognition"} : ({1, 2} \subseteq active_state) ~> (loop = l)
=============================================================================
