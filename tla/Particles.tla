----------------------------- MODULE Particles -----------------------------
(***************************************************************************)
(* The particle ring of src/particle.cpp.  What a particle looks like and  *)
(* where it flies is left out: one that is not at the end of its life is   *)
(* moved and drawn in every frame.                                         *)
(***************************************************************************)
EXTENDS Integers, Sequences

CONSTANTS MAX_PARTICLES,  \* 128
          Lifespans       \* lifespans a caller passes

ASSUME ParticlesAssumption ==
    MAX_PARTICLES \in Nat \ {0} /\ Lifespans \subseteq Int

ParticleSlots == 0 .. MAX_PARTICLES - 1

VARIABLES particle_pool,      \* slot |-> [active, lifetime_ticks]
          next_particle_slot

particles == <<particle_pool, next_particle_slot>>

\* init_particle_system.
ParticlesInit ==
    /\ particle_pool = [s \in ParticleSlots |-> [active |-> FALSE, lifetime_ticks |-> 0]]
    /\ next_particle_slot = 0

Advanced_Stuck(s) == IF s + 1 = MAX_PARTICLES THEN s ELSE s + 1
Advanced(s) == (s + 1) % MAX_PARTICLES

spawn_particle(lifespan) ==
    /\ particle_pool' = [particle_pool EXCEPT ![next_particle_slot] =
                           [active |-> TRUE, lifetime_ticks |-> lifespan]]
    /\ next_particle_slot' = Advanced(next_particle_slot)

Aged(p) ==
    IF ~p.active THEN p
    ELSE [active |-> p.lifetime_ticks - 1 > 0, lifetime_ticks |-> p.lifetime_ticks - 1]

update_and_render_particles ==
    /\ particle_pool' = [s \in ParticleSlots |-> Aged(particle_pool[s])]
    /\ UNCHANGED next_particle_slot

-----------------------------------------------------------------------------
\* The frames in which a particle is still to be drawn; the ring read from its
\* next slot, which is the oldest.
FramesLeft(p) == IF p.active /\ p.lifetime_ticks > 1 THEN p.lifetime_ticks - 1 ELSE 0
FromOldest(k) ==
    LET s == next_particle_slot + k - 1 IN
      IF s < MAX_PARTICLES THEN s ELSE s - MAX_PARTICLES
Drawable == [k \in 1 .. MAX_PARTICLES |-> FramesLeft(particle_pool[FromOldest(k)])]

TheTrail == INSTANCE Trail WITH Length <- MAX_PARTICLES, trail <- Drawable

\* The ring "Overwrites the oldest slot" (particle.cpp:24), and a particle that is
\* not overwritten is drawn in all the frames of its life but the last.
RefinesTrail == TheTrail!Spec
=============================================================================
