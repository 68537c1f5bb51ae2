-------------------------------- MODULE Ata --------------------------------
(***************************************************************************)
(* The disk driver of kernel/ata.cpp, its callers src/persistence.cpp (a   *)
(* thread saves world_map to a sector and loads it back) and the shell's   *)
(* "disktest" (the keyboard handler writes a sector and reads it back),    *)
(* and the drive they talk to.                                             *)
(*                                                                         *)
(* The driver polls.  Every wait ends when the drive's status allows it,   *)
(* or when the loop has counted to its limit; the code goes on in the same *)
(* way in both cases.  ata_interrupt_fired is never set, because           *)
(* ata_irq_handler has no gate and the drive's interrupt is off.  All five *)
(* address ports are written in one step.                                  *)
(*                                                                         *)
(* The drive, which is outside the code, executes one command at a time    *)
(* and ignores commands and data it does not expect.  It keeps what was    *)
(* written in a cache; it moves cached sectors to the medium when it       *)
(* likes, and all of them when it is told to flush.  Power may fail.       *)
(***************************************************************************)
EXTENDS Integers, Sequences

CONSTANTS Worlds,      \* contents world_map may have, as a sector
          Secret,      \* the text "disktest" writes, as a sector
          Noise,       \* what the bus reads without a drive, and an unused sector
          Preempts     \* may the keyboard interrupt a thread inside the driver?

ASSUME AtaAssumption ==
    /\ {Secret, Noise} \cap Worlds = {} /\ Secret # Noise
    /\ Preempts \in BOOLEAN

WORLD_SAVE_LBA_SECTOR == 2
TestSector == 1
Sectors == {TestSector, WORLD_SAVE_LBA_SECTOR}
Data == Worlds \cup {Secret, Noise}
NoData == "no_data"

VARIABLES calls,         \* calls of the driver, the innermost last
          ata_io_buffer,
          address,       \* the sector in the address ports
          drive,         \* what the drive does, and the sector it does it to
          cache, medium, \* sector |-> data
          world_buffer,  \* world_map, as the contents of a sector
          late,          \* a wait has timed out since power came on
          saved          \* sector |-> what was last written to it

ram == <<ata_io_buffer, world_buffer>>
ata_vars == <<calls, ram, address, drive, cache, medium, late, saved>>

Idle == [does |-> "nothing", lba |-> TestSector]

AtaInit ==
    /\ calls = << >>
    /\ ata_io_buffer = Noise
    /\ address = TestSector
    /\ drive = Idle
    /\ medium \in [Sectors -> {Noise}] /\ cache = medium
    /\ world_buffer \in Worlds
    /\ late = FALSE
    /\ saved = [l \in Sectors |-> NoData]

-----------------------------------------------------------------------------
(* Calls.  A write starts with a copy of the caller's buffer.              *)

Write(job, lba, buffer) == [job |-> job, lba |-> lba, buffer |-> buffer, at |-> "snapshot"]
Read(job, lba) == [job |-> job, lba |-> lba, buffer |-> Noise, at |-> "address"]

IsRead(call) == call.job \in {"load", "test_read"}

\* A thread calls; it changes world_map while it does not.
dump_sandbox_to_disk ==
    /\ calls = << >>
    /\ calls' = <<Write("dump", WORLD_SAVE_LBA_SECTOR, world_buffer)>>
    /\ UNCHANGED <<ram, address, drive, cache, medium, late, saved>>

load_sandbox_from_disk ==
    /\ calls = << >>
    /\ calls' = <<Read("load", WORLD_SAVE_LBA_SECTOR)>>
    /\ UNCHANGED <<ram, address, drive, cache, medium, late, saved>>

ChangeWorld ==
    /\ calls = << >>
    /\ world_buffer' \in Worlds
    /\ UNCHANGED <<calls, ata_io_buffer, address, drive, cache, medium,
                   late, saved>>

\* The keyboard handler runs with interrupts masked: it is not interrupted.
Unmasked == calls = << >> \/ (Preempts /\ Len(calls) = 1 /\ calls[1].job \in {"dump", "load"})

disktest ==
    /\ Unmasked
    /\ calls' = Append(calls, Write("test_write", TestSector, Secret))
    /\ UNCHANGED <<ram, address, drive, cache, medium, late, saved>>

-----------------------------------------------------------------------------
(* The driver.  call is the innermost call.                                *)

call == calls[Len(calls)]
In(step) == calls # << >> /\ call.at = step
Goto(step) == calls' = [calls EXCEPT ![Len(calls)].at = step]
Outer == SubSeq(calls, 1, Len(calls) - 1)

Snapshot_Skipped ==
    /\ In("snapshot")
    /\ Goto("address")
    /\ UNCHANGED <<ram, address, drive, cache, medium, late, saved>>
Snapshot ==
    /\ In("snapshot")
    /\ ata_io_buffer' = call.buffer
    /\ Goto("address")
    /\ UNCHANGED <<world_buffer, address, drive, cache, medium, late, saved>>

Address_Stale ==
    /\ In("address")
    /\ Goto("command")
    /\ UNCHANGED <<ram, address, drive, cache, medium, late, saved>>
Address ==
    /\ In("address")
    /\ address' = call.lba
    /\ Goto("command")
    /\ UNCHANGED <<ram, drive, cache, medium, late, saved>>

\* A command the drive does not expect is ignored.
Accepted(does) == IF drive.does = "nothing" THEN [does |-> does, lba |-> address] ELSE drive

Command ==
    /\ In("command")
    /\ drive' = Accepted(IF IsRead(call) THEN "read" ELSE "write")
    /\ saved' = IF IsRead(call) THEN saved ELSE [saved EXCEPT ![call.lba] = NoData]
    /\ Goto("wait_data")
    /\ UNCHANGED <<ram, address, cache, medium, late>>

\* ata_wait_read: not busy, and data requested; ata_wait_write: not busy.
Ready(step) == IF step = "wait_data" THEN drive.does \in {"offer", "accept"}
                                     ELSE drive.does \in {"nothing", "offer", "accept"}
After == [s \in {"wait_data", "wait_done", "wait_flush"} |->
            CASE s = "wait_data"  -> "transfer"
              [] s = "wait_done"  -> "flush"
              [] s = "wait_flush" -> "return"]

WaitEnds ==
    /\ \E step \in DOMAIN After : In(step) /\ Ready(step) /\ Goto(After[step])
    /\ UNCHANGED <<ram, address, drive, cache, medium, late, saved>>

\* The last of 100000 looks at the status finds that the drive is not ready.
GivesUp_Never(step) == FALSE
GivesUp(step) == ~Ready(step)
WaitTimesOut ==
    /\ \E step \in DOMAIN After : In(step) /\ GivesUp(step) /\ Goto(After[step])
    /\ late' = TRUE
    /\ UNCHANGED <<ram, address, drive, cache, medium, saved>>

\* insw: 256 words from the data port, whether or not the drive offers them.
TransferIn ==
    /\ In("transfer") /\ IsRead(call)
    /\ ata_io_buffer' = IF drive.does = "offer" THEN cache[drive.lba] ELSE Noise
    /\ drive' = IF drive.does = "offer" THEN Idle ELSE drive
    /\ Goto("copy")
    /\ UNCHANGED <<world_buffer, address, cache, medium, late, saved>>

\* outsw.
TransferOut ==
    /\ In("transfer") /\ ~IsRead(call)
    /\ IF drive.does = "accept"
       THEN /\ drive' = [drive EXCEPT !.does = "store"]
            /\ cache' = [cache EXCEPT ![drive.lba] = ata_io_buffer]
       ELSE UNCHANGED <<drive, cache>>
    /\ Goto("wait_done")
    /\ UNCHANGED <<ram, address, medium, late, saved>>

FlushCommand_Skipped ==
    /\ In("flush")
    /\ Goto("wait_flush")
    /\ UNCHANGED <<ram, address, drive, cache, medium, late, saved>>
FlushCommand ==
    /\ In("flush")
    /\ drive' = Accepted("flush")
    /\ Goto("wait_flush")
    /\ UNCHANGED <<ram, address, cache, medium, late, saved>>

\* A write returns; "disktest" goes on to read the sector back.
WriteReturns ==
    /\ In("return")
    /\ saved' = [saved EXCEPT ![call.lba] = IF late THEN NoData ELSE call.buffer]
    /\ calls' = IF call.job = "test_write" THEN Append(Outer, Read("test_read", TestSector))
                                           ELSE Outer
    /\ UNCHANGED <<ram, address, drive, cache, medium, late>>

\* A read copies the buffer out and returns; "disktest" prints its copy.
ReadReturns ==
    /\ In("copy")
    /\ world_buffer' = IF call.job = "load" THEN ata_io_buffer ELSE world_buffer
    /\ calls' = Outer
    /\ UNCHANGED <<ata_io_buffer, address, drive, cache, medium, late, saved>>

-----------------------------------------------------------------------------
(* The drive, and the power.                                               *)

DriveStep ==
    /\ drive.does \in {"read", "write", "store", "flush"}
    /\ drive' = CASE drive.does = "read"  -> [drive EXCEPT !.does = "offer"]
                  [] drive.does = "write" -> [drive EXCEPT !.does = "accept"]
                  [] OTHER                -> Idle
    /\ medium' = IF drive.does = "flush" THEN cache ELSE medium
    /\ UNCHANGED <<calls, ram, address, cache, late, saved>>

Destage ==
    /\ \E l \in Sectors : medium' = [medium EXCEPT ![l] = cache[l]]
    /\ UNCHANGED <<calls, ram, address, drive, cache, late, saved>>

PowerFails ==
    /\ calls' = << >>
    /\ ata_io_buffer' = Noise /\ world_buffer' \in Worlds
    /\ address' = TestSector /\ drive' = Idle
    /\ cache' = medium
    /\ late' = FALSE
    /\ UNCHANGED <<medium, saved>>

DriverStep ==
    \/ Snapshot \/ Address \/ Command \/ WaitEnds \/ WaitTimesOut
    \/ TransferIn \/ TransferOut \/ FlushCommand \/ WriteReturns \/ ReadReturns

AtaNext ==
    \/ dump_sandbox_to_disk \/ load_sandbox_from_disk \/ ChangeWorld \/ disktest
    \/ DriverStep
    \/ DriveStep \/ Destage \/ PowerFails

\* The CPU never stops executing the driver.  Nothing is promised about the
\* drive.
AtaSpec == AtaInit /\ [][AtaNext]_ata_vars /\ WF_ata_vars(DriverStep)

-----------------------------------------------------------------------------
(* Properties.                                                             *)

Jobs == {"dump", "load", "test_write", "test_read"}


\* A sector whose write returned in time is on the medium and stays there,
\* through power failures, until the next write of that sector begins ("FORCE
\* NON-VOLATILE CACHE HARDWARE FLUSH", ata.cpp:144-146).
SavedIsDurable ==
    \A l \in Sectors : saved[l] # NoData => medium[l] = saved[l]

\* load_sandbox_from_disk restores what dump_sandbox_to_disk saved, also after a
\* power failure ("instantly restoring your complete pre-saved voxel block
\* configurations", persistence.cpp:36-37), unless the drive was late.
LoadRestoresSaved ==
    [][(ReadReturns /\ call.job = "load" /\ ~late /\ saved[WORLD_SAVE_LBA_SECTOR] # NoData) =>
          world_buffer' = saved[WORLD_SAVE_LBA_SECTOR]]_ata_vars

\* "disktest" reads back what it wrote, unless the drive was late.
EchoIsGenuine ==
    [][(ReadReturns /\ call.job = "test_read" /\ ~late) => ata_io_buffer = Secret]_ata_vars

\* A call of the driver returns, even when the drive does not answer.
CallsReturn == (calls # << >>) ~> (calls = << >>)

\* "Flushes the entire active 3D voxel sandbox coordinate array directly down to
\* virtual Sector 2" (persistence.cpp:13-14): when the save returns in time, the
\* medium holds what world_map held.
SaveIsComplete ==
    [][(WriteReturns /\ call.job = "dump" /\ ~late) =>
          medium[WORLD_SAVE_LBA_SECTOR] = call.buffer]_ata_vars
=============================================================================
