---------------------------- MODULE JsonlRotation ----------------------------
(***************************************************************************)
(* Size-based rotation of the JSONL backend (backends/jsonl.py), one file- *)
(* system call per step, with failing calls, a process that dies and       *)
(* starts again between any two, and an initialize() on the same path: it  *)
(* opens the new backend's file while the old worker still writes and      *)
(* rotates.                                                                *)
(*                                                                         *)
(* Name 0 is the base path and name n the backup path.n.  A file is a      *)
(* number, an event the number of its successful write, and a file's size  *)
(* is the number of its events.  Of the stats only rotations is kept:      *)
(* refused or failed writes only count errors.                             *)
(***************************************************************************)
EXTENDS Naturals, Sequences, FiniteSets

CONSTANTS
  BackupCounts,  \* values of backup_count to consider
  MaxBytes,      \* max_bytes
  MaxStored,     \* bound of the model: events written
  MaxFiles,      \* bound of the model: files created
  MaxFaults      \* bound of the model: failing calls and dying processes

ASSUME JsonlAssumption ==
  /\ BackupCounts \subseteq Nat /\ IsFiniteSet(BackupCounts)
  /\ MaxBytes \in Nat \ {0} /\ MaxStored \in Nat /\ MaxFiles \in Nat /\ MaxFaults \in Nat
  \* the bounds have room for what a first start may find
  /\ \A b \in BackupCounts : (b + 1) * MaxBytes <= MaxStored /\ b + 2 <= MaxFiles

VARIABLES
  dir,        \* the file under each name, 0 for none
  data,       \* what each file holds
  created,    \* files created so far
  handle,     \* _file of the backend that serves, 0 for None
  spare,      \* _file of the backend initialize() has opened, 0 when there is none
  pc,         \* where the worker thread is in write()
  slot,       \* i of the shifting loop
  keep,       \* backup_count
  rotations,  \* _stats["rotations"]
  stored,     \* events written so far
  faults,     \* calls that failed and processes that died so far
  strayed     \* a backend has served through a file that was rotated away

diskVars == <<dir, data, created>>
vars == <<diskVars, handle, spare, pc, slot, keep, rotations, stored, faults, strayed>>

Base == 0
Names == UNION {0..b + 1 : b \in BackupCounts}
Exists(n) == dir[n] # 0

(* The first start of a process, in an empty directory or beside the full   *)
(* backups of one that kept fewer of them, or any number more.              *)
Init ==
  \E left \in {0} \cup {b + 1 : b \in BackupCounts} :
    /\ keep \in BackupCounts
    /\ dir = [n \in Names |-> IF n <= left THEN left + 1 - n ELSE 0]
    /\ data = [f \in 1..MaxFiles |->
                 IF f <= left THEN [k \in 1..MaxBytes |-> (f - 1) * MaxBytes + k] ELSE <<>>]
    /\ created = left + 1 /\ handle = left + 1 /\ spare = 0
    /\ pc = "idle" /\ slot = 0 /\ rotations = 0
    /\ stored = left * MaxBytes /\ faults = 0 /\ strayed = FALSE

(* open(self._path, "a"): the file under the base name, or a new one. *)
Opened == IF Exists(Base) THEN dir[Base] ELSE created + 1
OpenBase ==
  /\ Opened <= MaxFiles
  /\ dir' = [dir EXCEPT ![Base] = Opened]
  /\ created' = IF Exists(Base) THEN created ELSE created + 1
  /\ UNCHANGED data

Unlink(n) == dir' = [dir EXCEPT ![n] = 0]
Rename(n, m) == dir' = [dir EXCEPT ![m] = dir[n], ![n] = 0]
-----------------------------------------------------------------------------
(* write(): append, look at the size, rotate.                              *)

WriteLine ==
  /\ pc = "idle" /\ handle # 0 /\ stored < MaxStored
  /\ stored' = stored + 1
  /\ data' = [data EXCEPT ![handle] = Append(@, stored')]
  /\ pc' = "check"
  /\ UNCHANGED <<dir, created, handle, spare, slot, keep, rotations, faults, strayed>>

(* Mutant: the file may grow one event past the limit. *)
ShouldRollover_Late ==
  /\ pc = "check"
  /\ pc' = IF Exists(Base) /\ Len(data[dir[Base]]) > MaxBytes THEN "shift" ELSE "idle"
  /\ slot' = IF keep = 0 THEN 0 ELSE keep - 1
  /\ UNCHANGED <<diskVars, handle, spare, keep, rotations, stored, faults, strayed>>

(* The size is that of the base name, not of the open file. *)
ShouldRollover ==
  /\ pc = "check"
  /\ pc' = IF Exists(Base) /\ Len(data[dir[Base]]) >= MaxBytes THEN "shift" ELSE "idle"
  /\ slot' = IF keep = 0 THEN 0 ELSE keep - 1
  /\ UNCHANGED <<diskVars, handle, spare, keep, rotations, stored, faults, strayed>>

(* stat() or the flush before it raises: no rotation after this write. *)
SizeUnknown ==
  /\ pc = "check" /\ faults < MaxFaults
  /\ pc' = "idle" /\ faults' = faults + 1
  /\ UNCHANGED <<diskVars, handle, spare, slot, keep, rotations, stored, strayed>>

RotationStep ==
  UNCHANGED <<data, created, handle, spare, keep, rotations, stored, faults, strayed>>

SkipBackup ==
  /\ pc = "shift" /\ slot > 0 /\ ~Exists(slot)
  /\ slot' = slot - 1
  /\ UNCHANGED <<dir, pc>> /\ RotationStep

(* Mutant: the newer of the two backups is deleted. *)
UnlinkBackup_Source ==
  /\ pc = "shift" /\ slot > 0 /\ Exists(slot) /\ Exists(slot + 1)
  /\ Unlink(slot)
  /\ UNCHANGED <<slot, pc>> /\ RotationStep

UnlinkBackup ==
  /\ pc = "shift" /\ slot > 0 /\ Exists(slot) /\ Exists(slot + 1)
  /\ Unlink(slot + 1)
  /\ UNCHANGED <<slot, pc>> /\ RotationStep

ShiftBackup ==
  /\ pc = "shift" /\ slot > 0 /\ Exists(slot) /\ ~Exists(slot + 1)
  /\ Rename(slot, slot + 1)
  /\ slot' = slot - 1
  /\ UNCHANGED pc /\ RotationStep

(* Mutant: one backup too many is deleted. *)
UnlinkBeyond_OffByOne ==
  /\ pc = "shift" /\ slot = 0
  /\ Unlink(keep)
  /\ pc' = "current"
  /\ UNCHANGED slot /\ RotationStep

(* Mutant: files beyond backup_count are left alone. *)
UnlinkBeyond_Forgotten ==
  /\ pc = "shift" /\ slot = 0
  /\ pc' = "current"
  /\ UNCHANGED <<dir, slot>> /\ RotationStep

UnlinkBeyond ==
  /\ pc = "shift" /\ slot = 0
  /\ Unlink(keep + 1)
  /\ pc' = "current"
  /\ UNCHANGED slot /\ RotationStep

UnlinkFirst ==
  /\ pc = "current" /\ Exists(Base) /\ Exists(1)
  /\ Unlink(1)
  /\ UNCHANGED <<slot, pc>> /\ RotationStep

(* Mutant: the current file takes the oldest backup's name. *)
RenameCurrent_ToOldest ==
  /\ pc = "current" /\ ~(Exists(Base) /\ Exists(1))
  /\ Rename(Base, keep + 1)
  /\ pc' = "open"
  /\ UNCHANGED slot /\ RotationStep

RenameCurrent ==
  /\ pc = "current" /\ ~(Exists(Base) /\ Exists(1))
  /\ Rename(Base, 1)
  /\ pc' = "open"
  /\ UNCHANGED slot /\ RotationStep

OpenFresh ==
  /\ pc = "open" /\ OpenBase
  /\ handle' = Opened /\ rotations' = rotations + 1
  /\ pc' = "idle"
  /\ UNCHANGED <<spare, slot, keep, stored, faults, strayed>>

(* Mutant: the counter counts rotations that were tried. *)
RotationRaises_Counts ==
  /\ pc \in {"shift", "current", "open"} /\ faults < MaxFaults
  /\ \/ OpenBase /\ handle' = Opened
     \/ handle' = 0 /\ UNCHANGED diskVars
  /\ pc' = "idle" /\ faults' = faults + 1 /\ rotations' = rotations + 1
  /\ UNCHANGED <<spare, slot, keep, stored, strayed>>

(* An OSError anywhere in the rotation: reopen what the base name holds, or *)
(* go on without a file.                                                    *)
RotationRaises ==
  /\ pc \in {"shift", "current", "open"} /\ faults < MaxFaults
  /\ \/ OpenBase /\ handle' = Opened
     \/ handle' = 0 /\ UNCHANGED diskVars
  /\ pc' = "idle" /\ faults' = faults + 1
  /\ UNCHANGED <<spare, slot, keep, rotations, stored, strayed>>
-----------------------------------------------------------------------------
(* The process dies, and another one opens the same path. *)
Restart ==
  /\ faults < MaxFaults /\ OpenBase
  /\ handle' = Opened /\ spare' = 0
  /\ pc' = "idle" /\ rotations' = 0 /\ faults' = faults + 1
  /\ UNCHANGED <<slot, keep, stored, strayed>>

(* initialize() creates the new backend first ...                          *)
OpenSpare ==
  /\ spare = 0 /\ OpenBase
  /\ spare' = Opened
  /\ UNCHANGED <<handle, pc, slot, keep, rotations, stored, faults, strayed>>

(* ... and once the old worker has drained its queue, the new one serves.  *)
TakeOver ==
  /\ spare # 0 /\ pc = "idle"
  /\ handle' = spare /\ spare' = 0 /\ rotations' = 0
  /\ strayed' = (strayed \/ spare # dir[Base])
  /\ UNCHANGED <<diskVars, pc, slot, keep, stored, faults>>
-----------------------------------------------------------------------------
Next ==
  \/ WriteLine \/ ShouldRollover \/ SizeUnknown
  \/ SkipBackup \/ UnlinkBackup \/ ShiftBackup \/ UnlinkBeyond \/ UnlinkFirst
  \/ RenameCurrent \/ OpenFresh \/ RotationRaises
  \/ Restart \/ OpenSpare \/ TakeOver

Spec == Init /\ [][Next]_vars
-----------------------------------------------------------------------------
Content(n) == IF Exists(n) THEN data[dir[n]] ELSE <<>>
In(n) == {Content(n)[k] : k \in DOMAIN Content(n)}
OnDisk == UNION {In(n) : n \in Names}
AtMost(a, b) == IF a < b THEN a ELSE b

(* Every variable has its type, and each rotation counted has made a file. *)
TypeOK ==
  /\ dir \in [Names -> 0..created] /\ created \in 1..MaxFiles
  /\ data \in [1..MaxFiles -> Seq(1..MaxStored)]
  /\ handle \in 0..created /\ spare \in 0..created
  /\ pc \in {"idle", "check", "shift", "current", "open"} /\ slot \in Nat
  /\ keep \in BackupCounts /\ rotations \in 0..created - 1 /\ stored \in 0..MaxStored
  /\ faults \in 0..MaxFaults /\ strayed \in BOOLEAN

(* "base.jsonl -> base.jsonl.1 -> ... -> base.jsonl.N" (jsonl.py): read from *)
(* the highest name to the base, the files hold the events in the order they *)
(* were written, whatever rotation was cut short.                            *)
KeptInOrder ==
  ~strayed =>
    /\ \A n \in Names : \A j, k \in DOMAIN Content(n) : j < k => Content(n)[j] < Content(n)[k]
    /\ \A m, n \in Names : m < n => \A e \in In(m), f \in In(n) : f < e

(* Rotation gives up the oldest events only: what the base and its           *)
(* backup_count backups hold is a suffix of what was written, between any    *)
(* two file-system calls.  (A file beyond backup_count goes after they       *)
(* were shifted, so for a moment it is older than a gap.)                    *)
OnlyOldestGoes ==
  ~strayed => \A e \in UNION {In(n) : n \in 0..keep} : \A f \in e..stored : f \in OnDisk

(* backup_count full files stay on disk beside the current one, and each    *)
(* failing call or dead process costs at most one of them.                  *)
RetentionDegradesByFault ==
  ~strayed /\ faults <= keep =>
    Cardinality(OnDisk) >= AtMost(stored, (keep - faults) * MaxBytes)

(* "Oldest files beyond backup_count are deleted" (jsonl.py), as far as it  *)
(* is so: no file is ever put beyond the count, and a rotation that is      *)
(* counted has removed the first name beyond it.  What a count larger by    *)
(* two or more left at higher names stays.  backup_count = 0 really keeps   *)
(* one backup.                                                              *)
BeyondCountShrinks ==
  [][/\ \A n \in Names : n > keep /\ n > 1 => dir'[n] \in {dir[n], 0}
     /\ rotations' > rotations /\ keep > 0 => dir'[keep + 1] = 0]_vars

(* A file exceeds max_bytes by no more than the event that reached it, and  *)
(* one more for each look at the size or rotation that failed or was cut    *)
(* short.                                                                   *)
SizeBounded ==
  ~strayed => \A n \in Names : Len(Content(n)) <= MaxBytes + faults

(* "Automatically rotates files when they exceed max_bytes." (jsonl.py)     *)
RotatesWhenExceeded ==
  \A n \in Names : Len(Content(n)) <= MaxBytes + faults
=============================================================================
