------------------------ MODULE JsonlRotationProofs ------------------------
(***************************************************************************)
(* Theorems about module JsonlRotation, for any values of backup_count,    *)
(* any max_bytes and any number of events, files, failing calls and dying  *)
(* processes: what rotation never does to the files it has written.        *)
(***************************************************************************)
EXTENDS JsonlRotation, FiniteSetTheorems, TLAPS

(* One action at a time: what [Next]_vars stands for in the proofs below.  *)
LEMMA NextCases ==
  ASSUME [Next]_vars
  PROVE  \/ WriteLine \/ ShouldRollover \/ SizeUnknown
         \/ SkipBackup \/ UnlinkBackup \/ ShiftBackup \/ UnlinkBeyond \/ UnlinkFirst
         \/ RenameCurrent \/ OpenFresh \/ RotationRaises
         \/ Restart \/ OpenSpare \/ TakeOver
         \/ UNCHANGED vars
  BY DEF Next
-----------------------------------------------------------------------------
(* Types.  A file that has not been created holds nothing.                 *)

DirTypes ==
  /\ created \in 1..MaxFiles /\ dir \in [Names -> 0..created]
  /\ handle \in 0..created /\ spare \in 0..created
DataTypes ==
  /\ data \in [1..MaxFiles -> Seq(1..MaxStored)] /\ stored \in 0..MaxStored
  /\ \A f \in 1..MaxFiles : f > created => data[f] = <<>>
ControlTypes ==
  /\ pc \in {"idle", "check", "shift", "current", "open"}
  /\ keep \in BackupCounts /\ rotations \in Nat
  /\ faults \in 0..MaxFaults /\ strayed \in BOOLEAN
SlotTypes == slot \in Nat /\ (pc = "shift" => slot = 0 \/ slot < keep)
(* A rotation renames a file that is there. *)
OnBase == pc \in {"shift", "current"} => Exists(Base)
(* Each rotation that is counted has made the file it opens. *)
RotationsMade ==
  /\ rotations < created
  /\ pc = "open" /\ Exists(Base) => rotations + 1 < created

TypeInv == DirTypes /\ DataTypes /\ ControlTypes /\ SlotTypes /\ OnBase /\ RotationsMade

LEMMA NamesFacts ==
  ASSUME NEW b \in BackupCounts
  PROVE  /\ Names \subseteq Nat /\ b \in Nat /\ Base \in Names
         /\ \A n \in 0..b + 1 : n \in Names
  BY JsonlAssumption DEF Names, Base

(* open(path, "a"): what the base name holds, or a new file under it.      *)
LEMMA OpenFacts ==
  ASSUME TypeInv, OpenBase
  PROVE  /\ dir' \in [Names -> 0..created'] /\ created' \in 1..MaxFiles /\ created <= created'
         /\ data' = data /\ dir'[Base] = Opened /\ Opened \in 1..created'
         /\ Exists(Base) => dir' = dir /\ created' = created
         /\ ~Exists(Base) => /\ created' = created + 1
                             /\ dir' = [dir EXCEPT ![Base] = created']
<1>1. Base \in Names
  BY NamesFacts DEF TypeInv, ControlTypes
<1>2. created \in 1..MaxFiles /\ dir \in [Names -> 0..created] /\ MaxFiles \in Nat
  BY JsonlAssumption DEF TypeInv, DirTypes
<1>3. /\ dir' = [dir EXCEPT ![Base] = Opened] /\ data' = data /\ Opened <= MaxFiles
      /\ created' = IF Exists(Base) THEN created ELSE created + 1
  BY DEF OpenBase
<1>4. CASE Exists(Base)
  <2>1. Opened = dir[Base] /\ dir[Base] \in 1..created
    BY <1>1, <1>2, <1>4 DEF Opened, Exists
  <2>2. dir' = dir
    BY <1>2, <1>3, <2>1
  <2>3. QED
    BY <1>1, <1>2, <1>3, <1>4, <2>1, <2>2
<1>5. CASE ~Exists(Base)
  <2>1. Opened = created + 1
    BY <1>5 DEF Opened
  <2>2. created' \in 1..MaxFiles /\ created <= created' /\ created' = Opened
    BY <1>2, <1>3, <1>5, <2>1
  <2>3. 0..created \subseteq 0..created' /\ created' \in 0..created'
    BY <1>2, <2>2
  <2>4. dir' \in [Names -> 0..created'] /\ dir'[Base] = Opened
    BY <1>1, <1>2, <1>3, <2>2, <2>3
  <2>5. QED
    BY <1>3, <1>5, <2>1, <2>2, <2>4
<1>6. QED
  BY <1>4, <1>5

LEMMA FirstFiles ==
  ASSUME NEW M \in Nat, NEW a \in Nat, NEW b \in Nat, a < b
  PROVE  a * M + M <= b * M
  OBVIOUS

LEMMA TypeInit == Init => TypeInv
<1> SUFFICES ASSUME Init PROVE TypeInv
  OBVIOUS
<1>1. PICK left \in {0} \cup {b + 1 : b \in BackupCounts} :
         /\ keep \in BackupCounts
         /\ dir = [n \in Names |-> IF n <= left THEN left + 1 - n ELSE 0]
         /\ data = [f \in 1..MaxFiles |->
                      IF f <= left THEN [k \in 1..MaxBytes |-> (f - 1) * MaxBytes + k] ELSE <<>>]
         /\ created = left + 1 /\ handle = left + 1 /\ spare = 0
         /\ pc = "idle" /\ slot = 0 /\ rotations = 0
         /\ stored = left * MaxBytes /\ faults = 0 /\ strayed = FALSE
  BY DEF Init
<1>2. left \in Nat /\ left + 1 <= MaxFiles /\ left * MaxBytes <= MaxStored /\ left * MaxBytes \in Nat
  <2>1. MaxBytes \in Nat /\ MaxStored \in Nat /\ MaxFiles \in Nat
        /\ \A b \in BackupCounts : /\ b \in Nat /\ b + 2 <= MaxFiles
                                  /\ (b + 1) * MaxBytes <= MaxStored
    BY JsonlAssumption
  <2>2. CASE left = 0
    <3>1. PICK b \in BackupCounts : b = keep
      BY <1>1
    <3>2. QED
      BY <2>1, <2>2, <3>1
  <2>3. ASSUME NEW b \in BackupCounts, left = b + 1
        PROVE  left \in Nat /\ left + 1 <= MaxFiles /\ left * MaxBytes <= MaxStored
               /\ left * MaxBytes \in Nat
    BY <2>1, <2>3
  <2>4. QED
    BY <1>1, <2>2, <2>3
<1>3. DirTypes
  <2>1. \A n \in Names : n \in Nat
    BY <1>1, NamesFacts
  <2>2. dir \in [Names -> 0..created]
    BY <1>1, <1>2, <2>1
  <2>3. QED
    BY <1>1, <1>2, <2>2 DEF DirTypes
<1>4. DataTypes
  <2>1. ASSUME NEW f \in 1..MaxFiles PROVE data[f] \in Seq(1..MaxStored)
    <3>1. CASE f <= left
      <4>1. \A k \in 1..MaxBytes : (f - 1) * MaxBytes + k \in 1..MaxStored
        <5>1. f - 1 \in Nat /\ f - 1 < left /\ MaxBytes \in Nat
          BY <1>2, <3>1, JsonlAssumption
        <5>2. (f - 1) * MaxBytes + MaxBytes <= left * MaxBytes /\ (f - 1) * MaxBytes \in Nat
          BY <1>2, <5>1, FirstFiles
        <5>3. QED
          BY <1>2, <5>1, <5>2, JsonlAssumption
      <4>2. data[f] = [k \in 1..MaxBytes |-> (f - 1) * MaxBytes + k] /\ MaxBytes \in Nat
        BY <1>1, <3>1, JsonlAssumption
      <4>3. QED
        BY <4>1, <4>2
    <3>2. CASE ~(f <= left)
      BY <1>1, <3>2
    <3>3. QED
      BY <3>1, <3>2
  <2>2. \A f \in 1..MaxFiles : f > created => data[f] = <<>>
    BY <1>1, <1>2
  <2>3. QED
    <3>1. data \in [1..MaxFiles -> Seq(1..MaxStored)]
      BY <1>1, <2>1
    <3>2. stored \in 0..MaxStored
      BY <1>1, <1>2, JsonlAssumption
    <3>3. QED
      BY <2>2, <3>1, <3>2 DEF DataTypes
<1>5. ControlTypes /\ SlotTypes
  <2>1. faults = 0 /\ rotations = 0 /\ pc = "idle" /\ slot = 0 /\ keep \in BackupCounts
    BY <1>1
  <2>2. strayed \in BOOLEAN
    BY <1>1
  <2>3. QED
    BY <2>1, <2>2, JsonlAssumption DEF ControlTypes, SlotTypes
<1>6. OnBase
  BY <1>1 DEF OnBase
<1>7. RotationsMade
  BY <1>1, <1>2 DEF RotationsMade
<1>8. QED
  BY <1>3, <1>4, <1>5, <1>6, <1>7 DEF TypeInv

(* What a step does to the directory: nothing, a name removed, a name      *)
(* given to the next one that is free, or a new file under the base name.  *)
Unlinks(n) == n \in Names \ {Base} /\ Unlink(n)
Renames(n) == n \in Names /\ n + 1 \in Names /\ Exists(n) /\ ~Exists(n + 1) /\ Rename(n, n + 1)
DirKept ==
  /\ WriteLine \/ ShouldRollover \/ SizeUnknown \/ SkipBackup \/ TakeOver \/ UNCHANGED vars
  /\ UNCHANGED <<dir, created>>
NameRemoved(n) ==
  /\ \/ UnlinkBackup /\ n = slot + 1
     \/ UnlinkBeyond /\ n = keep + 1
     \/ UnlinkFirst /\ n = 1
  /\ Unlinks(n) /\ created' = created
NameMoved(n) ==
  /\ (ShiftBackup /\ n = slot) \/ (RenameCurrent /\ n = Base)
  /\ Renames(n) /\ created' = created
BaseOpened == (OpenFresh \/ RotationRaises \/ Restart \/ OpenSpare) /\ OpenBase
BaseLeft == RotationRaises /\ handle' = 0 /\ UNCHANGED diskVars

LEMMA DirMoves ==
  ASSUME TypeInv, [Next]_vars
  PROVE  \/ DirKept \/ BaseOpened \/ BaseLeft
         \/ \E n \in Names : NameRemoved(n) \/ NameMoved(n)
<1>1. /\ keep \in BackupCounts /\ keep \in Nat /\ slot \in Nat /\ (pc = "shift" => slot <= keep)
      /\ pc = "shift" /\ slot # 0 => slot + 1 <= keep
  BY NamesFacts DEF TypeInv, ControlTypes, SlotTypes
<1>2. /\ Names \subseteq Nat /\ keep + 1 \in Names /\ keep + 1 # Base
      /\ 1 \in Names /\ 1 # Base /\ Base \in Names
  BY <1>1, NamesFacts DEF Base
<1>3. pc = "shift" => slot \in Names /\ slot + 1 \in Names /\ slot + 1 # Base
  BY <1>1, NamesFacts DEF Base
<1>4. CASE WriteLine \/ ShouldRollover \/ SizeUnknown \/ SkipBackup \/ TakeOver \/ UNCHANGED vars
  BY <1>4 DEF DirKept, WriteLine, ShouldRollover, SizeUnknown, SkipBackup, TakeOver,
     RotationStep, vars, diskVars
<1>5. CASE UnlinkBackup
  <2>1. pc = "shift" /\ Unlink(slot + 1) /\ created' = created
    BY <1>5 DEF UnlinkBackup, RotationStep
  <2>2. NameRemoved(slot + 1)
    BY <1>3, <1>5, <2>1 DEF NameRemoved, Unlinks
  <2>3. QED
    BY <1>3, <2>1, <2>2
<1>6. CASE UnlinkBeyond
  <2>1. NameRemoved(keep + 1)
    BY <1>2, <1>6 DEF NameRemoved, Unlinks, UnlinkBeyond, RotationStep
  <2>2. QED
    BY <1>2, <2>1
<1>7. CASE UnlinkFirst
  <2>1. NameRemoved(1)
    BY <1>2, <1>7 DEF NameRemoved, Unlinks, UnlinkFirst, RotationStep
  <2>2. QED
    BY <1>2, <2>1
<1>8. CASE ShiftBackup
  <2>1. NameMoved(slot)
    BY <1>3, <1>8 DEF ShiftBackup, RotationStep, NameMoved, Renames
  <2>2. QED
    BY <1>3, <1>8, <2>1 DEF ShiftBackup
<1>9. CASE RenameCurrent
  <2>1. Exists(Base) /\ ~Exists(Base + 1) /\ Rename(Base, Base + 1) /\ Base + 1 = 1
    BY <1>9 DEF RenameCurrent, Base, TypeInv, OnBase
  <2>2. NameMoved(Base)
    BY <1>2, <1>9, <2>1 DEF RenameCurrent, RotationStep, NameMoved, Renames
  <2>3. QED
    BY <1>2, <2>2
<1>10. CASE OpenFresh \/ RotationRaises \/ Restart \/ OpenSpare
  BY <1>10 DEF BaseOpened, BaseLeft, OpenFresh, RotationRaises, Restart, OpenSpare
<1>11. QED
  BY NextCases, <1>4, <1>5, <1>6, <1>7, <1>8, <1>9, <1>10

LEMMA DirTypesStep == TypeInv /\ [Next]_vars => DirTypes'
<1> SUFFICES ASSUME TypeInv, [Next]_vars PROVE DirTypes'
  OBVIOUS
<1>0. /\ created \in 1..MaxFiles /\ dir \in [Names -> 0..created]
      /\ handle \in 0..created /\ spare \in 0..created
  BY DEF TypeInv, DirTypes
<1>1. CASE DirKept
  <2>1. handle' \in {handle, spare} /\ spare' \in {spare, 0}
    BY <1>1 DEF DirKept, WriteLine, ShouldRollover, SizeUnknown, SkipBackup, TakeOver, vars,
       RotationStep
  <2>2. QED
    BY <1>0, <1>1, <2>1 DEF DirTypes, DirKept
<1>2. ASSUME NEW n \in Names, NameRemoved(n) PROVE DirTypes'
  <2>1. UNCHANGED <<handle, spare, created>>
    BY <1>2 DEF NameRemoved, UnlinkBackup, UnlinkBeyond, UnlinkFirst, RotationStep
  <2>2. dir' \in [Names -> 0..created]
    BY <1>0, <1>2 DEF NameRemoved, Unlinks, Unlink
  <2>3. QED
    BY <1>0, <2>1, <2>2 DEF DirTypes
<1>3. ASSUME NEW n \in Names, NameMoved(n) PROVE DirTypes'
  <2>1. UNCHANGED <<handle, spare, created>>
    BY <1>3 DEF NameMoved, ShiftBackup, RenameCurrent, RotationStep
  <2>2. dir' \in [Names -> 0..created]
    BY <1>0, <1>3 DEF NameMoved, Renames, Rename
  <2>3. QED
    BY <1>0, <2>1, <2>2 DEF DirTypes
<1>4. CASE BaseOpened
  <2>1. /\ dir' \in [Names -> 0..created'] /\ created' \in 1..MaxFiles
        /\ Opened \in 0..created' /\ 0..created \subseteq 0..created' /\ 0 \in 0..created'
    BY <1>0, <1>4, OpenFacts DEF BaseOpened
  <2>2. handle' \in {handle, Opened, 0} /\ spare' \in {spare, Opened, 0}
    BY <1>4 DEF BaseOpened, OpenFresh, RotationRaises, Restart, OpenSpare
  <2>3. QED
    BY <1>0, <2>1, <2>2 DEF DirTypes
<1>5. CASE BaseLeft
  BY <1>0, <1>5 DEF BaseLeft, RotationRaises, diskVars, DirTypes
<1>6. QED
  BY <1>1, <1>2, <1>3, <1>4, <1>5, DirMoves

(* Only a write changes what files hold. *)
LEMMA DataMoves ==
  ASSUME [Next]_vars
  PROVE  WriteLine \/ UNCHANGED <<data, stored>>
  BY NextCases DEF ShouldRollover, SizeUnknown, SkipBackup, UnlinkBackup, ShiftBackup, UnlinkBeyond,
       UnlinkFirst, RenameCurrent, OpenFresh, RotationRaises, Restart, OpenSpare, TakeOver,
       RotationStep, OpenBase, diskVars, vars

LEMMA DataTypesStep == TypeInv /\ [Next]_vars => DataTypes'
<1> SUFFICES ASSUME TypeInv, [Next]_vars PROVE DataTypes'
  OBVIOUS
<1>0. /\ data \in [1..MaxFiles -> Seq(1..MaxStored)] /\ stored \in 0..MaxStored
      /\ \A f \in 1..MaxFiles : f > created => data[f] = <<>>
      /\ created \in Nat /\ handle \in 0..created /\ created <= MaxFiles
  BY DEF TypeInv, DirTypes, DataTypes
<1>1. CASE WriteLine
  <2>1. /\ handle \in 1..MaxFiles /\ stored' = stored + 1 /\ stored' \in 1..MaxStored
        /\ data' = [data EXCEPT ![handle] = Append(@, stored')] /\ created' = created
    BY <1>0, <1>1, JsonlAssumption DEF WriteLine
  <2>2. Append(data[handle], stored') \in Seq(1..MaxStored)
    BY <1>0, <2>1
  <2>3. data' \in [1..MaxFiles -> Seq(1..MaxStored)]
    BY <1>0, <2>1, <2>2
  <2>4. \A f \in 1..MaxFiles : f > created => f # handle
    BY <1>0
  <2>5. \A f \in 1..MaxFiles : f > created' => data'[f] = <<>>
    BY <1>0, <2>1, <2>4
  <2>6. QED
    BY <2>1, <2>3, <2>5 DEF DataTypes
<1>2. CASE UNCHANGED <<data, stored>>
  <2>1. created' \in Nat /\ created <= created'
    <3>1. CASE BaseOpened
      BY <1>0, <3>1, OpenFacts DEF BaseOpened
    <3>2. CASE created' = created
      BY <1>0, <3>2
    <3>3. QED
      BY <3>1, <3>2, DirMoves DEF DirKept, NameRemoved, NameMoved, BaseLeft, diskVars
  <2>2. \A f \in 1..MaxFiles : f > created' => f > created
    BY <1>0, <2>1
  <2>3. QED
    BY <1>0, <1>2, <2>2 DEF DataTypes
<1>3. QED
  BY <1>1, <1>2, DataMoves

LEMMA ControlStep == TypeInv /\ [Next]_vars => ControlTypes' /\ SlotTypes'
<1> SUFFICES ASSUME TypeInv, [Next]_vars PROVE ControlTypes' /\ SlotTypes'
  OBVIOUS
<1>0. /\ pc \in {"idle", "check", "shift", "current", "open"}
      /\ keep \in BackupCounts /\ keep \in Nat /\ rotations \in Nat
      /\ faults \in 0..MaxFaults /\ strayed \in BOOLEAN /\ MaxFaults \in Nat
      /\ slot \in Nat /\ (pc = "shift" => slot = 0 \/ slot < keep)
  BY NamesFacts, JsonlAssumption DEF TypeInv, ControlTypes, SlotTypes
<1>1. keep' = keep
  BY NextCases DEF WriteLine, ShouldRollover, SizeUnknown, SkipBackup, UnlinkBackup, ShiftBackup,
     UnlinkBeyond,
       UnlinkFirst, RenameCurrent, OpenFresh, RotationRaises, Restart, OpenSpare, TakeOver,
       RotationStep, vars
<1>2. pc' \in {"idle", "check", "shift", "current", "open"}
  BY <1>0, NextCases DEF WriteLine, ShouldRollover, SizeUnknown, SkipBackup, UnlinkBackup,
     ShiftBackup,
       UnlinkBeyond, UnlinkFirst, RenameCurrent, OpenFresh, RotationRaises, Restart, OpenSpare,
       TakeOver, RotationStep, vars
<1>3. rotations' \in Nat /\ faults' \in 0..MaxFaults
  <2>1. CASE RotationRaises \/ SizeUnknown \/ Restart
    BY <1>0, <2>1 DEF RotationRaises, SizeUnknown, Restart
  <2>2. CASE OpenFresh \/ TakeOver
    BY <1>0, <2>2 DEF OpenFresh, TakeOver
  <2>3. CASE UNCHANGED <<rotations, faults>>
    BY <1>0, <2>3
  <2>4. QED
    BY <2>1, <2>2, <2>3, NextCases DEF WriteLine, ShouldRollover, SkipBackup, UnlinkBackup,
         ShiftBackup, UnlinkBeyond, UnlinkFirst, RenameCurrent, OpenSpare, RotationStep, vars
<1>4. strayed' \in BOOLEAN
  BY <1>0, NextCases DEF WriteLine, ShouldRollover, SizeUnknown, SkipBackup, UnlinkBackup,
     ShiftBackup,
       UnlinkBeyond, UnlinkFirst, RenameCurrent, OpenFresh, RotationRaises, Restart, OpenSpare,
       TakeOver, RotationStep, vars
<1>5. slot' \in Nat /\ (pc' = "shift" => slot' = 0 \/ slot' < keep)
  <2>1. CASE ShouldRollover
    BY <1>0, <2>1 DEF ShouldRollover
  <2>2. CASE SkipBackup \/ ShiftBackup
    BY <1>0, <2>2 DEF SkipBackup, ShiftBackup
  <2>3. CASE slot' = slot /\ (pc' = "shift" => pc = "shift")
    BY <1>0, <2>3
  <2>4. QED
    BY <2>1, <2>2, <2>3, NextCases DEF WriteLine, SizeUnknown, UnlinkBackup, UnlinkBeyond,
         UnlinkFirst, RenameCurrent, OpenFresh, RotationRaises, Restart, OpenSpare, TakeOver,
         RotationStep, vars
<1>6. QED
  BY <1>0, <1>1, <1>2, <1>3, <1>4, <1>5 DEF ControlTypes, SlotTypes

LEMMA OnBaseStep == TypeInv /\ [Next]_vars => OnBase'
<1> SUFFICES ASSUME TypeInv, [Next]_vars, pc' \in {"shift", "current"} PROVE dir'[Base] # 0
  BY DEF OnBase, Exists
<1>0. dir \in [Names -> 0..created] /\ Base \in Names
      /\ (pc \in {"shift", "current"} => dir[Base] # 0)
  BY NamesFacts DEF TypeInv, DirTypes, ControlTypes, OnBase, Exists
<1>1. CASE DirKept
  BY <1>0, <1>1 DEF DirKept, WriteLine, ShouldRollover, SizeUnknown, SkipBackup, TakeOver, vars,
     Exists
<1>2. ASSUME NEW n \in Names, NameRemoved(n) PROVE dir'[Base] # 0
  <2>1. pc \in {"shift", "current"}
    BY <1>2 DEF NameRemoved, UnlinkBackup, UnlinkBeyond, UnlinkFirst
  <2>2. QED
    BY <1>0, <1>2, <2>1 DEF NameRemoved, Unlinks, Unlink
<1>3. ASSUME NEW n \in Names, NameMoved(n) PROVE dir'[Base] # 0
  <2>1. ~RenameCurrent
    BY DEF RenameCurrent
  <2>2. pc = "shift" /\ n # Base /\ n + 1 # Base
    BY <1>3, <2>1 DEF NameMoved, ShiftBackup, Base, TypeInv, SlotTypes
  <2>3. QED
    BY <1>0, <1>3, <2>2 DEF NameMoved, Renames, Rename
<1>4. CASE BaseOpened
  <2>1. dir'[Base] = Opened /\ Opened \in 1..created' /\ created' \in 1..MaxFiles
    BY <1>4, OpenFacts DEF BaseOpened
  <2>2. QED
    BY <2>1
<1>5. CASE BaseLeft
  BY <1>5 DEF BaseLeft, RotationRaises
<1>6. QED
  BY <1>1, <1>2, <1>3, <1>4, <1>5, DirMoves

LEMMA RotationsStep == TypeInv /\ [Next]_vars => RotationsMade'
<1> SUFFICES ASSUME TypeInv, [Next]_vars PROVE RotationsMade'
  OBVIOUS
<1>0. /\ dir \in [Names -> 0..created] /\ created \in Nat \ {0} /\ rotations \in Nat
      /\ rotations < created /\ (pc = "open" /\ dir[Base] # 0 => rotations + 1 < created)
      /\ Base \in Names /\ Base = 0
  BY NamesFacts DEF TypeInv, DirTypes, ControlTypes, RotationsMade, Exists, Base
<1>1. CASE OpenFresh
  <2>1. /\ pc = "open" /\ pc' = "idle" /\ rotations' = rotations + 1
        /\ created' = IF dir[Base] # 0 THEN created ELSE created + 1
    BY <1>1 DEF OpenFresh, OpenBase, Exists
  <2>2. QED
    BY <1>0, <2>1 DEF RotationsMade
<1>2. CASE OpenSpare
  <2>1. /\ UNCHANGED <<pc, rotations>>
        /\ dir[Base] # 0 => dir' = dir /\ created' = created
        /\ dir[Base] = 0 => created' = created + 1
    BY <1>2, OpenFacts DEF OpenSpare, Exists
  <2>2. QED
    BY <1>0, <2>1 DEF RotationsMade, Exists
<1>3. CASE RenameCurrent
  <2>1. /\ UNCHANGED <<rotations, created>> /\ dir' = [dir EXCEPT ![1] = dir[Base], ![Base] = 0]
    BY <1>3 DEF RenameCurrent, Rename, RotationStep
  <2>2. dir'[Base] = 0
    BY <1>0, <2>1
  <2>3. QED
    BY <1>0, <2>1, <2>2 DEF RotationsMade, Exists
<1>4. CASE pc' # "open" /\ created' \in {created, created + 1} /\ rotations' \in {0, rotations}
  <2>1. \A a, b, c, d \in Nat : a < b /\ c \in {0, a} /\ d \in {b, b + 1} /\ 0 < b => c < d
    OBVIOUS
  <2>2. /\ rotations' \in Nat /\ created' \in Nat /\ 0 < created
        /\ created' \in {created, created + 1} /\ rotations' \in {0, rotations}
    BY <1>0, <1>4
  <2>3. rotations' < created'
    BY <1>0, <2>1, <2>2
  <2>4. QED
    BY <1>4, <2>3 DEF RotationsMade
<1>5. CASE Restart \/ RotationRaises
  <2>1. /\ pc' = "idle" /\ rotations' \in {0, rotations}
        /\ created' = created \/ OpenBase
    BY <1>5 DEF Restart, RotationRaises, diskVars
  <2>2. created' \in {created, created + 1}
    BY <2>1 DEF OpenBase
  <2>3. QED
    BY <1>4, <2>1, <2>2
<1>6. CASE WriteLine \/ ShouldRollover \/ SizeUnknown \/ TakeOver
  <2>1. created' = created /\ rotations' \in {0, rotations} /\ pc' # "open"
    BY <1>6 DEF WriteLine, ShouldRollover, SizeUnknown, TakeOver, diskVars
  <2>2. QED
    BY <1>4, <2>1
<1>7. CASE SkipBackup \/ UnlinkBackup \/ ShiftBackup \/ UnlinkBeyond \/ UnlinkFirst
  <2>1. UNCHANGED <<rotations, created>> /\ pc' # "open"
    BY <1>7 DEF SkipBackup, UnlinkBackup, ShiftBackup, UnlinkBeyond, UnlinkFirst, RotationStep
  <2>2. QED
    BY <1>4, <2>1
<1>8. CASE UNCHANGED vars
  BY <1>0, <1>8 DEF RotationsMade, Exists, vars, diskVars
<1>9. QED
  BY <1>1, <1>2, <1>3, <1>5, <1>6, <1>7, <1>8, NextCases

LEMMA TypeInvariant == Spec => []TypeInv
<1>1. TypeInv /\ [Next]_vars => TypeInv'
  BY DirTypesStep, DataTypesStep, ControlStep, OnBaseStep, RotationsStep DEF TypeInv
<1>2. QED
  BY <1>1, TypeInit, PTL DEF Spec

(* Every variable keeps its type, whatever fails and whenever the process  *)
(* dies; in particular a rotation is counted only when it made a file.     *)
THEOREM TypeCorrect == Spec => []TypeOK
<1>1. TypeInv => TypeOK
  <2>1. TypeInv => rotations \in 0..created - 1
    BY DEF TypeInv, DirTypes, ControlTypes, RotationsMade
  <2>2. QED
    BY <2>1 DEF TypeInv, TypeOK, DirTypes, DataTypes, ControlTypes, SlotTypes
<1>2. QED
  BY <1>1, TypeInvariant, PTL
-----------------------------------------------------------------------------
(* Names.  The base name, when it exists, is that of the newest file, and  *)
(* a higher name is that of an older file.                                 *)

Newest == dir[Base] \in {0, created}
NamesInOrder == \A m, n \in Names : m < n /\ Exists(m) /\ Exists(n) => dir[n] < dir[m]

(* While backups are shifted the place below the one to fill is free, and  *)
(* when the loop is done, so is the first backup's.                        *)
Shifting ==
  /\ pc = "shift" /\ slot + 1 < keep => ~Exists(slot + 1)
  /\ pc = "current" /\ keep > 1 => ~Exists(1)

BeyondGone == (pc \in {"current", "open"} \/ rotations > 0) /\ keep > 0 => ~Exists(keep + 1)

DirInv == Newest /\ NamesInOrder /\ Shifting /\ BeyondGone

LEMMA DirInit == Init => DirInv
<1> SUFFICES ASSUME Init PROVE DirInv
  OBVIOUS
<1>1. PICK left \in {0} \cup {b + 1 : b \in BackupCounts} :
         /\ keep \in BackupCounts
         /\ dir = [n \in Names |-> IF n <= left THEN left + 1 - n ELSE 0]
         /\ created = left + 1 /\ pc = "idle" /\ rotations = 0
  BY DEF Init
<1>2. left \in Nat /\ Names \subseteq Nat /\ Base \in Names /\ Base = 0
  BY <1>1, NamesFacts, JsonlAssumption DEF Base
<1>3. Newest /\ NamesInOrder
  BY <1>1, <1>2 DEF Newest, NamesInOrder, Exists
<1>4. Shifting /\ BeyondGone
  BY <1>1 DEF Shifting, BeyondGone
<1>5. QED
  BY <1>3, <1>4 DEF DirInv

LEMMA OrderStep == TypeInv /\ DirInv /\ [Next]_vars => Newest' /\ NamesInOrder'
<1> SUFFICES ASSUME TypeInv, DirInv, [Next]_vars PROVE Newest' /\ NamesInOrder'
  OBVIOUS
<1>0. /\ dir \in [Names -> 0..created] /\ created \in Nat /\ Names \subseteq Nat
      /\ Base \in Names /\ Base = 0 /\ dir[Base] \in {0, created}
      /\ \A m, n \in Names : m < n /\ dir[m] # 0 /\ dir[n] # 0 => dir[n] < dir[m]
  BY NamesFacts DEF TypeInv, DirTypes, ControlTypes, DirInv, Newest, NamesInOrder, Exists, Base
<1>1. CASE DirKept \/ BaseLeft
  BY <1>0, <1>1 DEF DirKept, BaseLeft, diskVars, Newest, NamesInOrder, Exists
<1>2. ASSUME NEW n \in Names, NameRemoved(n) PROVE Newest' /\ NamesInOrder'
  <2>1. dir' = [dir EXCEPT ![n] = 0] /\ created' = created /\ n # Base
    BY <1>2 DEF NameRemoved, Unlinks, Unlink
  <2>2. \A m \in Names : dir'[m] # 0 => dir[m] # 0 /\ dir'[m] = dir[m]
    BY <1>0, <2>1
  <2>3. QED
    BY <1>0, <2>1, <2>2 DEF Newest, NamesInOrder, Exists
<1>3. ASSUME NEW n \in Names, NameMoved(n) PROVE Newest' /\ NamesInOrder'
  <2>1. /\ dir' = [dir EXCEPT ![n + 1] = dir[n], ![n] = 0] /\ created' = created
        /\ n + 1 \in Names /\ dir[n] # 0 /\ dir[n + 1] = 0 /\ n \in Nat
    BY <1>0, <1>3 DEF NameMoved, Renames, Rename, Exists
  <2>2. Newest'
    BY <1>0, <2>1 DEF Newest
  <2>3. ASSUME NEW m \in Names, NEW k \in Names, m < k, dir'[m] # 0, dir'[k] # 0
        PROVE  dir'[k] < dir'[m]
    <3>1. m # n /\ k # n /\ m \in Nat /\ k \in Nat
      BY <1>0, <2>1, <2>3
    <3>2. CASE m = n + 1
      <4>1. dir'[m] = dir[n] /\ dir'[k] = dir[k] /\ n < k
        BY <1>0, <2>1, <2>3, <3>1, <3>2
      <4>2. QED
        BY <1>0, <2>1, <2>3, <4>1
    <3>3. CASE k = n + 1
      <4>1. dir'[k] = dir[n] /\ dir'[m] = dir[m] /\ m < n
        BY <1>0, <2>1, <2>3, <3>1, <3>3
      <4>2. QED
        BY <1>0, <2>1, <2>3, <4>1
    <3>4. CASE m # n + 1 /\ k # n + 1
      BY <1>0, <2>1, <2>3, <3>1, <3>4
    <3>5. QED
      BY <3>2, <3>3, <3>4
  <2>4. QED
    BY <2>2, <2>3 DEF NamesInOrder, Exists
<1>4. CASE BaseOpened
  <2>1. CASE Exists(Base)
    BY <1>0, <1>4, <2>1, OpenFacts DEF BaseOpened, Newest, NamesInOrder, Exists
  <2>2. CASE ~Exists(Base)
    <3>1. created' = created + 1 /\ dir' = [dir EXCEPT ![Base] = created']
      BY <1>4, <2>2, OpenFacts DEF BaseOpened
    <3>2. \A m, n \in Names : m < n => n # Base
      BY <1>0
    <3>3. QED
      BY <1>0, <3>1, <3>2 DEF Newest, NamesInOrder, Exists
  <2>3. QED
    BY <2>1, <2>2
<1>5. QED
  BY <1>1, <1>2, <1>3, <1>4, DirMoves

LEMMA ShiftingStep == TypeInv /\ DirInv /\ [Next]_vars => Shifting' /\ BeyondGone'
<1> SUFFICES ASSUME TypeInv, DirInv, [Next]_vars PROVE Shifting' /\ BeyondGone'
  OBVIOUS
<1>0. /\ dir \in [Names -> 0..created] /\ Names \subseteq Nat /\ keep \in BackupCounts
      /\ keep \in Nat /\ keep + 1 \in Names /\ 1 \in Names /\ Base \in Names /\ Base = 0
      /\ slot \in Nat /\ (pc = "shift" => slot = 0 \/ slot < keep)
      /\ (pc = "shift" /\ slot + 1 < keep => dir[slot + 1] = 0)
      /\ (pc = "current" /\ keep > 1 => dir[1] = 0)
      /\ ((pc \in {"current", "open"} \/ rotations > 0) /\ keep > 0 => dir[keep + 1] = 0)
  BY NamesFacts DEF TypeInv, DirTypes, ControlTypes, SlotTypes, DirInv, Shifting, BeyondGone,
     Exists, Base
<1> USE DEF Shifting, BeyondGone, Exists
<1>1. CASE DirKept
  <2>1. dir' = dir
    BY <1>1 DEF DirKept
  <2>2. CASE WriteLine \/ TakeOver \/ UNCHANGED vars
    BY <1>0, <2>1, <2>2 DEF WriteLine, TakeOver, vars
  <2>3. CASE ShouldRollover
    BY <1>0, <2>1, <2>3 DEF ShouldRollover
  <2>4. CASE SkipBackup
    BY <1>0, <2>1, <2>4 DEF SkipBackup, RotationStep
  <2>5. CASE SizeUnknown
    BY <1>0, <2>1, <2>5 DEF SizeUnknown
  <2>6. QED
    BY <1>1, <2>2, <2>3, <2>4, <2>5 DEF DirKept
<1>2. ASSUME NEW n \in Names, NameRemoved(n) PROVE Shifting' /\ BeyondGone'
  <2>1. dir' = [dir EXCEPT ![n] = 0]
    BY <1>2 DEF NameRemoved, Unlinks, Unlink
  <2>2. \A m \in Names : dir[m] = 0 => dir'[m] = 0
    BY <1>0, <2>1
  <2>3. CASE UnlinkBackup \/ UnlinkFirst
    <3>1. UNCHANGED <<pc, slot, keep, rotations>>
      BY <2>3 DEF UnlinkBackup, UnlinkFirst, RotationStep
    <3>2. pc = "shift" => slot + 1 \in Names
      BY <1>0, NamesFacts
    <3>3. QED
      BY <1>0, <2>2, <3>1, <3>2
  <2>4. CASE UnlinkBeyond /\ n = keep + 1
    <3>1. pc = "shift" /\ slot = 0 /\ pc' = "current" /\ UNCHANGED <<slot, keep, rotations>>
      BY <2>4 DEF UnlinkBeyond, RotationStep
    <3>2. dir'[keep + 1] = 0
      BY <1>0, <2>1, <2>4
    <3>3. QED
      BY <1>0, <2>2, <3>1, <3>2
  <2>5. QED
    BY <1>2, <2>3, <2>4 DEF NameRemoved
<1>3. ASSUME NEW n \in Names, NameMoved(n) PROVE Shifting' /\ BeyondGone'
  <2>1. /\ dir' = [dir EXCEPT ![n + 1] = dir[n], ![n] = 0]
        /\ n + 1 \in Names /\ n \in Nat
    BY <1>0, <1>3 DEF NameMoved, Renames, Rename
  <2>2. \A m \in Names : m # n + 1 /\ dir[m] = 0 => dir'[m] = 0
    BY <1>0, <2>1
  <2>3. dir'[n] = 0
    BY <1>0, <1>3, <2>1
  <2>4. CASE ShiftBackup /\ n = slot
    <3>1. /\ pc = "shift" /\ slot > 0 /\ slot' = slot - 1
          /\ UNCHANGED <<pc, keep, rotations>>
      BY <2>4 DEF ShiftBackup, RotationStep
    <3>2. dir'[slot' + 1] = 0 /\ keep + 1 # n + 1
      BY <1>0, <2>3, <2>4, <3>1
    <3>3. QED
      BY <1>0, <2>2, <3>1, <3>2
  <2>5. CASE RenameCurrent /\ n = Base
    <3>1. pc = "current" /\ pc' = "open" /\ UNCHANGED <<slot, keep, rotations>>
      BY <2>5 DEF RenameCurrent, RotationStep
    <3>2. QED
      BY <1>0, <2>2, <2>5, <3>1
  <2>6. QED
    BY <1>3, <2>4, <2>5 DEF NameMoved
<1>4. CASE BaseOpened
  <2>1. \A m \in Names : m # Base => dir'[m] = dir[m]
    BY <1>0, <1>4, OpenFacts DEF BaseOpened
  <2>2. keep' = keep
    BY <1>4 DEF BaseOpened, OpenFresh, RotationRaises, Restart, OpenSpare
  <2>3. CASE OpenFresh
    BY <1>0, <2>1, <2>2, <2>3 DEF OpenFresh
  <2>4. CASE RotationRaises
    BY <1>0, <2>1, <2>2, <2>4 DEF RotationRaises
  <2>5. CASE Restart
    BY <1>0, <2>1, <2>2, <2>5 DEF Restart
  <2>6. CASE OpenSpare
    <3>1. UNCHANGED <<pc, slot, keep, rotations>>
      BY <2>6 DEF OpenSpare
    <3>2. pc = "shift" => slot + 1 \in Names
      BY <1>0, NamesFacts
    <3>3. QED
      BY <1>0, <2>1, <3>1, <3>2
  <2>7. QED
    BY <1>4, <2>3, <2>4, <2>5, <2>6 DEF BaseOpened
<1>5. CASE BaseLeft
  <2>1. dir' = dir /\ pc' = "idle" /\ UNCHANGED <<slot, keep, rotations>>
    BY <1>5 DEF BaseLeft, RotationRaises, diskVars
  <2>2. QED
    BY <1>0, <2>1
<1>6. QED
  BY <1>1, <1>2, <1>3, <1>4, <1>5, DirMoves

LEMMA DirInvariant == Spec => [](TypeInv /\ DirInv)
<1>1. TypeInv /\ DirInv /\ [Next]_vars => DirInv'
  BY OrderStep, ShiftingStep DEF DirInv
<1>2. QED
  BY <1>1, TypeInvariant, DirInit, PTL DEF Spec

(* No step, failing or not, puts a file under a name beyond backup_count,  *)
(* and a rotation is counted only once the first of these names is free    *)
(* (jsonl.py, _do_rollover).  It says nothing of what a count larger by two *)
(* or more left at the other names: no rotation removes that.               *)
THEOREM BeyondCountNeverGrows == Spec => BeyondCountShrinks
<1>1. ASSUME TypeInv, DirInv, [Next]_vars, NEW n \in Names, n > keep, n > 1
      PROVE  dir'[n] \in {dir[n], 0}
  <2>0. /\ dir \in [Names -> 0..created] /\ Names \subseteq Nat /\ Base \in Names /\ Base = 0
        /\ keep \in Nat /\ slot \in Nat /\ (pc = "shift" => slot = 0 \/ slot < keep)
    BY <1>1, NamesFacts DEF TypeInv, DirTypes, ControlTypes, SlotTypes, Base
  <2>1. CASE DirKept \/ BaseLeft
    BY <2>1 DEF DirKept, BaseLeft, diskVars
  <2>2. ASSUME NEW m \in Names, NameRemoved(m) PROVE dir'[n] \in {dir[n], 0}
    BY <2>0, <2>2 DEF NameRemoved, Unlinks, Unlink
  <2>3. ASSUME NEW m \in Names, NameMoved(m) PROVE dir'[n] \in {dir[n], 0}
    <3>1. /\ dir' = [dir EXCEPT ![m + 1] = dir[m], ![m] = 0] /\ m + 1 \in Names
          /\ m = Base \/ (pc = "shift" /\ slot > 0 /\ m = slot)
      BY <2>3 DEF NameMoved, Renames, Rename, ShiftBackup, RenameCurrent
    <3>2. n # m + 1
      BY <1>1, <2>0, <3>1
    <3>3. QED
      BY <2>0, <3>1, <3>2
  <2>4. CASE BaseOpened
    <3>1. dir' = [dir EXCEPT ![Base] = Opened] /\ n # Base
      BY <1>1, <2>0, <2>4 DEF BaseOpened, OpenBase
    <3>2. QED
      BY <2>0, <3>1
  <2>5. QED
    BY <1>1, <2>1, <2>2, <2>3, <2>4, DirMoves
<1>2. ASSUME TypeInv, DirInv, [Next]_vars, rotations' > rotations, keep > 0
      PROVE  dir'[keep + 1] = 0
  <2>1. rotations \in Nat /\ keep \in Nat /\ keep + 1 # Base /\ dir \in [Names -> 0..created]
        /\ keep + 1 \in Names
    BY <1>2, NamesFacts DEF TypeInv, DirTypes, ControlTypes, Base
  <2>2. rotations' \in {0, rotations} \/ OpenFresh
    BY <1>2, NextCases DEF WriteLine, ShouldRollover, SizeUnknown, SkipBackup, UnlinkBackup,
       ShiftBackup, UnlinkBeyond, UnlinkFirst, RenameCurrent, RotationRaises, Restart, OpenSpare,
       TakeOver, RotationStep, vars
  <2>3. OpenFresh
    BY <1>2, <2>1, <2>2
  <2>4. dir[keep + 1] = 0
    BY <1>2, <2>3 DEF OpenFresh, DirInv, BeyondGone, Exists
  <2>5. dir' = [dir EXCEPT ![Base] = Opened]
    BY <2>3 DEF OpenFresh, OpenBase
  <2>6. QED
    BY <2>1, <2>4, <2>5
<1>3. TypeInv /\ DirInv /\ [Next]_vars =>
        [/\ \A n \in Names : n > keep /\ n > 1 => dir'[n] \in {dir[n], 0}
         /\ rotations' > rotations /\ keep > 0 => dir'[keep + 1] = 0]_vars
  BY <1>1, <1>2
<1>4. QED
  BY <1>3, DirInvariant, PTL DEF Spec, BeyondCountShrinks
-----------------------------------------------------------------------------
(* Contents.  While the backend serves through the file under the base     *)
(* name, which is the newest, files hold events in the order of their      *)
(* numbers, and so does each of them.                                      *)

Increasing(s) == \A j, k \in DOMAIN s : j < k => s[j] < s[k]
Older(s, t) == \A j \in DOMAIN s : \A k \in DOMAIN t : s[j] < t[k]

Serving == pc \in {"idle", "check"} /\ handle # 0 => handle = dir[Base]
InOrder ==
  /\ \A f \in 1..MaxFiles : Increasing(data[f]) /\ \A k \in DOMAIN data[f] : data[f][k] <= stored
  /\ \A f, g \in 1..MaxFiles : f < g => Older(data[f], data[g])

DataInv == ~strayed => Serving /\ InOrder

LEMMA ItemTypes ==
  ASSUME NEW T, NEW s \in Seq(T), NEW k \in DOMAIN s
  PROVE  s[k] \in T
<1>1. s \in [1..Len(s) -> T] /\ k \in 1..Len(s)
  OBVIOUS
<1>2. QED
  BY <1>1

LEMMA AppendItems ==
  ASSUME NEW s \in Seq(1..MaxStored), NEW x \in 1..MaxStored
  PROVE  /\ DOMAIN s = 1..Len(s) /\ Len(s) \in Nat
         /\ DOMAIN Append(s, x) = 1..Len(s) + 1 /\ Len(Append(s, x)) = Len(s) + 1
         /\ \A k \in DOMAIN s : Append(s, x)[k] = s[k]
         /\ Append(s, x)[Len(s) + 1] = x
         /\ \A k \in DOMAIN Append(s, x) : k \in DOMAIN s \/ k = Len(s) + 1
  OBVIOUS

LEMMA DataInit == Init => DataInv
<1> SUFFICES ASSUME Init PROVE Serving /\ InOrder
  BY DEF DataInv
<1>1. PICK left \in {0} \cup {b + 1 : b \in BackupCounts} :
         /\ keep \in BackupCounts
         /\ dir = [n \in Names |-> IF n <= left THEN left + 1 - n ELSE 0]
         /\ data = [f \in 1..MaxFiles |->
                      IF f <= left THEN [k \in 1..MaxBytes |-> (f - 1) * MaxBytes + k] ELSE <<>>]
         /\ handle = left + 1 /\ stored = left * MaxBytes
  BY DEF Init
<1>2. left \in Nat /\ MaxBytes \in Nat /\ Base \in Names /\ Base = 0
  BY <1>1, NamesFacts, JsonlAssumption DEF Base
<1>3. Serving
  BY <1>1, <1>2 DEF Serving
<1>4. ASSUME NEW f \in 1..MaxFiles, NEW k \in DOMAIN data[f]
      PROVE  /\ f <= left /\ k \in 1..MaxBytes /\ DOMAIN data[f] = 1..MaxBytes
             /\ data[f][k] = (f - 1) * MaxBytes + k
  BY <1>1, <1>4
<1>5. ASSUME NEW f \in 1..MaxFiles, NEW k \in DOMAIN data[f], NEW b \in Nat, f <= b
      PROVE  data[f][k] \in Nat /\ data[f][k] <= b * MaxBytes
  <2>1. f - 1 \in Nat /\ f - 1 < b
    BY <1>5
  <2>2. (f - 1) * MaxBytes + MaxBytes <= b * MaxBytes /\ (f - 1) * MaxBytes \in Nat
        /\ b * MaxBytes \in Nat
    BY <1>2, <2>1, FirstFiles
  <2>3. k \in 1..MaxBytes /\ data[f][k] = (f - 1) * MaxBytes + k
    BY <1>4
  <2>4. PICK a \in Nat : a = (f - 1) * MaxBytes
    BY <2>2
  <2>5. PICK c \in Nat : c = b * MaxBytes
    BY <2>2
  <2>6. k \in Nat /\ k <= MaxBytes /\ a + MaxBytes <= c /\ data[f][k] = a + k
    BY <1>2, <2>2, <2>3, <2>4, <2>5
  <2>7. QED
    BY <1>2, <2>5, <2>6
<1>6. ASSUME NEW f \in 1..MaxFiles
      PROVE  Increasing(data[f]) /\ \A k \in DOMAIN data[f] : data[f][k] <= stored
  <2>1. (f - 1) * MaxBytes \in Nat
    <3>1. f - 1 \in Nat
      OBVIOUS
    <3>2. QED
      BY <1>2, <3>1
  <2>2. Increasing(data[f])
    BY <1>4, <2>1 DEF Increasing
  <2>3. QED
    BY <1>1, <1>2, <1>4, <1>5, <2>2
<1>7. ASSUME NEW f \in 1..MaxFiles, NEW g \in 1..MaxFiles, f < g
      PROVE  Older(data[f], data[g])
  <2> SUFFICES ASSUME NEW j \in DOMAIN data[f], NEW k \in DOMAIN data[g]
               PROVE  data[f][j] < data[g][k]
    BY DEF Older
  <2>1. g - 1 \in Nat /\ f <= g - 1
    BY <1>7
  <2>2. data[f][j] \in Nat /\ data[f][j] <= (g - 1) * MaxBytes /\ (g - 1) * MaxBytes \in Nat
    BY <1>2, <1>5, <2>1
  <2>3. k \in 1..MaxBytes /\ data[g][k] = (g - 1) * MaxBytes + k
    BY <1>4
  <2>4. QED
    BY <2>2, <2>3
<1>8. QED
  BY <1>3, <1>6, <1>7 DEF InOrder

(* strayed stays. *)
LEMMA StrayedStays == [Next]_vars => (~strayed' => ~strayed)
  BY NextCases DEF WriteLine, ShouldRollover, SizeUnknown, SkipBackup, UnlinkBackup, ShiftBackup,
     UnlinkBeyond,
       UnlinkFirst, RenameCurrent, OpenFresh, RotationRaises, Restart, OpenSpare, TakeOver,
       RotationStep, vars

LEMMA ServingStep == TypeInv /\ DirInv /\ Serving /\ [Next]_vars /\ ~strayed' => Serving'
<1> SUFFICES ASSUME TypeInv, DirInv, Serving, [Next]_vars, ~strayed',
                    pc' \in {"idle", "check"}, handle' # 0
             PROVE  handle' = dir'[Base]
  BY DEF Serving
<1>1. CASE DirKept
  <2>1. dir' = dir
    BY <1>1 DEF DirKept
  <2>2. CASE TakeOver
    BY <2>1, <2>2 DEF TakeOver
  <2>3. CASE WriteLine \/ ShouldRollover \/ SizeUnknown \/ SkipBackup \/ UNCHANGED vars
    <3>1. handle' = handle /\ pc \in {"idle", "check"}
      BY <2>3 DEF WriteLine, ShouldRollover, SizeUnknown, SkipBackup, RotationStep, vars
    <3>2. QED
      BY <2>1, <3>1 DEF Serving
  <2>4. QED
    BY <1>1, <2>2, <2>3 DEF DirKept
<1>2. ASSUME NEW n \in Names, NameRemoved(n) PROVE FALSE
  BY <1>2 DEF NameRemoved, UnlinkBackup, UnlinkBeyond, UnlinkFirst
<1>3. ASSUME NEW n \in Names, NameMoved(n) PROVE FALSE
  BY <1>3 DEF NameMoved, ShiftBackup, RenameCurrent
<1>4. CASE BaseOpened
  <2>1. dir'[Base] = Opened /\ (Exists(Base) => dir' = dir)
    BY <1>4, OpenFacts DEF BaseOpened
  <2>2. CASE OpenFresh \/ RotationRaises \/ Restart
    <3>1. handle' = Opened \/ handle' = 0 \/ UNCHANGED diskVars
      BY <2>2 DEF OpenFresh, RotationRaises, Restart
    <3>2. handle' = Opened
      BY <2>2 DEF OpenFresh, RotationRaises, Restart
    <3>3. QED
      BY <2>1, <3>2
  <2>3. CASE OpenSpare
    <3>1. handle' = handle /\ pc' = pc
      BY <2>3 DEF OpenSpare
    <3>2. handle = dir[Base] /\ Exists(Base)
      BY <3>1 DEF Serving, Exists
    <3>3. QED
      BY <2>1, <3>1, <3>2
  <2>4. QED
    BY <1>4, <2>2, <2>3 DEF BaseOpened
<1>5. CASE BaseLeft
  BY <1>5 DEF BaseLeft
<1>6. QED
  BY <1>1, <1>2, <1>3, <1>4, <1>5, DirMoves

(* A write goes behind all that was written, in the newest file. *)
LEMMA WriteFacts ==
  ASSUME TypeInv, DirInv, Serving, WriteLine
  PROVE  /\ handle = created /\ handle = dir[Base] /\ handle \in 1..MaxFiles
         /\ stored' = stored + 1 /\ stored' \in 1..MaxStored
         /\ data' = [data EXCEPT ![handle] = Append(@, stored')]
         /\ data'[handle] = Append(data[handle], stored')
         /\ \A f \in 1..MaxFiles : f # handle => data'[f] = data[f]
         /\ UNCHANGED <<dir, created, keep, faults, strayed>> /\ pc = "idle" /\ pc' = "check"
<1>1. created \in Nat /\ created <= MaxFiles /\ handle \in 0..created
  BY DEF TypeInv, DirTypes
<1>2. handle # 0 /\ pc = "idle"
  BY DEF WriteLine
<1>3. handle = dir[Base] /\ handle = created
  BY <1>2 DEF Serving, DirInv, Newest
<1>4. handle \in 1..MaxFiles
  BY <1>1, <1>2, JsonlAssumption
<1>5. stored' = stored + 1 /\ stored' \in 1..MaxStored
  BY JsonlAssumption DEF WriteLine, TypeInv, DataTypes
<1>6. /\ data' = [data EXCEPT ![handle] = Append(@, stored')]
      /\ data \in [1..MaxFiles -> Seq(1..MaxStored)]
  BY DEF WriteLine, TypeInv, DataTypes
<1>7. /\ data'[handle] = Append(data[handle], stored')
      /\ \A f \in 1..MaxFiles : f # handle => data'[f] = data[f]
  BY <1>4, <1>6
<1>8. QED
  BY <1>2, <1>3, <1>4, <1>5, <1>6, <1>7 DEF WriteLine

LEMMA InOrderStep ==
  TypeInv /\ DirInv /\ Serving /\ InOrder /\ [Next]_vars => InOrder'
<1> SUFFICES ASSUME TypeInv, DirInv, Serving, InOrder, [Next]_vars PROVE InOrder'
  OBVIOUS
<1>1. CASE WriteLine
  <2>0. /\ handle = created /\ handle \in 1..MaxFiles
        /\ stored' = stored + 1 /\ stored' \in 1..MaxStored /\ stored \in Nat
        /\ data'[handle] = Append(data[handle], stored')
        /\ \A f \in 1..MaxFiles : f # handle => data'[f] = data[f]
    BY <1>1, WriteFacts DEF TypeInv, DataTypes
  <2>1. \A f \in 1..MaxFiles : /\ data[f] \in Seq(1..MaxStored)
                               /\ \A k \in DOMAIN data[f] : /\ data[f][k] \in Nat
                                                            /\ data[f][k] <= stored
                                                            /\ data[f][k] < stored'
    <3>1. \A f \in 1..MaxFiles : data[f] \in Seq(1..MaxStored)
      BY DEF TypeInv, DataTypes
    <3>2. \A f \in 1..MaxFiles : \A k \in DOMAIN data[f] : data[f][k] \in Nat
      <4> SUFFICES ASSUME NEW f \in 1..MaxFiles, NEW k \in DOMAIN data[f] PROVE data[f][k] \in Nat
        OBVIOUS
      <4>1. data[f] \in Seq(1..MaxStored)
        BY <3>1
      <4>2. data[f][k] \in 1..MaxStored
        BY <4>1, ItemTypes
      <4>3. QED
        BY <4>2, JsonlAssumption
    <3>3. \A f \in 1..MaxFiles : \A k \in DOMAIN data[f] : data[f][k] <= stored
      BY DEF InOrder
    <3>4. \A n \in Nat : n <= stored => n < stored'
      BY <2>0
    <3>5. QED
      BY <3>1, <3>2, <3>3, <3>4
  <2>2. ASSUME NEW f \in 1..MaxFiles
        PROVE  /\ Increasing(data'[f])
               /\ \A k \in DOMAIN data'[f] : data'[f][k] <= stored' /\ data'[f][k] \in Nat
    <3>1. CASE f = handle
      <4>1. /\ \A k \in DOMAIN data[f] : data'[f][k] = data[f][k] /\ k < Len(data[f]) + 1
            /\ data'[f][Len(data[f]) + 1] = stored' /\ Len(data[f]) \in Nat
            /\ \A k \in DOMAIN data'[f] : k \in DOMAIN data[f] \/ k = Len(data[f]) + 1
            /\ DOMAIN data[f] = 1..Len(data[f])
        <5>1. data[f] \in Seq(1..MaxStored) /\ data'[f] = Append(data[f], stored')
          BY <2>0, <2>1, <3>1
        <5>2. QED
          BY <2>0, <5>1, AppendItems
      <4>2. Increasing(data[f])
        BY DEF InOrder
      <4>3. Increasing(data'[f])
        <5> SUFFICES ASSUME NEW j \in DOMAIN data'[f], NEW k \in DOMAIN data'[f], j < k
                     PROVE  data'[f][j] < data'[f][k]
          BY DEF Increasing
        <5>1. j \in DOMAIN data[f]
          BY <4>1
        <5>2. CASE k \in DOMAIN data[f]
          BY <4>1, <4>2, <5>1, <5>2 DEF Increasing
        <5>3. CASE k = Len(data[f]) + 1
          BY <2>1, <4>1, <5>1, <5>3
        <5>4. QED
          BY <4>1, <5>2, <5>3
      <4>4. ASSUME NEW k \in DOMAIN data'[f] PROVE data'[f][k] <= stored' /\ data'[f][k] \in Nat
        <5>1. CASE k \in DOMAIN data[f]
          BY <2>0, <2>1, <4>1, <5>1
        <5>2. CASE k = Len(data[f]) + 1
          BY <2>0, <4>1, <5>2
        <5>3. QED
          BY <4>1, <5>1, <5>2
      <4>5. QED
        BY <4>3, <4>4
    <3>2. CASE f # handle
      BY <2>0, <2>1, <3>2 DEF InOrder
    <3>3. QED
      BY <3>1, <3>2
  <2>3. ASSUME NEW f \in 1..MaxFiles, NEW g \in 1..MaxFiles, f < g
        PROVE  Older(data'[f], data'[g])
    <3>1. Older(data[f], data[g])
      BY <2>3 DEF InOrder
    <3>2. CASE g = handle
      <4>1. /\ \A k \in DOMAIN data[g] : data'[g][k] = data[g][k]
            /\ data'[g][Len(data[g]) + 1] = stored'
            /\ \A k \in DOMAIN data'[g] : k \in DOMAIN data[g] \/ k = Len(data[g]) + 1
            /\ data'[f] = data[f]
        <5>1. /\ data[g] \in Seq(1..MaxStored) /\ stored' \in 1..MaxStored
              /\ data'[g] = Append(data[g], stored')
          BY <2>0, <2>1, <3>2
        <5>2. /\ \A k \in DOMAIN data[g] : Append(data[g], stored')[k] = data[g][k]
              /\ Append(data[g], stored')[Len(data[g]) + 1] = stored'
              /\ \A k \in DOMAIN Append(data[g], stored') : k \in DOMAIN data[g] \/ k = Len(data[g]) + 1
          BY <5>1, AppendItems
        <5>3. data'[f] = data[f]
          BY <2>0, <2>3, <3>2
        <5>4. QED
          BY <5>1, <5>2, <5>3
      <4>2. QED
        BY <2>1, <3>1, <4>1 DEF Older
    <3>3. CASE f = handle
      <4>1. data'[g] = data[g] /\ data[g] = <<>>
        BY <2>0, <2>3, <3>3 DEF TypeInv, DataTypes
      <4>2. QED
        BY <4>1 DEF Older
    <3>4. CASE f # handle /\ g # handle
      BY <2>0, <3>1, <3>4
    <3>5. QED
      BY <3>2, <3>3, <3>4
  <2>4. QED
    BY <2>2, <2>3 DEF InOrder
<1>2. CASE UNCHANGED <<data, stored>>
  BY <1>2 DEF InOrder
<1>3. QED
  BY <1>1, <1>2, DataMoves

LEMMA DataInvariant == Spec => [](TypeInv /\ DirInv /\ DataInv)
<1>1. TypeInv /\ DirInv /\ DataInv /\ [Next]_vars => DataInv'
  <2> SUFFICES ASSUME TypeInv, DirInv, DataInv, [Next]_vars, ~strayed'
               PROVE  Serving' /\ InOrder'
    BY DEF DataInv
  <2>1. Serving /\ InOrder
    BY StrayedStays DEF DataInv
  <2>2. QED
    BY <2>1, ServingStep, InOrderStep
<1>2. QED
  BY <1>1, DirInvariant, DataInit, PTL DEF Spec

(* Read from the highest name to the base, the files hold the events in    *)
(* the order they were written, whichever rotations failed or were cut     *)
(* short by the end of the process (jsonl.py, _do_rollover).                    *)
THEOREM OrderKept == Spec => []KeptInOrder
<1>1. TypeInv /\ DirInv /\ DataInv => KeptInOrder
  <2> SUFFICES ASSUME TypeInv, DirInv, DataInv, ~strayed PROVE KeptInOrder
    BY DEF KeptInOrder
  <2>0. /\ InOrder /\ MaxFiles \in Nat
        /\ \A n \in Names : Exists(n) => dir[n] \in 1..MaxFiles
    <3>1. dir \in [Names -> 0..created] /\ created \in 1..MaxFiles
      BY DEF TypeInv, DirTypes
    <3>2. QED
      BY <3>1, JsonlAssumption DEF DataInv, Exists
  <2>1. \A n \in Names : \A j, k \in DOMAIN Content(n) : j < k => Content(n)[j] < Content(n)[k]
    BY <2>0 DEF Content, InOrder, Increasing
  <2>2. ASSUME NEW m \in Names, NEW n \in Names, m < n, NEW e \in In(m), NEW f \in In(n)
        PROVE  f < e
    <3>1. Exists(m) /\ Exists(n)
      BY DEF In, Content
    <3>2. dir[n] < dir[m] /\ dir[n] \in 1..MaxFiles /\ dir[m] \in 1..MaxFiles
      BY <2>0, <2>2, <3>1 DEF DirInv, NamesInOrder
    <3>3. Older(data[dir[n]], data[dir[m]])
      BY <2>0, <3>2 DEF InOrder
    <3>4. QED
      BY <3>1, <3>3 DEF In, Content, Older
  <2>3. QED
    BY <2>1, <2>2 DEF KeptInOrder
<1>2. QED
  BY <1>1, DataInvariant, PTL
-----------------------------------------------------------------------------
(* Sizes.  A file takes an event only while the one under the base name is *)
(* below the limit, but for the rotations that failed or were cut short.   *)

FilesBounded == \A f \in 1..MaxFiles : Len(data[f]) <= MaxBytes + faults
BaseRoom ==
  /\ pc = "idle" /\ Exists(Base) => Len(data[dir[Base]]) < MaxBytes + faults
  /\ pc = "open" /\ Exists(Base) => data[dir[Base]] = <<>>

SizeInv == ~strayed => FilesBounded /\ BaseRoom

LEMMA SizeInit == Init => SizeInv
<1> SUFFICES ASSUME Init PROVE FilesBounded /\ BaseRoom
  BY DEF SizeInv
<1>1. PICK left \in {0} \cup {b + 1 : b \in BackupCounts} :
         /\ keep \in BackupCounts
         /\ dir = [n \in Names |-> IF n <= left THEN left + 1 - n ELSE 0]
         /\ data = [f \in 1..MaxFiles |->
                      IF f <= left THEN [k \in 1..MaxBytes |-> (f - 1) * MaxBytes + k] ELSE <<>>]
         /\ created = left + 1 /\ pc = "idle" /\ faults = 0
  BY DEF Init
<1>2. /\ left \in Nat /\ MaxBytes \in Nat /\ MaxBytes > 0 /\ Base \in Names /\ Base = 0
      /\ left + 1 \in 1..MaxFiles
  BY <1>1, TypeInit, NamesFacts, JsonlAssumption DEF Base, TypeInv, DirTypes
<1>3. ASSUME NEW f \in 1..MaxFiles PROVE Len(data[f]) <= MaxBytes
  <2>1. CASE f <= left
    <3>1. data[f] = [k \in 1..MaxBytes |-> (f - 1) * MaxBytes + k]
      BY <1>1, <2>1
    <3>2. QED
      BY <1>2, <3>1
  <2>2. CASE ~(f <= left)
    BY <1>1, <1>2, <2>2
  <2>3. QED
    BY <2>1, <2>2
<1>4. data[dir[Base]] = <<>>
  BY <1>1, <1>2
<1>5. QED
  BY <1>1, <1>2, <1>3, <1>4 DEF FilesBounded, BaseRoom

LEMMA FaultsGrow == TypeInv /\ [Next]_vars => faults' \in Nat /\ faults <= faults'
<1> SUFFICES ASSUME TypeInv, [Next]_vars PROVE faults' \in Nat /\ faults <= faults'
  OBVIOUS
<1>1. faults \in Nat
  BY JsonlAssumption DEF TypeInv, ControlTypes
<1>2. CASE RotationRaises \/ SizeUnknown \/ Restart
  BY <1>1, <1>2 DEF RotationRaises, SizeUnknown, Restart
<1>3. CASE faults' = faults
  BY <1>1, <1>3
<1>4. QED
  BY <1>2, <1>3, NextCases DEF WriteLine, ShouldRollover, SkipBackup, UnlinkBackup, ShiftBackup,
     UnlinkBeyond, UnlinkFirst, RenameCurrent, OpenFresh, OpenSpare, TakeOver, RotationStep, vars

LEMMA SizeStep ==
  TypeInv /\ DirInv /\ Serving /\ FilesBounded /\ BaseRoom /\ [Next]_vars
    => FilesBounded' /\ BaseRoom'
<1> SUFFICES ASSUME TypeInv, DirInv, Serving, FilesBounded, BaseRoom, [Next]_vars
             PROVE  FilesBounded' /\ BaseRoom'
  OBVIOUS
<1>0. /\ MaxBytes \in Nat /\ MaxBytes > 0 /\ MaxFiles \in Nat /\ faults \in Nat
      /\ faults' \in Nat /\ faults <= faults' /\ Base \in Names /\ Base = 0
      /\ created \in 1..MaxFiles /\ dir \in [Names -> 0..created]
      /\ \A f \in 1..MaxFiles : Len(data[f]) \in Nat /\ Len(data[f]) <= MaxBytes + faults
      /\ \A f \in 1..MaxFiles : f > created => data[f] = <<>>
  <2>1. \A f \in 1..MaxFiles : Len(data[f]) \in Nat
    BY DEF TypeInv, DataTypes
  <2>2. QED
    BY <2>1, FaultsGrow, NamesFacts, JsonlAssumption
       DEF TypeInv, DirTypes, DataTypes, ControlTypes, FilesBounded, Base
<1>1. CASE WriteLine
  <2>1. /\ handle = dir[Base] /\ handle \in 1..MaxFiles /\ stored' \in 1..MaxStored
        /\ data'[handle] = Append(data[handle], stored')
        /\ \A f \in 1..MaxFiles : f # handle => data'[f] = data[f]
        /\ faults' = faults /\ pc = "idle" /\ pc' = "check"
    BY <1>1, WriteFacts DEF WriteLine
  <2>2. data[handle] \in Seq(1..MaxStored)
    BY <2>1 DEF TypeInv, DataTypes
  <2>3. Len(data'[handle]) = Len(data[handle]) + 1
    BY <2>1, <2>2, AppendItems
  <2>4. Len(data[handle]) < MaxBytes + faults
    BY <1>0, <2>1 DEF BaseRoom, Exists
  <2>5. Len(data'[handle]) <= MaxBytes + faults
    BY <1>0, <2>1, <2>3, <2>4
  <2>6. FilesBounded'
    BY <1>0, <2>1, <2>5 DEF FilesBounded
  <2>7. BaseRoom'
    BY <2>1 DEF BaseRoom
  <2>8. QED
    BY <2>6, <2>7
<1>2. CASE UNCHANGED <<data, stored>> /\ ~WriteLine
  <2>1. FilesBounded'
    BY <1>0, <1>2 DEF FilesBounded
  <2> SUFFICES BaseRoom'
    BY <2>1
  <2>2. CASE BaseOpened
    <3>1. CASE Exists(Base)
      <4>1. dir' = dir /\ dir[Base] \in 1..MaxFiles
        BY <1>0, <2>2, <3>1, OpenFacts DEF BaseOpened, Exists
      <4>2. CASE OpenFresh
        BY <1>0, <1>2, <3>1, <4>1, <4>2 DEF OpenFresh, BaseRoom
      <4>3. CASE RotationRaises \/ Restart
        <5>1. faults' = faults + 1 /\ pc' = "idle"
          BY <4>3 DEF RotationRaises, Restart
        <5>2. QED
          BY <1>0, <1>2, <4>1, <5>1 DEF BaseRoom
      <4>4. CASE OpenSpare
        BY <1>2, <4>1, <4>4 DEF OpenSpare, BaseRoom, Exists
      <4>5. QED
        BY <2>2, <4>2, <4>3, <4>4 DEF BaseOpened
    <3>2. CASE ~Exists(Base)
      <4>1. dir'[Base] = created + 1 /\ created + 1 \in 1..MaxFiles
        BY <1>0, <2>2, <3>2, OpenFacts DEF BaseOpened
      <4>2. data'[dir'[Base]] = <<>>
        BY <1>0, <1>2, <4>1
      <4>3. Len(data'[dir'[Base]]) = 0
        BY <4>2
      <4>4. 0 < MaxBytes + faults'
        <5>1. MaxBytes \in Nat \ {0} /\ faults' \in Nat
          BY FaultsGrow, JsonlAssumption
        <5>2. \A a, b \in Nat : b # 0 => 0 < b + a
          OBVIOUS
        <5>3. QED
          BY <5>1, <5>2
      <4>5. QED
        BY <4>2, <4>3, <4>4 DEF BaseRoom
    <3>3. QED
      BY <3>1, <3>2
  <2>3. CASE BaseLeft
    <3>1. faults' = faults + 1 /\ pc' = "idle" /\ dir' = dir
      BY <2>3 DEF BaseLeft, RotationRaises, diskVars
    <3>2. QED
      BY <1>0, <1>2, <3>1 DEF BaseRoom, Exists
  <2>4. CASE DirKept
    <3>1. dir' = dir /\ data' = data
      BY <1>2, <2>4 DEF DirKept
    <3>2. CASE ShouldRollover
      BY <1>0, <3>1, <3>2 DEF ShouldRollover, BaseRoom, Exists
    <3>3. CASE SkipBackup
      BY <3>3 DEF SkipBackup, BaseRoom
    <3>4. CASE TakeOver \/ UNCHANGED vars
      <4>1. pc' = pc /\ faults' = faults
        BY <3>4 DEF TakeOver, vars
      <4>2. QED
        BY <3>1, <4>1 DEF BaseRoom, Exists
    <3>5. CASE SizeUnknown
      <4>1. faults' = faults + 1 /\ pc' = "idle"
        BY <3>5 DEF SizeUnknown
      <4>2. dir[Base] # 0 => Len(data[dir[Base]]) <= MaxBytes + faults
        BY <1>0
      <4>3. QED
        BY <1>0, <3>1, <4>1, <4>2 DEF BaseRoom, Exists
    <3>6. QED
      BY <1>2, <2>4, <3>2, <3>3, <3>4, <3>5 DEF DirKept
  <2>5. ASSUME NEW n \in Names, NameRemoved(n) PROVE BaseRoom'
    <3>1. pc' \in {"shift", "current"}
      BY <2>5 DEF NameRemoved, UnlinkBackup, UnlinkBeyond, UnlinkFirst
    <3>2. QED
      BY <3>1 DEF BaseRoom
  <2>6. ASSUME NEW n \in Names, NameMoved(n) PROVE BaseRoom'
    <3>1. CASE ShiftBackup
      BY <3>1 DEF ShiftBackup, BaseRoom
    <3>2. CASE RenameCurrent /\ n = Base
      <4>1. pc' = "open" /\ dir' = [dir EXCEPT ![n + 1] = dir[n], ![n] = 0]
        BY <2>6, <3>2 DEF NameMoved, Renames, Rename, RenameCurrent
      <4>2. dir'[Base] = 0
        BY <1>0, <3>2, <4>1
      <4>3. QED
        BY <4>1, <4>2 DEF BaseRoom, Exists
    <3>3. QED
      BY <2>6, <3>1, <3>2 DEF NameMoved
  <2>7. QED
    BY <2>2, <2>3, <2>4, <2>5, <2>6, DirMoves
<1>3. QED
  BY <1>1, <1>2, DataMoves

LEMMA SizeInvariant == Spec => [](TypeInv /\ DirInv /\ DataInv /\ SizeInv)
<1>1. TypeInv /\ DirInv /\ DataInv /\ SizeInv /\ [Next]_vars => SizeInv'
  BY SizeStep, StrayedStays DEF SizeInv, DataInv
<1>2. QED
  BY <1>1, DataInvariant, SizeInit, PTL DEF Spec

(* A file exceeds max_bytes by no more than the event that reached it and  *)
(* one more for each rotation that failed or was cut short, for every      *)
(* max_bytes and any number of failures (jsonl.py, write and _rotate).     *)
THEOREM FilesStayBounded == Spec => []SizeBounded
<1>1. TypeInv /\ SizeInv => SizeBounded
  <2> SUFFICES ASSUME TypeInv, SizeInv, ~strayed, NEW n \in Names
               PROVE  Len(Content(n)) <= MaxBytes + faults
    BY DEF SizeBounded
  <2>1. MaxBytes \in Nat /\ faults \in Nat /\ MaxFiles \in Nat
    BY JsonlAssumption DEF TypeInv, ControlTypes
  <2>2. CASE Exists(n)
    <3>1. dir[n] \in 1..MaxFiles
      BY <2>1, <2>2 DEF TypeInv, DirTypes, Exists
    <3>2. QED
      BY <2>2, <3>1 DEF SizeInv, FilesBounded, Content
  <2>3. CASE ~Exists(n)
    BY <2>1, <2>3 DEF Content
  <2>4. QED
    BY <2>2, <2>3
<1>2. QED
  BY <1>1, SizeInvariant, PTL
-----------------------------------------------------------------------------
(* Oldest first.  Where the base or one of its backup_count backups holds  *)
(* an event, every later one is on disk.                                   *)

Holds(n, e) == Exists(n) /\ \E k \in DOMAIN data[dir[n]] : data[dir[n]][k] = e
Found(e) == \E m \in Names : Holds(m, e)
LaterKept == \A n \in 0..keep : \A e \in 1..MaxStored : Holds(n, e) => \A f \in e..stored : Found(f)

LaterInv == ~strayed => LaterKept
NothingGone == \A e \in 1..stored : Found(e)

LEMMA NothingGoneYet == Init => NothingGone
<1> SUFFICES ASSUME Init, NEW e \in 1..stored PROVE Found(e)
  BY DEF NothingGone
<1>1. PICK left \in {0} \cup {b + 1 : b \in BackupCounts} :
         /\ keep \in BackupCounts
         /\ dir = [n \in Names |-> IF n <= left THEN left + 1 - n ELSE 0]
         /\ data = [f \in 1..MaxFiles |->
                      IF f <= left THEN [k \in 1..MaxBytes |-> (f - 1) * MaxBytes + k] ELSE <<>>]
         /\ created = left + 1 /\ stored = left * MaxBytes
  BY DEF Init
<1>2. /\ left \in Nat /\ MaxBytes \in Nat \ {0} /\ e - 1 \in Nat /\ left + 1 \in 1..MaxFiles
      /\ \A n \in 0..left : n \in Names
  <2>1. MaxBytes \in Nat \ {0} /\ left \in Nat
    BY <1>1, JsonlAssumption
  <2>2. left + 1 \in 1..MaxFiles
    BY <1>1, TypeInit DEF TypeInv, DirTypes
  <2>3. \A n \in 0..left : n \in Names
    <3>1. CASE left = 0
      BY <1>1, <3>1, NamesFacts DEF Base
    <3>2. ASSUME NEW b \in BackupCounts, left = b + 1 PROVE \A n \in 0..left : n \in Names
      BY <3>2, NamesFacts
    <3>3. QED
      BY <1>1, <3>1, <3>2
  <2>4. QED
    BY <2>1, <2>2, <2>3
<1>3. PICK g \in Nat, r \in 0..MaxBytes - 1 : e - 1 = g * MaxBytes + r
  <2>1. /\ e - 1 = ((e - 1) \div MaxBytes) * MaxBytes + ((e - 1) % MaxBytes)
        /\ (e - 1) \div MaxBytes \in Nat /\ (e - 1) % MaxBytes \in 0..MaxBytes - 1
    BY <1>2
  <2>2. QED
    BY <2>1
<1>4. g < left
  <2> SUFFICES ASSUME left <= g PROVE FALSE
    BY <1>2
  <2>1. PICK a \in Nat, c \in Nat : a = left * MaxBytes /\ c = g * MaxBytes
    BY <1>2
  <2>2. a <= c
    <3>1. CASE left = g
      BY <2>1, <3>1
    <3>2. CASE left < g
      <4>1. left * MaxBytes + MaxBytes <= g * MaxBytes
        BY <1>2, <3>2, FirstFiles
      <4>2. QED
        BY <1>2, <2>1, <4>1
    <3>3. QED
      BY <1>2, <3>1, <3>2
  <2>3. e <= a /\ e - 1 = c + r
    BY <1>1, <1>3, <2>1
  <2>4. QED
    BY <1>2, <2>2, <2>3
<1>5. left - g \in Names /\ dir[left - g] = g + 1 /\ g + 1 \in 1..MaxFiles /\ g + 1 <= left
  <2>1. left - g \in 0..left /\ left - (left - g) = g /\ g + 1 <= left
    BY <1>2, <1>4
  <2>2. g + 1 \in 1..MaxFiles
    BY <1>2, <2>1, JsonlAssumption
  <2>3. left - g \in Names
    BY <1>2, <2>1
  <2>4. dir[left - g] = left + 1 - (left - g)
    BY <1>1, <2>1, <2>3
  <2>5. QED
    BY <1>2, <2>1, <2>2, <2>3, <2>4
<1>6. r + 1 \in 1..MaxBytes
  BY <1>2
<1>7. /\ DOMAIN data[g + 1] = 1..MaxBytes
      /\ data[g + 1][r + 1] = (g + 1 - 1) * MaxBytes + (r + 1)
  BY <1>1, <1>5, <1>6
<1>8. data[g + 1][r + 1] = e
  <2>1. PICK c \in Nat : c = g * MaxBytes
    BY <1>2
  <2>2. g + 1 - 1 = g
    OBVIOUS
  <2>3. data[g + 1][r + 1] = c + (r + 1) /\ e - 1 = c + r
    BY <1>3, <1>7, <2>1, <2>2
  <2>4. QED
    BY <2>3
<1>9. Holds(left - g, e)
  BY <1>5, <1>6, <1>7, <1>8 DEF Holds, Exists
<1>10. QED
  BY <1>5, <1>9 DEF Found

LEMMA LaterInit == Init => LaterInv
<1> SUFFICES ASSUME Init, NEW e \in 1..MaxStored, NEW f \in e..stored PROVE Found(f)
  BY DEF LaterInv, LaterKept
<1>1. f \in 1..stored
  OBVIOUS
<1>2. QED
  BY <1>1, NothingGoneYet DEF NothingGone

(* What a rotation deletes is the oldest file there is. *)
LEMMA RemovedOldest ==
  ASSUME TypeInv, DirInv, NEW n \in Names, NameRemoved(n), NEW m \in 0..keep, Exists(m), m # n
  PROVE  m < n
<1>0. keep \in Nat /\ slot \in Nat /\ Names \subseteq Nat /\ m \in Nat /\ n \in Nat /\ m <= keep
  BY NamesFacts DEF TypeInv, ControlTypes, SlotTypes
<1>1. CASE UnlinkBackup /\ n = slot + 1
  <2>1. pc = "shift" /\ slot > 0 /\ Exists(slot + 1)
    BY <1>1 DEF UnlinkBackup
  <2>2. slot < keep /\ ~(slot + 1 < keep)
    BY <1>0, <2>1 DEF TypeInv, SlotTypes, DirInv, Shifting
  <2>3. QED
    BY <1>0, <1>1, <2>2
<1>2. CASE UnlinkBeyond /\ n = keep + 1
  BY <1>0, <1>2
<1>3. CASE UnlinkFirst /\ n = 1
  <2>1. ~(keep > 1)
    BY <1>3 DEF UnlinkFirst, DirInv, Shifting
  <2>2. QED
    BY <1>0, <1>3, <2>1
<1>4. QED
  BY <1>1, <1>2, <1>3 DEF NameRemoved

LEMMA KeepKept == ASSUME [Next]_vars PROVE keep' = keep
  BY NextCases DEF WriteLine, ShouldRollover, SizeUnknown, SkipBackup, UnlinkBackup, ShiftBackup,
     UnlinkBeyond,
     UnlinkFirst, RenameCurrent, OpenFresh, RotationRaises, Restart, OpenSpare, TakeOver,
     RotationStep, vars

(* A write is found; nothing else but a deletion changes what is. *)
LEMMA WriteHolds ==
  ASSUME TypeInv, DirInv, Serving, WriteLine
  PROVE  /\ stored' = stored + 1 /\ \A e : e = stored' => Found(e)'
         /\ \A m \in Names : \A e : Holds(m, e) => Holds(m, e)'
         /\ \A m \in Names : \A e : Holds(m, e)' => Holds(m, e) \/ e = stored'
<1>0. /\ handle = dir[Base] /\ handle \in 1..MaxFiles
      /\ stored' = stored + 1 /\ stored' \in 1..MaxStored
      /\ data'[handle] = Append(data[handle], stored')
      /\ \A f \in 1..MaxFiles : f # handle => data'[f] = data[f]
      /\ dir' = dir /\ Base \in Names /\ MaxFiles \in Nat
      /\ \A m \in Names : Exists(m) => dir[m] \in 1..MaxFiles
  <2>1. \A m \in Names : Exists(m) => dir[m] \in 1..MaxFiles
    <3>1. dir \in [Names -> 0..created] /\ created \in 1..MaxFiles
      BY DEF TypeInv, DirTypes
    <3>2. QED
      BY <3>1, JsonlAssumption DEF Exists
  <2>2. QED
    BY <2>1, WriteFacts, NamesFacts, JsonlAssumption DEF TypeInv, ControlTypes
<1>1. data[handle] \in Seq(1..MaxStored)
  BY <1>0 DEF TypeInv, DataTypes
<1>2. /\ \A k \in DOMAIN data[handle] : k \in DOMAIN data'[handle] /\ data'[handle][k] = data[handle][k]
      /\ Len(data[handle]) + 1 \in DOMAIN data'[handle]
      /\ data'[handle][Len(data[handle]) + 1] = stored'
      /\ \A k \in DOMAIN data'[handle] : k \in DOMAIN data[handle] \/ k = Len(data[handle]) + 1
  <2>1. stored' \in 1..MaxStored /\ data'[handle] = Append(data[handle], stored')
    BY <1>0
  <2>2. /\ DOMAIN data[handle] = 1..Len(data[handle]) /\ Len(data[handle]) \in Nat
        /\ DOMAIN Append(data[handle], stored') = 1..Len(data[handle]) + 1
        /\ \A k \in DOMAIN data[handle] : Append(data[handle], stored')[k] = data[handle][k]
        /\ Append(data[handle], stored')[Len(data[handle]) + 1] = stored'
        /\ \A k \in DOMAIN Append(data[handle], stored') :
             k \in DOMAIN data[handle] \/ k = Len(data[handle]) + 1
    BY <1>1, <2>1, AppendItems
  <2>3. DOMAIN data[handle] \subseteq DOMAIN Append(data[handle], stored')
    BY <2>2
  <2>4. Len(data[handle]) + 1 \in DOMAIN Append(data[handle], stored')
    BY <2>2
  <2>5. QED
    BY <2>1, <2>2, <2>3, <2>4
<1>3. ASSUME NEW e, e = stored' PROVE Holds(Base, e)'
  BY <1>0, <1>2, <1>3 DEF Holds, Exists
<1>4. ASSUME NEW m \in Names, NEW e, Holds(m, e) PROVE Holds(m, e)'
  BY <1>0, <1>2, <1>4 DEF Holds, Exists
<1>5. ASSUME NEW m \in Names, NEW e, Holds(m, e)' PROVE Holds(m, e) \/ e = stored'
  BY <1>0, <1>2, <1>5 DEF Holds, Exists
<1>6. QED
  BY <1>0, <1>3, <1>4, <1>5 DEF Found

LEMMA StillFound ==
  ASSUME TypeInv, DirInv, Serving, [Next]_vars, \A n \in Names : ~NameRemoved(n), NEW e, Found(e)
  PROVE  Found(e)'
<1>0. PICK m \in Names : Holds(m, e)
  BY DEF Found
<1>1. CASE WriteLine
  BY <1>0, <1>1, WriteHolds DEF Found
<1>2. CASE UNCHANGED <<data, stored>>
  <2>1. CASE DirKept \/ BaseLeft
    BY <1>0, <1>2, <2>1 DEF DirKept, BaseLeft, diskVars, Found, Holds, Exists
  <2>2. ASSUME NEW n \in Names, NameMoved(n) PROVE Found(e)'
    <3>1. /\ dir' = [dir EXCEPT ![n + 1] = dir[n], ![n] = 0] /\ dir \in [Names -> 0..created]
          /\ n + 1 \in Names /\ ~Exists(n + 1) /\ n \in Nat
      BY <2>2, NamesFacts DEF NameMoved, Renames, Rename, TypeInv, DirTypes, ControlTypes
    <3>2. CASE m = n
      <4>1. dir'[n + 1] = dir[m]
        BY <3>1, <3>2
      <4>2. QED
        BY <1>0, <1>2, <3>1, <4>1 DEF Found, Holds, Exists
    <3>3. CASE m # n
      <4>1. m # n + 1
        BY <1>0, <3>1 DEF Holds
      <4>2. dir'[m] = dir[m]
        BY <3>1, <3>3, <4>1
      <4>3. QED
        BY <1>0, <1>2, <4>2 DEF Found, Holds, Exists
    <3>4. QED
      BY <3>2, <3>3
  <2>3. CASE BaseOpened
    <3>1. dir'[m] = dir[m]
      <4>1. Base \in Names /\ dir \in [Names -> 0..created]
        BY NamesFacts DEF TypeInv, DirTypes, ControlTypes
      <4>2. Exists(Base) \/ m # Base
        BY <1>0 DEF Holds
      <4>3. QED
        BY <2>3, <4>1, <4>2, OpenFacts DEF BaseOpened
    <3>2. QED
      BY <1>0, <1>2, <3>1 DEF Found, Holds, Exists
  <2>4. QED
    BY <2>1, <2>2, <2>3, DirMoves
<1>3. QED
  BY <1>1, <1>2, DataMoves

(* A backup within backup_count holds nothing that was not there before.   *)
LEMMA HeldBefore ==
  ASSUME TypeInv, DirInv, Serving, [Next]_vars, NEW n \in 0..keep, NEW e, Holds(n, e)', ~WriteLine
  PROVE  \E m \in 0..keep : Holds(m, e)
<1>0. /\ data' = data /\ keep \in Nat /\ n \in Names /\ Base \in Names /\ Base = 0
      /\ dir \in [Names -> 0..created] /\ created \in Nat /\ Names \subseteq Nat
      /\ created \in 1..MaxFiles /\ MaxFiles \in Nat
  BY DataMoves, NamesFacts, JsonlAssumption DEF TypeInv, ControlTypes, DirTypes, Base
<1>1. CASE dir'[n] = dir[n]
  BY <1>0, <1>1 DEF Holds, Exists
<1>2. CASE DirKept \/ BaseLeft
  BY <1>0, <1>1, <1>2 DEF DirKept, BaseLeft, diskVars
<1>3. ASSUME NEW i \in Names, NameRemoved(i) PROVE dir'[n] = dir[n]
  BY <1>0, <1>3 DEF NameRemoved, Unlinks, Unlink, Holds, Exists
<1>4. ASSUME NEW i \in Names, NameMoved(i) PROVE \E m \in 0..keep : Holds(m, e)
  <2>1. /\ dir' = [dir EXCEPT ![i + 1] = dir[i], ![i] = 0] /\ i + 1 \in Names /\ i \in Nat
    BY <1>0, <1>4 DEF NameMoved, Renames, Rename
  <2>2. n # i
    BY <1>0, <2>1 DEF Holds, Exists
  <2>3. CASE n = i + 1
    <3>1. dir'[n] = dir[i] /\ i \in 0..keep
      BY <1>0, <2>1, <2>3
    <3>2. QED
      BY <1>0, <3>1 DEF Holds, Exists
  <2>4. CASE n # i + 1
    BY <1>0, <1>1, <2>1, <2>2, <2>4
  <2>5. QED
    BY <2>3, <2>4
<1>5. CASE BaseOpened
  <2>1. CASE Exists(Base) \/ n # Base
    BY <1>0, <1>1, <1>5, <2>1, OpenFacts DEF BaseOpened
  <2>2. CASE ~Exists(Base) /\ n = Base
    <3>1. dir'[n] = created + 1 /\ created + 1 \in 1..MaxFiles
      BY <1>0, <1>5, <2>2, OpenFacts DEF BaseOpened
    <3>2. data[dir'[n]] = <<>>
      BY <1>0, <3>1 DEF TypeInv, DataTypes
    <3>3. QED
      BY <1>0, <3>2 DEF Holds
  <2>3. QED
    BY <2>1, <2>2
<1>6. QED
  BY <1>1, <1>2, <1>3, <1>4, <1>5, DirMoves

LEMMA LaterStep ==
  TypeInv /\ DirInv /\ Serving /\ InOrder /\ LaterKept /\ [Next]_vars => LaterKept'
<1> SUFFICES ASSUME TypeInv, DirInv, Serving, InOrder, LaterKept, [Next]_vars PROVE LaterKept'
  OBVIOUS
<1> SUFFICES ASSUME NEW n \in 0..keep, NEW e \in 1..MaxStored, Holds(n, e)', NEW f \in e..stored'
             PROVE  Found(f)'
  BY KeepKept DEF LaterKept
<1>0. /\ keep \in Nat /\ n \in Names /\ Names \subseteq Nat /\ stored \in Nat
      /\ dir \in [Names -> 0..created] /\ created \in 1..MaxFiles /\ MaxFiles \in Nat
  <2>1. keep \in BackupCounts /\ stored \in Nat
    BY JsonlAssumption DEF TypeInv, ControlTypes, DataTypes
  <2>2. Names \subseteq Nat /\ keep \in Nat /\ \A m \in 0..keep + 1 : m \in Names
    BY <2>1, NamesFacts
  <2>3. n \in Names
    BY <2>2
  <2>4. QED
    BY <2>1, <2>2, <2>3, JsonlAssumption DEF TypeInv, DirTypes
<1>1. CASE WriteLine
  <2>1. stored' = stored + 1 /\ (f = stored' => Found(f)') /\ (Holds(n, e) \/ e = stored')
    BY <1>0, <1>1, WriteHolds
  <2>2. CASE f = stored'
    BY <2>1, <2>2
  <2>3. CASE f # stored'
    <3>1. Holds(n, e) /\ f \in e..stored
      BY <1>0, <2>1, <2>3
    <3>2. Found(f)
      BY <3>1 DEF LaterKept
    <3>3. QED
      BY <1>1, <3>2, WriteHolds DEF Found
  <2>4. QED
    BY <2>2, <2>3
<1>2. CASE ~WriteLine
  <2>1. PICK m \in 0..keep : Holds(m, e)
    BY <1>2, HeldBefore
  <2>2. Found(f)
    BY <1>2, <2>1, DataMoves DEF LaterKept
  <2>3. CASE \A i \in Names : ~NameRemoved(i)
    BY <2>2, <2>3, StillFound
  <2>4. ASSUME NEW i \in Names, NameRemoved(i) PROVE Found(f)'
    <3>1. dir' = [dir EXCEPT ![i] = 0] /\ data' = data
      BY <1>2, <2>4, DataMoves DEF NameRemoved, Unlinks, Unlink
    <3>2. n # i /\ dir'[n] = dir[n]
      BY <1>0, <3>1 DEF Holds, Exists
    <3>3. Holds(n, e)
      BY <3>1, <3>2 DEF Holds, Exists
    <3>4. n < i
      BY <2>4, <3>2, <3>3, RemovedOldest DEF Holds
    <3>5. PICK j \in Names : Holds(j, f)
      BY <2>2 DEF Found
    <3>6. j # i
      <4> SUFFICES ASSUME j = i PROVE FALSE
        OBVIOUS
      <4>1. dir[j] < dir[n] /\ dir[j] \in 1..MaxFiles /\ dir[n] \in 1..MaxFiles
        BY <1>0, <3>3, <3>4, <3>5 DEF Holds, Exists, DirInv, NamesInOrder
      <4>2. Older(data[dir[j]], data[dir[n]])
        BY <4>1 DEF InOrder
      <4>3. f < e
        BY <3>3, <3>5, <4>2 DEF Holds, Older
      <4>4. QED
        BY <4>3
    <3>7. dir'[j] = dir[j]
      BY <1>0, <3>1, <3>6
    <3>8. QED
      BY <3>1, <3>5, <3>7 DEF Found, Holds, Exists
  <2>5. QED
    BY <2>3, <2>4
<1>3. QED
  BY <1>1, <1>2

LEMMA LaterInvariant == Spec => [](TypeInv /\ DirInv /\ DataInv /\ LaterInv)
<1>1. TypeInv /\ DirInv /\ DataInv /\ LaterInv /\ [Next]_vars => LaterInv'
  BY LaterStep, StrayedStays DEF LaterInv, DataInv
<1>2. QED
  BY <1>1, DataInvariant, LaterInit, PTL DEF Spec

(* Rotation gives up the oldest events only: between any two file-system   *)
(* calls, failed and interrupted rotations included, what the base and its *)
(* backup_count backups hold is followed by all that was written later.    *)
THEOREM OldestGoFirst == Spec => []OnlyOldestGoes
<1>1. TypeInv /\ LaterInv => OnlyOldestGoes
  <2> SUFFICES ASSUME TypeInv, LaterKept, NEW n \in 0..keep, NEW e \in In(n), NEW f \in e..stored
               PROVE  f \in OnDisk
    BY DEF LaterInv, OnlyOldestGoes
  <2>1. n \in Names /\ dir \in [Names -> 0..created] /\ created \in 1..MaxFiles /\ MaxFiles \in Nat
    BY NamesFacts, JsonlAssumption DEF TypeInv, ControlTypes, DirTypes
  <2>2. Holds(n, e)
    BY DEF In, Content, Holds
  <2>3. e \in 1..MaxStored
    <3>1. dir[n] \in 1..MaxFiles
      BY <2>1, <2>2 DEF Holds, Exists
    <3>2. data[dir[n]] \in Seq(1..MaxStored)
      BY <3>1 DEF TypeInv, DataTypes
    <3>3. QED
      BY <2>2, <3>2, ItemTypes DEF Holds
  <2>4. PICK m \in Names : Holds(m, f)
    BY <2>2, <2>3 DEF LaterKept, Found
  <2>5. f \in In(m)
    BY <2>4 DEF Holds, In, Content
  <2>6. QED
    BY <2>4, <2>5 DEF OnDisk
<1>2. QED
  BY <1>1, LaterInvariant, PTL
-----------------------------------------------------------------------------
(* Retention.  The place a rotation has just freed is filled by its next   *)
(* rename; any other name missing below a backup that exists was left by a *)
(* fault.  Once something was deleted, no more than those are missing.     *)

FreePlace(n) == (pc = "shift" /\ n = slot + 1) \/ (pc = "current" /\ n = 1)
Holes(h) == {n \in 1..h : ~Exists(n) /\ ~FreePlace(n)}
HolesByFault == \A h \in 1..keep + 1 : Exists(h) => Cardinality(Holes(h)) <= faults
FullBackups ==
  /\ \A n \in Names \ {Base} : Exists(n) => Len(data[dir[n]]) >= MaxBytes
  /\ pc \in {"shift", "current"} => Len(data[dir[Base]]) >= MaxBytes
Missing == NothingGone \/ Cardinality(Holes(keep)) <= faults

RetainInv == ~strayed => FullBackups /\ HolesByFault /\ Missing

LEMMA FewerNames ==
  ASSUME NEW h \in Nat, NEW S \in SUBSET (1..h), NEW T, NEW x
  PROVE  /\ IsFiniteSet(S) /\ Cardinality(S) \in Nat
         /\ T \subseteq S => Cardinality(T) \in Nat /\ Cardinality(T) <= Cardinality(S)
         /\ T \subseteq S \cup {x} => Cardinality(T) \in Nat /\ Cardinality(T) <= Cardinality(S) + 1
<1>1. IsFiniteSet(1..h)
  BY FS_Interval
<1>2. IsFiniteSet(S) /\ Cardinality(S) \in Nat
  BY <1>1, FS_Subset, FS_CardinalityType
<1>3. T \subseteq S => Cardinality(T) \in Nat /\ Cardinality(T) <= Cardinality(S)
  BY <1>2, FS_Subset, FS_CardinalityType
<1>4. /\ IsFiniteSet(S \cup {x}) /\ Cardinality(S \cup {x}) \in Nat
      /\ Cardinality(S \cup {x}) <= Cardinality(S) + 1
  <2>1. CASE x \in S
    <3>1. S \cup {x} = S
      BY <2>1
    <3>2. QED
      BY <1>2, <3>1
  <2>2. CASE x \notin S
    <3>1. IsFiniteSet(S \cup {x}) /\ Cardinality(S \cup {x}) = Cardinality(S) + 1
      BY <1>2, <2>2, FS_AddElement
    <3>2. QED
      BY <1>2, <3>1
  <2>3. QED
    BY <2>1, <2>2
<1>5. ASSUME T \subseteq S \cup {x}
      PROVE  Cardinality(T) \in Nat /\ Cardinality(T) <= Cardinality(S) + 1
  <2>1. IsFiniteSet(T) /\ Cardinality(T) <= Cardinality(S \cup {x})
    BY <1>4, <1>5, FS_Subset
  <2>2. Cardinality(T) \in Nat
    BY <2>1, FS_CardinalityType
  <2>3. QED
    BY <1>2, <1>4, <2>1, <2>2
<1>6. QED
  BY <1>2, <1>3, <1>5

(* One name for another. *)
LEMMA NamesSwapped ==
  ASSUME NEW h \in Nat, NEW S \in SUBSET (1..h), NEW T, NEW x \in S, NEW y,
         T \subseteq (S \ {x}) \cup {y}
  PROVE  Cardinality(T) \in Nat /\ Cardinality(T) <= Cardinality(S)
<1>1. IsFiniteSet(S) /\ Cardinality(S) \in Nat
  BY FewerNames
<1>2. Cardinality(S \ {x}) = Cardinality(S) - 1
  BY <1>1, FS_RemoveElement
<1>3. Cardinality(T) \in Nat /\ Cardinality(T) <= Cardinality(S \ {x}) + 1
  BY FewerNames
<1>4. QED
  BY <1>1, <1>2, <1>3

LEMMA RetainInit == Init => RetainInv
<1> SUFFICES ASSUME Init PROVE FullBackups /\ HolesByFault /\ Missing
  BY DEF RetainInv
<1>1. PICK left \in {0} \cup {b + 1 : b \in BackupCounts} :
         /\ keep \in BackupCounts
         /\ dir = [n \in Names |-> IF n <= left THEN left + 1 - n ELSE 0]
         /\ data = [f \in 1..MaxFiles |->
                      IF f <= left THEN [k \in 1..MaxBytes |-> (f - 1) * MaxBytes + k] ELSE <<>>]
         /\ created = left + 1 /\ pc = "idle" /\ faults = 0
  BY DEF Init
<1>2. /\ left \in Nat /\ MaxBytes \in Nat /\ Names \subseteq Nat /\ Base = 0
      /\ left + 1 \in 1..MaxFiles /\ MaxFiles \in Nat
  BY <1>1, TypeInit, NamesFacts, JsonlAssumption DEF Base, TypeInv, DirTypes
<1>3. ASSUME NEW n \in Names, n # Base, Exists(n) PROVE Len(data[dir[n]]) >= MaxBytes
  <2>1. n \in Nat /\ n # 0 /\ n <= left /\ dir[n] = left + 1 - n
    BY <1>1, <1>2, <1>3 DEF Exists
  <2>2. dir[n] \in 1..MaxFiles /\ dir[n] <= left
    BY <1>2, <2>1
  <2>3. data[dir[n]] = [k \in 1..MaxBytes |-> (dir[n] - 1) * MaxBytes + k]
    BY <1>1, <2>2
  <2>4. Len(data[dir[n]]) = MaxBytes
    BY <1>2, <2>3
  <2>5. QED
    BY <1>2, <2>4
<1>4. FullBackups
  BY <1>1, <1>3 DEF FullBackups
<1>5. HolesByFault
  <2> SUFFICES ASSUME NEW h \in 1..keep + 1, Exists(h) PROVE Cardinality(Holes(h)) <= faults
    BY DEF HolesByFault
  <2>1. h \in Names /\ h <= left /\ \A n \in 1..h : n \in Names
    BY <1>1, <1>2, NamesFacts DEF Exists
  <2>2. \A n \in 1..h : Exists(n)
    BY <1>1, <1>2, <2>1 DEF Exists
  <2>3. Holes(h) = {}
    BY <2>2 DEF Holes
  <2>4. QED
    BY <1>1, <2>3, FS_EmptySet
<1>6. QED
  BY <1>4, <1>5, NothingGoneYet DEF Missing

LEMMA FullStep ==
  TypeInv /\ DirInv /\ Serving /\ FullBackups /\ [Next]_vars => FullBackups'
<1> SUFFICES ASSUME TypeInv, DirInv, Serving, FullBackups, [Next]_vars PROVE FullBackups'
  OBVIOUS
<1>0. /\ dir \in [Names -> 0..created] /\ created \in 1..MaxFiles /\ MaxFiles \in Nat
      /\ MaxBytes \in Nat /\ Base \in Names /\ Base = 0 /\ Names \subseteq Nat
      /\ \A f \in 1..MaxFiles : Len(data[f]) \in Nat
      /\ \A n \in Names : Exists(n) => dir[n] \in 1..MaxFiles
  <2>1. \A f \in 1..MaxFiles : data[f] \in Seq(1..MaxStored)
    BY DEF TypeInv, DataTypes
  <2>2. \A f \in 1..MaxFiles : Len(data[f]) \in Nat
    BY <2>1
  <2>3. dir \in [Names -> 0..created] /\ created \in 1..MaxFiles
    BY DEF TypeInv, DirTypes
  <2>4. QED
    BY <2>2, <2>3, NamesFacts, JsonlAssumption DEF TypeInv, ControlTypes, Base, Exists
<1>1. CASE WriteLine
  <2>1. /\ handle \in 1..MaxFiles /\ stored' \in 1..MaxStored /\ dir' = dir /\ pc' = "check"
        /\ data'[handle] = Append(data[handle], stored')
        /\ \A f \in 1..MaxFiles : f # handle => data'[f] = data[f]
    BY <1>1, WriteFacts
  <2>2. data[handle] \in Seq(1..MaxStored)
    BY <2>1 DEF TypeInv, DataTypes
  <2>3. Len(data'[handle]) = Len(data[handle]) + 1
    BY <2>1, <2>2, AppendItems
  <2>4. \A f \in 1..MaxFiles : Len(data'[f]) \in Nat /\ Len(data'[f]) >= Len(data[f])
    BY <1>0, <2>1, <2>3
  <2>5. \A n \in Names : Exists(n)' <=> Exists(n)
    BY <2>1 DEF Exists
  <2>6. ASSUME NEW n \in Names \ {Base}, Exists(n) PROVE Len(data'[dir'[n]]) >= MaxBytes
    <3>1. dir[n] \in 1..MaxFiles /\ Len(data[dir[n]]) >= MaxBytes
      BY <1>0, <2>6 DEF FullBackups
    <3>2. PICK f \in 1..MaxFiles : f = dir[n]
      BY <3>1
    <3>3. Len(data'[f]) \in Nat /\ Len(data'[f]) >= Len(data[f]) /\ Len(data[f]) \in Nat
      BY <1>0, <2>4
    <3>4. Len(data'[f]) >= MaxBytes
      <4>1. MaxBytes \in Nat /\ Len(data[f]) >= MaxBytes
        BY <1>0, <3>1, <3>2
      <4>2. QED
        BY <3>3, <4>1
    <3>5. QED
      BY <2>1, <3>2, <3>4
  <2>7. QED
    BY <2>1, <2>5, <2>6 DEF FullBackups
<1>2. CASE UNCHANGED <<data, stored>> /\ ~WriteLine
  <2>1. CASE DirKept
    <3>1. dir' = dir /\ data' = data
      BY <1>2, <2>1 DEF DirKept
    <3>2. CASE ShouldRollover
      <4>1. pc' \in {"shift", "current"} => Len(data[dir[Base]]) >= MaxBytes
        BY <3>2 DEF ShouldRollover
      <4>2. QED
        BY <3>1, <4>1 DEF FullBackups, Exists
    <3>3. CASE SkipBackup \/ TakeOver \/ UNCHANGED vars
      <4>1. pc' = pc
        BY <3>3 DEF SkipBackup, TakeOver, vars
      <4>2. QED
        BY <3>1, <4>1 DEF FullBackups, Exists
    <3>4. CASE SizeUnknown
      <4>1. pc' = "idle"
        BY <3>4 DEF SizeUnknown
      <4>2. QED
        BY <3>1, <4>1 DEF FullBackups, Exists
    <3>5. QED
      BY <1>2, <2>1, <3>2, <3>3, <3>4 DEF DirKept
  <2>2. CASE BaseLeft
    BY <1>2, <2>2 DEF BaseLeft, RotationRaises, diskVars, FullBackups, Exists
  <2>3. ASSUME NEW n \in Names, NameRemoved(n) PROVE FullBackups'
    <3>1. dir' = [dir EXCEPT ![n] = 0] /\ n # Base /\ pc \in {"shift", "current"}
      BY <2>3 DEF NameRemoved, Unlinks, Unlink, UnlinkBackup, UnlinkBeyond, UnlinkFirst
    <3>2. QED
      BY <1>0, <1>2, <3>1 DEF FullBackups, Exists
  <2>4. ASSUME NEW n \in Names, NameMoved(n) PROVE FullBackups'
    <3>1. /\ dir' = [dir EXCEPT ![n + 1] = dir[n], ![n] = 0] /\ n + 1 \in Names /\ n \in Nat
          /\ Exists(n) /\ n + 1 # Base
      BY <1>0, <2>4 DEF NameMoved, Renames, Rename
    <3>2. Len(data[dir[n]]) >= MaxBytes
      BY <1>0, <2>4, <3>1 DEF NameMoved, RenameCurrent, FullBackups, ShiftBackup
    <3>3. \A m \in Names \ {Base} : Exists(m)' => Len(data'[dir'[m]]) >= MaxBytes
      BY <1>0, <1>2, <3>1, <3>2 DEF FullBackups, Exists
    <3>4. pc' \in {"shift", "current"} => Len(data'[dir'[Base]]) >= MaxBytes
      <4>1. CASE ShiftBackup
        <5>1. pc = "shift" /\ n # Base
          BY <1>0, <2>4, <4>1 DEF ShiftBackup, NameMoved, RenameCurrent
        <5>2. dir'[Base] = dir[Base]
          BY <1>0, <3>1, <5>1
        <5>3. QED
          BY <1>2, <5>1, <5>2 DEF FullBackups
      <4>2. CASE RenameCurrent
        BY <4>2 DEF RenameCurrent
      <4>3. QED
        BY <2>4, <4>1, <4>2 DEF NameMoved
    <3>5. QED
      BY <3>3, <3>4 DEF FullBackups
  <2>5. CASE BaseOpened
    <3>1. \A m \in Names \ {Base} : dir'[m] = dir[m]
      BY <1>0, <2>5, OpenFacts DEF BaseOpened
    <3>2. pc' \in {"shift", "current"} => OpenSpare
      BY <2>5 DEF BaseOpened, OpenFresh, RotationRaises, Restart
    <3>3. OpenSpare => pc' = pc
      BY DEF OpenSpare
    <3>4. pc' \in {"shift", "current"} => Len(data'[dir'[Base]]) >= MaxBytes
      <4> SUFFICES ASSUME pc' \in {"shift", "current"} PROVE Len(data'[dir'[Base]]) >= MaxBytes
        OBVIOUS
      <4>1. pc \in {"shift", "current"} /\ Exists(Base)
        BY <3>2, <3>3 DEF TypeInv, OnBase
      <4>2. dir' = dir
        BY <2>5, <4>1, OpenFacts DEF BaseOpened
      <4>3. QED
        BY <1>2, <4>1, <4>2 DEF FullBackups
    <3>5. QED
      BY <1>2, <3>1, <3>4 DEF FullBackups, Exists
  <2>6. QED
    BY <2>1, <2>2, <2>3, <2>4, <2>5, DirMoves
<1>3. QED
  BY <1>1, <1>2, DataMoves

(* Only a fault adds a hole: at most the place that had just been freed.   *)
LEMMA HolesMove ==
  ASSUME TypeInv, DirInv, [Next]_vars, NEW h \in 0..keep + 1, Cardinality(Holes(h)) <= faults,
         ~(NameRemoved(keep + 1) /\ h = keep + 1)
  PROVE  Cardinality(Holes(h))' <= faults'
<1>0. /\ keep \in Nat /\ h \in Nat /\ h <= keep + 1 /\ faults \in Nat
      /\ Base \in Names /\ Base = 0 /\ dir \in [Names -> 0..created]
      /\ slot \in Nat /\ \A n \in 1..h : n \in Names /\ n \in Nat /\ n # Base
  BY NamesFacts, JsonlAssumption DEF TypeInv, ControlTypes, DirTypes, SlotTypes, Base
<1>1. faults' \in Nat /\ faults <= faults'
  BY FaultsGrow
<1>2. Holes(h) \in SUBSET (1..h) /\ Cardinality(Holes(h)) \in Nat
  <2>1. Holes(h) \in SUBSET (1..h)
    BY DEF Holes
  <2>2. QED
    BY <1>0, <2>1, FewerNames
<1>3. ASSUME Cardinality(Holes(h)') \in Nat, Cardinality(Holes(h)') <= Cardinality(Holes(h))
      PROVE  Cardinality(Holes(h))' <= faults'
  <2>1. PICK a \in Nat, b \in Nat, c \in Nat, d \in Nat :
           /\ a = Cardinality(Holes(h)') /\ b = Cardinality(Holes(h)) /\ c = faults /\ d = faults'
    BY <1>0, <1>1, <1>2, <1>3
  <2>2. a <= b /\ b <= c /\ c <= d
    BY <1>1, <1>3, <2>1
  <2>3. a <= d
    BY <2>2
  <2>4. QED
    BY <2>1, <2>3
<1>9. CASE Holes(h)' \subseteq Holes(h)
  <2>1. Cardinality(Holes(h)') \in Nat /\ Cardinality(Holes(h)') <= Cardinality(Holes(h))
    BY <1>0, <1>2, <1>9, FewerNames
  <2>2. QED
    BY <1>3, <2>1
<1>4. CASE DirKept
  <2>1. dir' = dir
    BY <1>4 DEF DirKept
  <2>2. CASE SkipBackup
    <3>1. pc = "shift" /\ pc' = "shift" /\ slot > 0 /\ ~Exists(slot) /\ slot' = slot - 1
      BY <2>2 DEF SkipBackup
    <3>2. slot' + 1 = slot
      BY <1>0, <3>1
    <3>3. Holes(h)' \subseteq (Holes(h) \ {slot}) \cup {slot + 1}
      BY <1>0, <2>1, <3>1, <3>2 DEF Holes, FreePlace, Exists
    <3>4. CASE slot \in Holes(h)
      <4>1. Cardinality(Holes(h)') \in Nat /\ Cardinality(Holes(h)') <= Cardinality(Holes(h))
        BY <1>0, <1>2, <3>3, <3>4, NamesSwapped
      <4>2. QED
        BY <1>3, <4>1
    <3>5. CASE slot \notin Holes(h)
      <4>1. ~(slot \in 1..h)
        BY <1>0, <3>1, <3>5 DEF Holes, FreePlace
      <4>2. slot + 1 \notin 1..h
        BY <1>0, <3>1, <4>1
      <4>3. Holes(h)' \subseteq 1..h
        BY DEF Holes
      <4>4. QED
        BY <1>9, <3>3, <4>2, <4>3
    <3>6. QED
      BY <3>4, <3>5
  <2>3. CASE WriteLine \/ ShouldRollover \/ SizeUnknown \/ TakeOver
    <3>1. pc \notin {"shift", "current"}
      BY <2>3 DEF WriteLine, ShouldRollover, SizeUnknown, TakeOver
    <3>2. Holes(h)' \subseteq Holes(h)
      BY <2>1, <3>1 DEF Holes, FreePlace, Exists
    <3>3. QED
      BY <1>9, <3>2
  <2>4. CASE UNCHANGED vars
    <3>1. Holes(h)' \subseteq Holes(h)
      BY <2>1, <2>4 DEF Holes, FreePlace, Exists, vars
    <3>2. QED
      BY <1>9, <3>1
  <2>5. QED
    BY <1>4, <2>2, <2>3, <2>4 DEF DirKept
<1>5. ASSUME NEW n \in Names, NameRemoved(n) PROVE Cardinality(Holes(h))' <= faults'
  <2>1. dir' = [dir EXCEPT ![n] = 0]
    BY <1>5 DEF NameRemoved, Unlinks, Unlink
  <2>2. CASE (UnlinkBackup /\ n = slot + 1) \/ (UnlinkFirst /\ n = 1)
    <3>1. pc' = pc /\ slot' = slot /\ FreePlace(n)
      BY <2>2 DEF UnlinkBackup, UnlinkFirst, FreePlace
    <3>2. Holes(h)' \subseteq Holes(h)
      BY <1>0, <2>1, <3>1 DEF Holes, FreePlace, Exists
    <3>3. QED
      BY <1>9, <3>2
  <2>3. CASE UnlinkBeyond /\ n = keep + 1
    <3>1. pc = "shift" /\ pc' = "current" /\ slot = 0 /\ n = keep + 1 /\ h # keep + 1
      BY <1>5, <2>3 DEF UnlinkBeyond
    <3>2. \A m \in 1..h : m # n
      BY <1>0, <3>1
    <3>3. Holes(h)' \subseteq Holes(h)
      BY <1>0, <2>1, <3>1, <3>2 DEF Holes, FreePlace, Exists
    <3>4. QED
      BY <1>9, <3>3
  <2>4. QED
    BY <1>5, <2>2, <2>3 DEF NameRemoved
<1>6. ASSUME NEW n \in Names, NameMoved(n) PROVE Cardinality(Holes(h))' <= faults'
  <2>1. /\ dir' = [dir EXCEPT ![n + 1] = dir[n], ![n] = 0] /\ n + 1 \in Names /\ Exists(n)
    BY <1>6 DEF NameMoved, Renames, Rename
  <2>2. CASE ShiftBackup /\ n = slot
    <3>1. pc = "shift" /\ pc' = "shift" /\ slot > 0 /\ slot' = slot - 1
      BY <2>2 DEF ShiftBackup
    <3>2. slot' + 1 = slot /\ slot # slot + 1
      BY <1>0, <3>1
    <3>3. Holes(h)' \subseteq Holes(h)
      BY <1>0, <2>1, <2>2, <3>1, <3>2 DEF Holes, FreePlace, Exists
    <3>4. QED
      BY <1>9, <3>3
  <2>3. CASE RenameCurrent /\ n = Base
    <3>1. pc = "current" /\ pc' = "open" /\ n + 1 = 1 /\ n = 0
      BY <1>0, <2>3 DEF RenameCurrent
    <3>2. Holes(h)' \subseteq Holes(h)
      BY <1>0, <2>1, <3>1 DEF Holes, FreePlace, Exists
    <3>3. QED
      BY <1>9, <3>2
  <2>4. QED
    BY <1>6, <2>2, <2>3 DEF NameMoved
<1>7. CASE BaseOpened \/ BaseLeft
  <2>1. \A m \in 1..h : dir'[m] = dir[m]
    BY <1>0, <1>7, OpenFacts DEF BaseOpened, BaseLeft, diskVars
  <2>2. CASE OpenFresh \/ OpenSpare
    <3>1. UNCHANGED <<pc, slot>> \/ pc = "open"
      BY <2>2 DEF OpenFresh, OpenSpare
    <3>2. Holes(h)' \subseteq Holes(h)
      BY <2>1, <3>1 DEF Holes, FreePlace, Exists
    <3>3. QED
      BY <1>9, <3>2
  <2>3. CASE RotationRaises \/ Restart
    <3>1. faults' = faults + 1
      BY <2>3 DEF RotationRaises, Restart
    <3>2. PICK x : \A m \in 1..h : FreePlace(m) => m = x
      BY DEF FreePlace
    <3>3. Holes(h)' \subseteq Holes(h) \cup {x}
      BY <2>1, <3>2 DEF Holes, Exists
    <3>4. Cardinality(Holes(h)') \in Nat /\ Cardinality(Holes(h)') <= Cardinality(Holes(h)) + 1
      BY <1>0, <1>2, <3>3, FewerNames
    <3>5. QED
      BY <1>0, <1>2, <3>1, <3>4
  <2>4. QED
    BY <1>7, <2>2, <2>3 DEF BaseOpened, BaseLeft
<1>8. QED
  BY <1>4, <1>5, <1>6, <1>7, DirMoves

LEMMA HolesStep ==
  TypeInv /\ DirInv /\ HolesByFault /\ [Next]_vars => HolesByFault'
<1> SUFFICES ASSUME TypeInv, DirInv, HolesByFault, [Next]_vars PROVE HolesByFault'
  OBVIOUS
<1> SUFFICES ASSUME NEW h \in 1..keep + 1, Exists(h)' PROVE Cardinality(Holes(h))' <= faults'
  BY KeepKept DEF HolesByFault
<1>0. /\ keep \in Nat /\ h \in Names /\ h \in Nat /\ h # 0 /\ h <= keep + 1 /\ h \in 0..keep + 1
      /\ Base \in Names /\ Base = 0 /\ dir \in [Names -> 0..created]
  BY NamesFacts DEF TypeInv, ControlTypes, DirTypes, Base
<1>1. CASE Exists(h)
  <2>1. ~(NameRemoved(keep + 1) /\ h = keep + 1)
    BY <1>0 DEF NameRemoved, Unlinks, Unlink, Exists
  <2>2. QED
    BY <1>0, <1>1, <2>1, HolesMove DEF HolesByFault
<1>2. CASE ~Exists(h)
  <2>1. dir'[h] # dir[h]
    BY <1>2 DEF Exists
  <2>2. PICK n \in Names : NameMoved(n)
    <3>1. ~DirKept /\ ~BaseLeft
      BY <2>1 DEF DirKept, BaseLeft, diskVars
    <3>2. ~BaseOpened
      BY <1>0, <2>1, OpenFacts DEF BaseOpened
    <3>3. \A n \in Names : ~NameRemoved(n)
      BY <1>0, <1>2 DEF NameRemoved, Unlinks, Unlink, Exists
    <3>4. QED
      BY <3>1, <3>2, <3>3, DirMoves
  <2>3. /\ dir' = [dir EXCEPT ![n + 1] = dir[n], ![n] = 0] /\ n + 1 \in Names /\ Exists(n)
    BY <2>2 DEF NameMoved, Renames, Rename
  <2>4. h = n + 1 /\ n \in Nat /\ n # h
    BY <1>0, <1>2, <2>1, <2>3, NamesFacts DEF Exists, TypeInv, ControlTypes
  <2>5. CASE ShiftBackup /\ n = slot
    <3>1. pc = "shift" /\ pc' = "shift" /\ slot > 0 /\ slot' + 1 = slot /\ n \in 1..keep + 1
      BY <1>0, <2>4, <2>5 DEF ShiftBackup
    <3>2. Holes(h)' \subseteq 1..n
      BY <1>0, <2>3, <2>4 DEF Holes, Exists
    <3>3. Cardinality(Holes(n))' <= faults'
      <4>1. Cardinality(Holes(n)) <= faults
        BY <2>3, <3>1 DEF HolesByFault
      <4>2. n \in 0..keep + 1 /\ n # keep + 1
        BY <1>0, <2>4
      <4>3. QED
        BY <4>1, <4>2, HolesMove
    <3>4. Holes(n)' \in SUBSET (1..n)
      BY DEF Holes
    <3>5. Holes(h)' \subseteq Holes(n)'
      BY <3>2 DEF Holes
    <3>6. /\ Cardinality(Holes(h)') \in Nat /\ Cardinality(Holes(n)') \in Nat
          /\ Cardinality(Holes(h)') <= Cardinality(Holes(n)')
      BY <2>4, <3>4, <3>5, FewerNames
    <3>7. faults' \in Nat
      BY FaultsGrow
    <3>8. QED
      BY <3>3, <3>6, <3>7
  <2>6. CASE RenameCurrent /\ n = Base
    <3>1. h = 1 /\ Exists(h)'
      BY <1>0, <2>4, <2>6
    <3>2. Holes(h)' = {}
      BY <3>1 DEF Holes
    <3>3. faults' \in Nat /\ Cardinality({}) = 0
      BY FaultsGrow, FS_EmptySet
    <3>4. QED
      BY <3>2, <3>3
  <2>7. QED
    BY <2>2, <2>5, <2>6 DEF NameMoved
<1>3. QED
  BY <1>1, <1>2

LEMMA MissingStep ==
  TypeInv /\ DirInv /\ Serving /\ HolesByFault /\ Missing /\ [Next]_vars => Missing'
<1> SUFFICES ASSUME TypeInv, DirInv, Serving, HolesByFault, Missing, [Next]_vars PROVE Missing'
  OBVIOUS
<1>0. /\ keep \in Nat /\ keep' = keep /\ faults \in Nat /\ stored \in Nat
      /\ keep + 1 \in Names /\ dir \in [Names -> 0..created]
  BY NamesFacts, KeepKept, JsonlAssumption DEF TypeInv, ControlTypes, DirTypes, DataTypes
<1>1. CASE Cardinality(Holes(keep)) <= faults
  <2>1. keep \in 0..keep + 1 /\ keep # keep + 1
    BY <1>0
  <2>2. Cardinality(Holes(keep))' <= faults'
    <3>1. PICK h \in 0..keep + 1 : h = keep
      BY <2>1
    <3>2. Cardinality(Holes(h))' <= faults'
      BY <1>1, <2>1, <3>1, HolesMove
    <3>3. Holes(keep)' = Holes(h)'
      BY <1>0, <3>1 DEF Holes
    <3>4. QED
      BY <3>2, <3>3
  <2>3. QED
    BY <2>2 DEF Missing
<1>2. CASE NothingGone /\ \A n \in Names : ~NameRemoved(n)
  <2>1. ASSUME NEW e \in 1..stored PROVE Found(e)'
    BY <1>2, <2>1, StillFound DEF NothingGone
  <2>2. CASE WriteLine
    <3>1. stored' = stored + 1 /\ \A e : e = stored' => Found(e)'
      BY <2>2, WriteHolds
    <3>2. \A e \in 1..stored' : e \in 1..stored \/ e = stored'
      BY <1>0, <3>1
    <3>3. QED
      BY <2>1, <3>1, <3>2 DEF Missing, NothingGone
  <2>3. CASE UNCHANGED <<data, stored>>
    BY <2>1, <2>3 DEF Missing, NothingGone
  <2>4. QED
    BY <2>2, <2>3, DataMoves
<1>3. ASSUME NothingGone, NEW n \in Names, NameRemoved(n) PROVE Missing'
  <2>0. dir' = [dir EXCEPT ![n] = 0] /\ UNCHANGED <<data, stored>>
    BY <1>3 DEF NameRemoved, Unlinks, Unlink, UnlinkBackup, UnlinkBeyond, UnlinkFirst, RotationStep
  <2>1. CASE ~Exists(n)
    <3>1. dir' = dir
      BY <1>0, <2>0, <2>1 DEF Exists
    <3>2. QED
      BY <1>3, <2>0, <3>1 DEF Missing, NothingGone, Found, Holds, Exists
  <2>2. CASE Exists(n)
    <3>1. CASE UnlinkBackup /\ n = slot + 1
      <4>1. pc = "shift" /\ slot > 0 /\ Exists(slot + 1) /\ slot \in Nat
        BY <3>1 DEF UnlinkBackup, TypeInv, SlotTypes
      <4>2. slot + 1 = keep
        BY <1>0, <4>1 DEF TypeInv, SlotTypes, DirInv, Shifting
      <4>3. keep \in 1..keep + 1 /\ Exists(keep)
        BY <1>0, <4>1, <4>2
      <4>4. QED
        BY <1>1, <4>3 DEF HolesByFault
    <3>2. CASE UnlinkBeyond /\ n = keep + 1
      <4>1. keep + 1 \in 1..keep + 1
        BY <1>0
      <4>2. Cardinality(Holes(keep + 1)) <= faults
        BY <2>2, <3>2, <4>1 DEF HolesByFault
      <4>3. Holes(keep + 1) \in SUBSET (1..keep + 1) /\ Holes(keep) \subseteq Holes(keep + 1)
        BY <1>0 DEF Holes
      <4>4. keep + 1 \in Nat
        BY <1>0
      <4>5. /\ Cardinality(Holes(keep)) \in Nat /\ Cardinality(Holes(keep + 1)) \in Nat
            /\ Cardinality(Holes(keep)) <= Cardinality(Holes(keep + 1))
        BY <4>3, <4>4, FewerNames
      <4>6. QED
        BY <1>0, <1>1, <4>2, <4>5
    <3>3. CASE UnlinkFirst /\ n = 1
      <4>1. pc = "current" /\ ~(keep > 1)
        BY <3>3 DEF UnlinkFirst, DirInv, Shifting
      <4>2. Holes(keep) = {}
        BY <1>0, <4>1 DEF Holes, FreePlace
      <4>3. QED
        BY <1>0, <1>1, <4>2, FS_EmptySet
    <3>4. QED
      BY <1>3, <3>1, <3>2, <3>3 DEF NameRemoved
  <2>3. QED
    BY <2>1, <2>2
<1>4. QED
  BY <1>1, <1>2, <1>3 DEF Missing

LEMMA RetainInvariant == Spec => [](TypeInv /\ DirInv /\ DataInv /\ RetainInv)
<1>1. TypeInv /\ DirInv /\ DataInv /\ RetainInv /\ [Next]_vars => RetainInv'
  BY FullStep, HolesStep, MissingStep, StrayedStays DEF RetainInv, DataInv
<1>2. QED
  BY <1>1, DataInvariant, RetainInit, PTL DEF Spec

(* The files that hold max_bytes each: backups, and the base while it is   *)
(* rotated away.                                                           *)
Backups == {n \in 1..keep : Exists(n)}
Full == IF pc \in {"shift", "current"} THEN Backups \cup {Base} ELSE Backups

LEMMA FullCount ==
  ASSUME TypeInv, Cardinality(Holes(keep)) <= faults
  PROVE  IsFiniteSet(Full) /\ Cardinality(Full) \in Nat /\ keep <= Cardinality(Full) + faults
<1>0. keep \in Nat /\ faults \in Nat /\ Base = 0
  BY NamesFacts, JsonlAssumption DEF TypeInv, ControlTypes, Base
<1>1. /\ Backups \in SUBSET (1..keep) /\ Holes(keep) \in SUBSET (1..keep)
      /\ IsFiniteSet(Backups) /\ Cardinality(Backups) \in Nat
      /\ IsFiniteSet(Holes(keep)) /\ Cardinality(Holes(keep)) \in Nat
  <2>1. Backups \in SUBSET (1..keep) /\ Holes(keep) \in SUBSET (1..keep)
    BY DEF Backups, Holes
  <2>2. QED
    BY <1>0, <2>1, FewerNames
<1>2. IsFiniteSet(1..keep) /\ Cardinality(1..keep) = keep
  <2>1. \A n \in Nat : IsFiniteSet(1..n) /\ Cardinality(1..n) = IF 1 > n THEN 0 ELSE n - 1 + 1
    BY FS_Interval
  <2>2. \A n \in Nat : (IF 1 > n THEN 0 ELSE n - 1 + 1) = n
    OBVIOUS
  <2>3. QED
    BY <1>0, <2>1, <2>2
<1>3. /\ IsFiniteSet(Backups \cup Holes(keep)) /\ Cardinality(Backups \cup Holes(keep)) \in Nat
      /\ Cardinality(Backups \cup Holes(keep)) <= Cardinality(Backups) + Cardinality(Holes(keep))
  <2>1. /\ IsFiniteSet(Backups \cup Holes(keep))
        /\ Cardinality(Backups \cup Holes(keep)) =
             Cardinality(Backups) + Cardinality(Holes(keep)) - Cardinality(Backups \cap Holes(keep))
    BY <1>1, FS_Union
  <2>2. Cardinality(Backups \cap Holes(keep)) \in Nat /\ Cardinality(Backups \cup Holes(keep)) \in Nat
    BY <1>1, <2>1, FS_Subset, FS_CardinalityType
  <2>3. QED
    BY <1>1, <2>1, <2>2
<1>4. CASE pc \notin {"shift", "current"}
  <2>1. Full = Backups /\ 1..keep \subseteq Backups \cup Holes(keep)
    BY <1>4 DEF Full, Backups, Holes, FreePlace
  <2>2. keep <= Cardinality(Backups \cup Holes(keep))
    <3>1. Cardinality(1..keep) <= Cardinality(Backups \cup Holes(keep))
      BY <1>3, <2>1, FS_Subset
    <3>2. QED
      BY <1>2, <3>1
  <2>3. QED
    BY <1>0, <1>1, <1>3, <2>1, <2>2
<1>5. CASE pc \in {"shift", "current"}
  <2>1. Full = Backups \cup {Base} /\ Base \notin Backups
    BY <1>0, <1>5 DEF Full, Backups
  <2>2. IsFiniteSet(Full) /\ Cardinality(Full) = Cardinality(Backups) + 1
    BY <1>1, <2>1, FS_AddElement
  <2>3. PICK x : \A m \in 1..keep : FreePlace(m) => m = x
    BY DEF FreePlace
  <2>4. 1..keep \subseteq (Backups \cup Holes(keep)) \cup {x}
    BY <2>3 DEF Backups, Holes
  <2>5. keep <= Cardinality(Backups \cup Holes(keep)) + 1
    <3>1. (Backups \cup Holes(keep)) \in SUBSET (1..keep)
      BY <1>1
    <3>2. Cardinality(1..keep) <= Cardinality(Backups \cup Holes(keep)) + 1
      BY <1>0, <2>4, <3>1, FewerNames
    <3>3. QED
      BY <1>2, <3>2
  <2>6. QED
    BY <1>0, <1>1, <1>3, <2>2, <2>5
<1>6. QED
  BY <1>4, <1>5

LEMMA MoreFiles ==
  ASSUME NEW M \in Nat, NEW a \in Nat, NEW b \in Nat, a <= b
  PROVE  a * M <= b * M /\ a * M \in Nat /\ b * M \in Nat
<1>1. CASE a = b
  BY <1>1
<1>2. CASE a < b
  <2>1. a * M + M <= b * M
    BY <1>2, FirstFiles
  <2>2. a * M \in Nat /\ b * M \in Nat
    OBVIOUS
  <2>3. QED
    BY <2>1, <2>2
<1>3. QED
  BY <1>1, <1>2

(* Full files hold different events, max_bytes of them each at least.      *)
LEMMA FullHold ==
  ASSUME TypeInv, DirInv, InOrder, FullBackups
  PROVE  /\ IsFiniteSet(OnDisk) /\ Cardinality(OnDisk) \in Nat
         /\ IsFiniteSet(Full) => Cardinality(Full) * MaxBytes <= Cardinality(OnDisk)
<1>0. /\ dir \in [Names -> 0..created] /\ created \in 1..MaxFiles /\ MaxFiles \in Nat
      /\ MaxBytes \in Nat /\ MaxStored \in Nat /\ keep \in Nat
      /\ Names \subseteq Nat /\ Base \in Names /\ \A n \in 1..keep : n \in Names
      /\ data \in [1..MaxFiles -> Seq(1..MaxStored)]
  BY NamesFacts, JsonlAssumption DEF TypeInv, ControlTypes, DirTypes, DataTypes
<1>1. \A n \in Names : Exists(n) => dir[n] \in 1..MaxFiles
  BY <1>0 DEF Exists
<1>2. \A f \in 1..MaxFiles : \A k \in DOMAIN data[f] : data[f][k] \in 1..MaxStored
  <2> SUFFICES ASSUME NEW f \in 1..MaxFiles, NEW k \in DOMAIN data[f]
               PROVE  data[f][k] \in 1..MaxStored
    OBVIOUS
  <2>1. data[f] \in Seq(1..MaxStored)
    BY <1>0
  <2>2. QED
    BY <2>1, ItemTypes
<1>3. OnDisk \in SUBSET (1..MaxStored)
  BY <1>1, <1>2 DEF OnDisk, In, Content
<1>4. IsFiniteSet(OnDisk) /\ Cardinality(OnDisk) \in Nat
  BY <1>0, <1>3, FewerNames
<1>5. ASSUME NEW n \in Full
      PROVE  /\ n \in Names /\ Exists(n) /\ dir[n] \in 1..MaxFiles
             /\ \A k \in 1..MaxBytes : k \in DOMAIN data[dir[n]]
  <2>1. n \in Names /\ Exists(n) /\ Len(data[dir[n]]) >= MaxBytes
    <3>1. CASE n \in Backups
      <4>1. n \in Names \ {Base} /\ Exists(n)
        BY <1>0, <3>1 DEF Backups, Base
      <4>2. QED
        BY <4>1 DEF FullBackups
    <3>2. CASE n = Base /\ pc \in {"shift", "current"}
      BY <1>0, <3>2 DEF FullBackups, TypeInv, OnBase
    <3>3. QED
      BY <3>1, <3>2 DEF Full
  <2>2. dir[n] \in 1..MaxFiles
    BY <1>1, <2>1
  <2>3. data[dir[n]] \in Seq(1..MaxStored)
    BY <1>0, <2>2
  <2>4. Len(data[dir[n]]) \in Nat /\ DOMAIN data[dir[n]] = 1..Len(data[dir[n]])
    BY <2>3
  <2>5. QED
    BY <1>0, <2>1, <2>2, <2>4
<1>6. ASSUME IsFiniteSet(Full) PROVE Cardinality(Full) * MaxBytes <= Cardinality(OnDisk)
  <2> DEFINE P == Full \X (1..MaxBytes)
             g == [p \in P |-> data[dir[p[1]]][p[2]]]
  <2>1. IsFiniteSet(P) /\ Cardinality(P) = Cardinality(Full) * MaxBytes
    <3>1. \A n \in Nat : IsFiniteSet(1..n) /\ Cardinality(1..n) = IF 1 > n THEN 0 ELSE n - 1 + 1
      BY FS_Interval
    <3>2. \A n \in Nat : (IF 1 > n THEN 0 ELSE n - 1 + 1) = n
      OBVIOUS
    <3>3. IsFiniteSet(1..MaxBytes) /\ Cardinality(1..MaxBytes) = MaxBytes
      BY <1>0, <3>1, <3>2
    <3>4. IsFiniteSet(P) /\ Cardinality(P) = Cardinality(Full) * Cardinality(1..MaxBytes)
      BY <1>6, <3>3, FS_Product
    <3>5. QED
      BY <3>3, <3>4
  <2>2. ASSUME NEW p \in P
        PROVE  /\ p[1] \in Names /\ Exists(p[1]) /\ dir[p[1]] \in 1..MaxFiles
               /\ p[2] \in DOMAIN data[dir[p[1]]] /\ p[2] \in Nat
               /\ g[p] = data[dir[p[1]]][p[2]] /\ g[p] \in 1..MaxStored
    <3>1. p[1] \in Full /\ p[2] \in 1..MaxBytes
      OBVIOUS
    <3>2. /\ p[1] \in Names /\ Exists(p[1]) /\ dir[p[1]] \in 1..MaxFiles
          /\ p[2] \in DOMAIN data[dir[p[1]]] /\ p[2] \in Nat
      BY <1>5, <3>1
    <3>3. QED
      BY <1>2, <3>2
  <2>3. g \in [P -> OnDisk]
    <3> SUFFICES ASSUME NEW p \in P PROVE data[dir[p[1]]][p[2]] \in OnDisk
      OBVIOUS
    <3>1. data[dir[p[1]]][p[2]] \in In(p[1])
      BY <2>2 DEF In, Content
    <3>2. QED
      BY <2>2, <3>1 DEF OnDisk
  <2>4. ASSUME NEW p \in P, NEW q \in P, g[p] = g[q] PROVE p = q
    <3>1. p[1] = q[1]
      <4>1. ASSUME NEW r \in P, NEW s \in P, r[1] < s[1] PROVE g[s] < g[r]
        <5>1. dir[s[1]] < dir[r[1]]
          BY <1>0, <2>2, <4>1 DEF DirInv, NamesInOrder
        <5>2. Older(data[dir[s[1]]], data[dir[r[1]]])
          BY <2>2, <5>1 DEF InOrder
        <5>3. QED
          BY <2>2, <5>2 DEF Older
      <4>2. p[1] \in Nat /\ q[1] \in Nat /\ g[p] \in Nat /\ g[q] \in Nat
        <5>1. p[1] \in Names /\ q[1] \in Names /\ g[p] \in 1..MaxStored /\ g[q] \in 1..MaxStored
          BY <2>2
        <5>2. (\A i \in Names : i \in Nat) /\ \A e \in 1..MaxStored : e \in Nat
          BY <1>0
        <5> HIDE DEF P, g
        <5>3. QED
          BY <5>1, <5>2
      <4>3. ~(p[1] < q[1]) /\ ~(q[1] < p[1])
        BY <2>4, <4>1, <4>2
      <4>4. QED
        BY <4>2, <4>3
    <3>2. p[2] = q[2]
      <4>1. Increasing(data[dir[p[1]]])
        BY <2>2 DEF InOrder
      <4>2. /\ p[2] \in DOMAIN data[dir[p[1]]] /\ q[2] \in DOMAIN data[dir[p[1]]]
            /\ p[2] \in Nat /\ q[2] \in Nat
            /\ data[dir[p[1]]][p[2]] = data[dir[p[1]]][q[2]] /\ data[dir[p[1]]][p[2]] \in Nat
        BY <2>2, <2>4, <3>1
      <4>3. ~(p[2] < q[2]) /\ ~(q[2] < p[2])
        BY <4>1, <4>2 DEF Increasing
      <4>4. QED
        BY <4>2, <4>3
    <3>3. QED
      BY <3>1, <3>2
  <2>5. Cardinality(P) <= Cardinality(OnDisk)
    <3> HIDE DEF P, g
    <3>1. g \in Injection(P, OnDisk)
      BY <2>3, <2>4 DEF Injection, IsInjective
    <3>2. QED
      BY <1>4, <3>1, FS_Injection
  <2>6. QED
    BY <2>1, <2>5
<1>7. QED
  BY <1>4, <1>6

(* backup_count full files stay on disk beside the current one, and each   *)
(* failed rotation or dead process costs at most one of them, for every    *)
(* backup_count and max_bytes (jsonl.py, _do_rollover).                         *)
THEOREM BackupsRetained == Spec => []RetentionDegradesByFault
<1>1. TypeInv /\ DirInv /\ DataInv /\ RetainInv => RetentionDegradesByFault
  <2> SUFFICES ASSUME TypeInv, DirInv, InOrder, FullBackups, Missing, faults <= keep
               PROVE  Cardinality(OnDisk) >= AtMost(stored, (keep - faults) * MaxBytes)
    BY DEF DataInv, RetainInv, RetentionDegradesByFault
  <2>0. /\ keep \in Nat /\ faults \in Nat /\ MaxBytes \in Nat /\ stored \in Nat
        /\ keep - faults \in Nat
    BY NamesFacts, JsonlAssumption DEF TypeInv, ControlTypes, DataTypes
  <2>1. IsFiniteSet(OnDisk) /\ Cardinality(OnDisk) \in Nat
    BY FullHold
  <2>2. CASE NothingGone
    <3>1. 1..stored \subseteq OnDisk
      BY <2>2 DEF NothingGone, Found, Holds, OnDisk, In, Content
    <3>2. \A n \in Nat : IsFiniteSet(1..n) /\ Cardinality(1..n) = IF 1 > n THEN 0 ELSE n - 1 + 1
      BY FS_Interval
    <3>3. \A n \in Nat : (IF 1 > n THEN 0 ELSE n - 1 + 1) = n
      OBVIOUS
    <3>4. Cardinality(1..stored) = stored
      BY <2>0, <3>2, <3>3
    <3>5. stored <= Cardinality(OnDisk)
      <4>1. Cardinality(1..stored) <= Cardinality(OnDisk)
        BY <2>1, <3>1, FS_Subset
      <4>2. QED
        BY <3>4, <4>1
    <3>6. PICK b \in Nat : b = (keep - faults) * MaxBytes
      BY <2>0
    <3>7. QED
      BY <2>0, <2>1, <3>5, <3>6 DEF AtMost
  <2>3. CASE Cardinality(Holes(keep)) <= faults
    <3>1. IsFiniteSet(Full) /\ Cardinality(Full) \in Nat /\ keep - faults <= Cardinality(Full)
      BY <2>0, <2>3, FullCount
    <3>2. /\ (keep - faults) * MaxBytes <= Cardinality(Full) * MaxBytes
          /\ (keep - faults) * MaxBytes \in Nat /\ Cardinality(Full) * MaxBytes \in Nat
      BY <2>0, <3>1, MoreFiles
    <3>3. Cardinality(Full) * MaxBytes <= Cardinality(OnDisk)
      BY <3>1, FullHold
    <3>4. PICK a \in Nat, b \in Nat : a = (keep - faults) * MaxBytes /\ b = Cardinality(Full) * MaxBytes
      BY <3>2
    <3>5. a <= Cardinality(OnDisk)
      BY <2>1, <3>2, <3>3, <3>4
    <3>6. QED
      BY <2>0, <2>1, <3>4, <3>5 DEF AtMost
  <2>4. QED
    BY <2>2, <2>3 DEF Missing
<1>2. QED
  BY <1>1, RetainInvariant, PTL
=============================================================================
