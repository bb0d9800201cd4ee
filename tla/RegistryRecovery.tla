-------------------------- MODULE RegistryRecovery --------------------------
(***************************************************************************)
(* One restart-critical registry of Control (executors.json or             *)
(* sessions.json) as its three files: the generation marker, the primary   *)
(* and the backup.  A write fences the next generation, publishes the      *)
(* primary and mirrors it; a start loads the primary, or the backup of the *)
(* fenced generation, or refuses.  Files are lost or corrupted, writes     *)
(* fail and the process crashes between any two of them.  Every step runs  *)
(* under the registry's lock, so there is one writer.                      *)
(***************************************************************************)
EXTENDS Naturals

CONSTANTS
    Values,    \* contents a registry can have
    Empty,     \* the contents of a registry that has no file
    MaxGen,    \* bound: generations allocated
    MaxFaults  \* bound: faults since the three files last agreed

ASSUME RegistryAssumption ==
    Empty \in Values /\ MaxGen \in Nat /\ MaxFaults \in Nat

VARIABLES
    marker,     \* the file <registry>.generation
    primary,    \* the registry file itself
    backup,     \* the file <registry>.bak
    stage,      \* the file the process writes next, or what it does instead
    op,         \* the operation these writes belong to
    pending,    \* the record they write
    memory,     \* the projection ControlState serves while it runs
    fence,      \* the last generation allocated
    committed,  \* history: the last primary that was published
    wiped,      \* history: no file is left of that publication
    faults      \* faults since the three files last agreed

rvars == <<marker, primary, backup, stage, op, pending, memory, fence,
           committed, wiped, faults>>

NoFile == [kind |-> "absent", gen |-> 0, val |-> Empty]
Garbage == [kind |-> "garbage", gen |-> 0, val |-> Empty]
\* Generation 0 stands for a file of the format that had none.
File(g, v) == [kind |-> "file", gen |-> g, val |-> v]
Files == {NoFile, Garbage} \cup [kind : {"file"}, gen : Nat, val : Values]
Readable(f) == f.kind = "file"

Agree == /\ Readable(marker) /\ Readable(primary)
         /\ primary.gen = marker.gen /\ backup = primary

RegistryInit ==
    /\ marker = NoFile /\ backup = NoFile
    /\ primary \in {NoFile} \cup {File(0, v) : v \in Values}
    /\ stage = "stopped" /\ op = "none"
    /\ pending = NoFile /\ memory = Empty /\ fence = 0
    /\ committed = primary /\ wiped = FALSE
    /\ faults = IF primary = NoFile THEN 0 ELSE 1

-----------------------------------------------------------------------------
(* load_registry                                                           *)

\* Variant: any readable backup is trusted.
Recoverable_AnyBackup == Readable(backup)

\* A backup is trusted only under the generation the marker fences.
Recoverable == /\ Readable(marker) /\ Readable(backup)
               /\ backup.gen = marker.gen

NothingThere == marker = NoFile /\ primary = NoFile /\ backup = NoFile

Begin(o, first, record) ==
    /\ stage' = first /\ op' = o /\ pending' = record

\* A readable primary is the authority whatever the other two files say; one
\* without a generation is written again with one.
LoadPrimary ==
    /\ stage = "stopped" /\ Readable(primary)
    /\ \/ /\ primary.gen = 0 /\ fence < MaxGen
          /\ fence' = fence + 1
          /\ Begin("upgrade", "marker", File(fence', primary.val))
          /\ UNCHANGED memory
       \/ /\ primary.gen # 0 /\ ~Agree
          /\ Begin("repair", "marker", primary)
          /\ UNCHANGED <<fence, memory>>
       \/ /\ primary.gen # 0 /\ Agree
          /\ stage' = "running" /\ memory' = primary.val
          /\ UNCHANGED <<fence, op, pending>>
    /\ UNCHANGED <<marker, primary, backup, committed, wiped, faults>>

LoadBackup ==
    /\ stage = "stopped" /\ ~Readable(primary) /\ Recoverable
    /\ Begin("restore", "primary", backup)
    /\ UNCHANGED <<marker, primary, backup, memory, fence, committed, wiped, faults>>

LoadNothing ==
    /\ stage = "stopped" /\ NothingThere
    /\ stage' = "running" /\ memory' = Empty
    /\ UNCHANGED <<marker, primary, backup, op, pending, fence, committed, wiped, faults>>

Refuse ==
    /\ stage = "stopped"
    /\ ~Readable(primary) /\ ~Recoverable /\ ~NothingThere
    /\ stage' = "refused"
    /\ UNCHANGED <<marker, primary, backup, op, pending, memory, fence,
                   committed, wiped, faults>>

-----------------------------------------------------------------------------
(* write_registry and the repairs of load_registry, one file at a time     *)

\* A mutation of ControlState writes its candidate before it serves it.
Put(v) ==
    /\ stage = "running" /\ fence < MaxGen
    /\ fence' = fence + 1
    /\ Begin("put", "marker", File(fence', v))
    /\ UNCHANGED <<marker, primary, backup, memory, committed, wiped, faults>>

\* The operation has returned to its caller, which serves what it wrote.
Served == stage' = "running" /\ memory' = pending.val

\* The three files agree again: earlier faults are over.
Healed == faults' = IF Agree' THEN 0 ELSE faults

MarkerWritten ==
    /\ stage = "marker" /\ marker' = File(pending.gen, Empty)
    /\ stage' = IF op = "repair" THEN "backup" ELSE "primary"
    /\ UNCHANGED <<primary, backup, op, pending, memory, fence, committed, wiped>>
    /\ Healed

\* Variant: a mutation returns without its backup.
PrimaryWritten_NoBackup ==
    /\ stage = "primary" /\ primary' = pending
    /\ committed' = pending /\ wiped' = FALSE
    /\ Served
    /\ UNCHANGED <<marker, backup, op, pending, fence>>
    /\ Healed

PrimaryWritten ==
    /\ stage = "primary" /\ primary' = pending /\ wiped' = FALSE
    /\ \/ op = "restore" /\ Served /\ UNCHANGED committed
       \/ op # "restore" /\ stage' = "backup" /\ committed' = pending /\ UNCHANGED memory
    /\ UNCHANGED <<marker, backup, op, pending, fence>>
    /\ Healed

BackupWritten ==
    /\ stage = "backup" /\ backup' = pending
    /\ UNCHANGED <<marker, primary, op, pending, fence, committed, wiped>>
    /\ Served /\ Healed

\* A write fails.  Before its primary is published a mutation fails with it and
\* a restore ends the start; every other failure is suppressed.
WriteFails ==
    /\ stage \in {"marker", "primary", "backup"} /\ faults < MaxFaults
    /\ \/ op = "put" /\ stage # "backup" /\ stage' = "running" /\ UNCHANGED memory
       \/ op = "restore" /\ stage' = "stopped" /\ UNCHANGED memory
       \/ (op \in {"upgrade", "repair"} \/ stage = "backup") /\ Served
    /\ faults' = faults + 1
    /\ UNCHANGED <<marker, primary, backup, op, pending, fence, committed, wiped>>

-----------------------------------------------------------------------------
(* The environment                                                         *)

\* The process ends: by a crash between two writes, or in between operations.
Exits ==
    /\ stage # "stopped"
    /\ \/ stage \in {"running", "refused"} /\ UNCHANGED faults
       \/ /\ stage \notin {"running", "refused"} /\ faults < MaxFaults
          /\ faults' = faults + 1
    /\ stage' = "stopped" /\ op' = "none" /\ pending' = NoFile
    /\ UNCHANGED <<marker, primary, backup, memory, fence, committed, wiped>>

\* A file is deleted or its contents are damaged.
Damage(left) ==
    /\ faults < MaxFaults /\ faults' = faults + 1
    /\ \/ /\ marker # NoFile /\ marker # left /\ marker' = left
          /\ UNCHANGED <<primary, backup>>
       \/ /\ primary # NoFile /\ primary # left /\ primary' = left
          /\ UNCHANGED <<marker, backup>>
       \/ /\ backup # NoFile /\ backup # left /\ backup' = left
          /\ UNCHANGED <<marker, primary>>
    /\ wiped' = (wiped \/ NothingThere')
    /\ UNCHANGED <<stage, op, pending, memory, fence, committed>>

RegistryNext ==
    \/ LoadPrimary \/ LoadBackup \/ LoadNothing \/ Refuse
    \/ \E v \in Values : Put(v)
    \/ MarkerWritten \/ PrimaryWritten \/ BackupWritten \/ WriteFails
    \/ Exits
    \/ \E left \in {NoFile, Garbage} : Damage(left)

RegistrySpec == RegistryInit /\ [][RegistryNext]_rvars

-----------------------------------------------------------------------------
(* Properties                                                              *)

RegistryTypeOK ==
    /\ {marker, primary, backup, pending, committed} \subseteq Files
    /\ stage \in {"stopped", "refused", "running", "marker", "primary", "backup"}
    /\ op \in {"none", "put", "upgrade", "repair", "restore"}
    /\ memory \in Values /\ fence \in Nat /\ faults \in Nat /\ wiped \in BOOLEAN

(* What Control serves is what was published last: not an older backup, not an
   empty registry, not a mutation that failed.  The exception is a registry of
   which no file is left.  (load_registry, ControlState.put_session)             *)
ServesLastPublished ==
    stage = "running" => memory = committed.val \/ (wiped /\ memory = Empty)

(* A readable file never contradicts the last publication: the primary is it,
   the backup is it or belongs to an earlier generation, and the marker is not
   behind it.  This is what makes a same-generation backup trustworthy.       *)
FilesAreOrdered ==
    /\ Readable(primary) => primary = committed
    /\ Readable(backup) =>
         /\ backup.gen # 0 /\ backup.gen <= committed.gen
         /\ backup.gen = committed.gen => backup = committed
    /\ Readable(marker) => marker.gen # 0 /\ marker.gen >= committed.gen

RegistrySafe == RegistryTypeOK /\ FilesAreOrdered /\ ServesLastPublished

(* One lost file, corrupt file, failed write or crash is survived by a registry
   that was ever published: only a second one before the files agree again makes
   a start refuse it.  The exception is the very first write, whose marker alone
   is refused.  (load_registry's recovery and its repairs)                    *)
RefusesOnlyAfterTwoFaults ==
    stage = "refused" => faults >= 2 \/ committed = NoFile
=============================================================================
