--------------------------- MODULE SnapshotFiles ---------------------------
(***************************************************************************)
(* A data directory: the dataset marker of server/src/ingest/dataset.rs    *)
(* and the snapshot of snapshot_io.rs (the nullifier's; the witness server *)
(* has the same code under other names).  Both are written to a temporary  *)
(* file that is synced and renamed.                                        *)
(*                                                                         *)
(* Assumed of the file system: a rename is atomic, directory changes reach *)
(* the disk in their order but at any later time, and a file that was not  *)
(* synced may come back from a power loss with any content.                *)
(***************************************************************************)
CONSTANTS
  Snapshots,     \* what a server may save
  OldSnapshot,   \* a snapshot the server has not written: of another dataset
  OurMarker,     \* the marker of this network, pool and dataset version
  OtherMarker,   \* any other marker
  Torn,          \* an incomplete or unreadable content
  NoFile

ASSUME FilesAssumption ==
  /\ {OldSnapshot, Torn, NoFile} \cap Snapshots = {}
  /\ OldSnapshot \notin {Torn, NoFile}
  /\ {OurMarker, OtherMarker} \cap {Torn, NoFile} = {}
  /\ Torn # NoFile /\ OurMarker # OtherMarker
  /\ NoFile \notin [data : Snapshots \cup {OldSnapshot, OurMarker, OtherMarker, Torn},
                    where : {"disk", "cache"}]

Finals == {"dataset.json", "snapshot.bin"}
Tmps == {"dataset.json.tmp", "snapshot.bin.tmp"}
Names == Finals \cup Tmps
TmpOf(f) == IF f = "dataset.json" THEN "dataset.json.tmp" ELSE "snapshot.bin.tmp"

VARIABLES
  disk,        \* the directory as processes see it: name |-> NoFile or a file
  settled,     \* the directory that a power loss may bring back instead
  io           \* the write in progress: its next step, the file, the content

diskVars == <<disk, settled, io>>

Idle == [step |-> "idle", file |-> "snapshot.bin", data |-> NoFile]

\* A file's content, and whether it has been synced to the disk or may be in the cache only.
File(data, where) == [data |-> data, where |-> where]

Content(dir, f) == IF dir[f] = NoFile THEN NoFile ELSE dir[f].data

-----------------------------------------------------------------------------
(* save_snapshot, and the last part of ensure_ironwood_dataset *)

\* The directory may reach the disk on the way: settled' is left to the caller.
BeginWrite(f, data) ==
  /\ io.step = "idle"
  /\ io' = [step |-> "create", file |-> f, data |-> data]
  /\ UNCHANGED disk

\* File::create, which truncates
CreateTmp ==
  /\ io.step = "create"
  /\ disk' = [disk EXCEPT ![TmpOf(io.file)] = File(Torn, "cache")]
  /\ io' = [io EXCEPT !.step = "write"]
  /\ UNCHANGED settled

\* Mutated form of WriteTmp: sync_all is forgotten.
WriteTmpUnsynced ==
  /\ io.step = "write"
  /\ disk' = [disk EXCEPT ![TmpOf(io.file)] = File(io.data, "cache")]
  /\ io' = [io EXCEPT !.step = "rename"]
  /\ UNCHANGED settled

\* write_all
WriteTmp ==
  /\ io.step = "write"
  /\ disk' = [disk EXCEPT ![TmpOf(io.file)] = File(io.data, "cache")]
  /\ io' = [io EXCEPT !.step = "sync"]
  /\ UNCHANGED settled

\* sync_all
SyncTmp ==
  /\ io.step = "sync"
  /\ disk' = [disk EXCEPT ![TmpOf(io.file)] = File(io.data, "disk")]
  /\ io' = [io EXCEPT !.step = "rename"]
  /\ UNCHANGED settled

\* fs::rename
RenameTmp ==
  /\ io.step = "rename"
  /\ disk' = [disk EXCEPT ![io.file] = disk[TmpOf(io.file)], ![TmpOf(io.file)] = NoFile]
  /\ io' = Idle
  /\ UNCHANGED settled

-----------------------------------------------------------------------------
(* The system around it *)

\* The directory reaches the disk.
Settle ==
  /\ settled' = disk
  /\ UNCHANGED <<disk, io>>

\* The process ends; the files are as it left them.
ProcessExit ==
  /\ io' = Idle
  /\ UNCHANGED <<disk, settled>>

\* The directory comes back as it is or as it was when it last settled; contents that
\* were not synced may be torn.
PowerLoss ==
  /\ \E dir \in {disk, settled} :
       \E torn \in SUBSET {f \in Names : dir[f] # NoFile /\ dir[f].where = "cache"} :
         disk' = [f \in Names |->
                    IF dir[f] = NoFile THEN NoFile
                    ELSE File(IF f \in torn THEN Torn ELSE dir[f].data, "disk")]
  /\ settled' = disk'
  /\ io' = Idle

-----------------------------------------------------------------------------
(* ensure_ironwood_dataset, and load_snapshot *)

\* Mutated form of Refused: an artifact without a marker is adopted.
RefusedByMarker == Content(disk, "dataset.json") \in {OtherMarker, Torn}

\* A marker of another dataset or an unreadable one, or an artifact without a marker.
Refused ==
  \/ Content(disk, "dataset.json") \in {OtherMarker, Torn}
  \/ /\ disk["dataset.json"] = NoFile
     /\ \E f \in {"snapshot.bin", "snapshot.bin.tmp"} : disk[f] # NoFile

Labelled == Content(disk, "dataset.json") = OurMarker

-----------------------------------------------------------------------------
\* A new directory, one that another dataset's server has used, or an old one of
\* which the marker is missing.
Directories ==
  LET Dir(marker, snap, tmp) ==
        [f \in Names |->
           IF f = "dataset.json" THEN marker
           ELSE IF f = "snapshot.bin" THEN snap
           ELSE IF f = "snapshot.bin.tmp" THEN tmp
           ELSE NoFile]
      old == File(OldSnapshot, "disk")
  IN  {Dir(NoFile, NoFile, NoFile), Dir(File(OtherMarker, "disk"), old, NoFile),
       Dir(NoFile, old, NoFile), Dir(NoFile, NoFile, old)}

FilesInit ==
  /\ disk \in Directories
  /\ settled = disk
  /\ io = Idle

WriteStep == CreateTmp \/ WriteTmp \/ SyncTmp

FilesNext ==
  \/ /\ \/ BeginWrite("dataset.json", OurMarker)
        \/ \E data \in Snapshots : BeginWrite("snapshot.bin", data)
     /\ settled' \in {disk, settled}
  \/ WriteStep
  \/ RenameTmp
  \/ Settle
  \/ ProcessExit
  \/ PowerLoss

FilesSpec == FilesInit /\ [][FilesNext]_diskVars

-----------------------------------------------------------------------------
CellValues == Snapshots \cup {OldSnapshot, NoFile}

\* Temporary file, sync and rename make the snapshot a cell: whatever step of a save
\* a crash interrupts, a load finds the old content or the new one, whole.
Cell == INSTANCE AtomicCell
          WITH Values <- CellValues,
               cell <- Content(disk, "snapshot.bin"),
               durable <- Content(settled, "snapshot.bin")
IsAtomicCell == Cell!Spec
=============================================================================
