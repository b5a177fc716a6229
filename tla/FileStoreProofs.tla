--------------------------- MODULE FileStoreProofs ---------------------------
(***************************************************************************)
(* Proofs about FileStore, for any number of ids and goroutines, any       *)
(* limits and any mixture of operations, failures and crashes.             *)
(***************************************************************************)
EXTENDS FileStore, FiniteSetTheorems, WellFoundedInduction, TLAPS

Sweeping == {"sweep", "sweepmeta"}
Locked == {"list", "measure", "create", "copy", "write", "undo"} \cup Sweeping

(* Which operation is where. *)
OpOK ==
  \A t \in Tasks :
    \/ op[t] = "none" /\ pc[t] = "idle"
    \/ op[t] = "boot" /\ pc[t] \in {"list"} \cup Sweeping
    \/ op[t] = "upload" /\ pc[t] \in {"lock"} \cup Locked /\ file[t] \in Ids
    \/ op[t] = "delete" /\ pc[t] \in {"unlink", "unlinkmeta"} /\ file[t] \in Ids
    \/ op[t] = "read" /\ pc[t] = "open" /\ file[t] \in Ids

(* One goroutine at a time writes or cleans the directory. *)
MutexOK == \A t \in Tasks : pc[t] \in Locked => mu = t

Uploading(t, f) == op[t] = "upload" /\ file[t] = f

(* The data of f has its whole length or is gone, and stays so. *)
Settled(f) ==
  /\ size[f] # 0
  /\ data[f] \in {Missing, size[f]}
  /\ \A t \in Tasks : Uploading(t, f) => pc[t] = "undo"

FilesOK ==
  \A f \in Ids :
    /\ size[f] = 0 => data[f] = Missing /\ meta[f] = "none" /\ \A t \in Tasks : file[t] # f
    /\ meta[f] = "whole" => Settled(f)
    /\ f \in saved => Settled(f) /\ \A t \in Tasks : ~Uploading(t, f)

(* What an upload has written so far; nobody else writes under its id. *)
UploadsOK ==
  \A t \in Tasks, f \in Ids : Uploading(t, f) =>
    /\ size[f] # 0
    /\ \A u \in Tasks : Uploading(u, f) => u = t
    /\ pc[t] \in {"copy", "write", "undo"} \/ data[f] = Missing
    /\ pc[t] \in {"write", "undo"} \/ meta[f] = "none"
    /\ pc[t] = "copy" => data[f] \in 0..size[f]
    /\ pc[t] = "write" => data[f] = size[f]

(* Deletes and reads, which take no lock, work on settled files. *)
UnlockedOK ==
  \A t \in Tasks :
    /\ pc[t] \in {"open", "unlink", "unlinkmeta"} => Settled(file[t])
    /\ pc[t] \in {"unlink", "unlinkmeta"} => file[t] \in deleted
    /\ pc[t] = "unlinkmeta" => data[file[t]] = Missing

(* A sweep in progress: what it means to keep, what it has not looked at. *)
SweepOK ==
  \A t \in Tasks : pc[t] \in Sweeping =>
    /\ \A f \in saved \ (deleted \cup old) : f \in known \/ kind[f] = "json"
    /\ \A f \in Ids : meta[f] # "torn"
    /\ \A f \in Ids : data[f] # Missing => f \in entries \cup known \/ kind[f] = "metadata"
    /\ \A f \in known : data[f] # Missing => meta[f] = "whole"
    /\ pc[t] = "sweep" => pending \subseteq known
    /\ \A f, g \in pending \ known : f = g /\ f \in old /\ data[f] = Missing

Inv ==
  /\ TypeOK /\ OpOK /\ MutexOK /\ FilesOK /\ UploadsOK /\ UnlockedOK /\ SweepOK /\ Durable

-----------------------------------------------------------------------------
LEMMA StartUploadStep ==
  ASSUME Inv, NEW t \in Tasks, NEW f \in Ids, NEW u \in Uploads, StartUpload(t, f, u)
  PROVE  Inv'
<1> USE NoAssumption, LimitsAssumption, UploadsAssumption
    DEF Inv, StartUpload, Start, Goto, disk, cleaning, history, Missing
<1>1. TypeOK' /\ OpOK' /\ MutexOK'
  BY DEF TypeOK, OpOK, MutexOK, UploadsOK, Uploading, Sweeping, Locked
<1>2. FilesOK' /\ UploadsOK' /\ UnlockedOK'
  BY DEF TypeOK, OpOK, MutexOK, FilesOK, UploadsOK, UnlockedOK, Settled, Uploading,
         Sweeping, Locked
<1>3. SweepOK' /\ Durable'
  BY DEF TypeOK, OpOK, MutexOK, FilesOK, UploadsOK, UnlockedOK, SweepOK, Durable,
         Complete, Settled, Uploading, Sweeping, Locked
<1> QED
  BY <1>1, <1>2, <1>3

LEMMA StartDeleteStep ==
  ASSUME Inv, NEW t \in Tasks, NEW f \in Ids, StartDelete(t, f)
  PROVE  Inv'
<1> USE NoAssumption, LimitsAssumption DEF Inv, StartDelete, Start, Goto, disk,
                                           cleaning, history, Missing
<1>1. TypeOK' /\ OpOK' /\ MutexOK'
  BY DEF TypeOK, OpOK, MutexOK, UploadsOK, Uploading, Sweeping, Locked
<1>2. FilesOK' /\ UploadsOK' /\ UnlockedOK'
  BY DEF TypeOK, OpOK, MutexOK, FilesOK, UploadsOK, UnlockedOK, Settled, Uploading,
         Sweeping, Locked
<1>3. SweepOK' /\ Durable'
  BY DEF TypeOK, OpOK, MutexOK, FilesOK, UploadsOK, UnlockedOK, SweepOK, Durable,
         Complete, Settled, Uploading, Sweeping, Locked
<1> QED
  BY <1>1, <1>2, <1>3

LEMMA StartReadStep ==
  ASSUME Inv, NEW t \in Tasks, NEW f \in Ids, StartRead(t, f)
  PROVE  Inv'
<1> USE NoAssumption, LimitsAssumption DEF Inv, StartRead, Start, Goto, disk, cleaning,
                                           history, Missing
<1>1. TypeOK' /\ OpOK' /\ MutexOK'
  BY DEF TypeOK, OpOK, MutexOK, UploadsOK, Uploading, Sweeping, Locked
<1>2. FilesOK' /\ UploadsOK' /\ UnlockedOK'
  BY DEF TypeOK, OpOK, MutexOK, FilesOK, UploadsOK, UnlockedOK, Settled, Uploading,
         Sweeping, Locked
<1>3. SweepOK' /\ Durable'
  BY DEF TypeOK, OpOK, MutexOK, FilesOK, UploadsOK, UnlockedOK, SweepOK, Durable,
         Complete, Settled, Uploading, Sweeping, Locked
<1> QED
  BY <1>1, <1>2, <1>3

LEMMA LockStep ==
  ASSUME Inv, NEW t \in Tasks, Lock(t)
  PROVE  Inv'
<1> USE NoAssumption, LimitsAssumption DEF Inv, Lock, Goto, disk, cleaning, history,
                                           Missing
<1>1. TypeOK' /\ OpOK' /\ MutexOK'
  BY DEF TypeOK, OpOK, MutexOK, UploadsOK, Uploading, Sweeping, Locked
<1>2. FilesOK' /\ UploadsOK' /\ UnlockedOK'
  BY DEF TypeOK, OpOK, MutexOK, FilesOK, UploadsOK, UnlockedOK, Settled, Uploading,
         Sweeping, Locked
<1>3. SweepOK' /\ Durable'
  BY DEF TypeOK, OpOK, MutexOK, FilesOK, UploadsOK, UnlockedOK, SweepOK, Durable,
         Complete, Settled, Uploading, Sweeping, Locked
<1> QED
  BY <1>1, <1>2, <1>3

LEMMA ListStep ==
  ASSUME Inv, NEW t \in Tasks, List(t)
  PROVE  Inv'
<1> USE NoAssumption, LimitsAssumption DEF Inv, List, Undecodable, Goto, disk, cleaning,
                                           history, Missing, Kinds
<1>1. TypeOK' /\ OpOK' /\ MutexOK'
  BY DEF TypeOK, OpOK, MutexOK, UploadsOK, Uploading, Sweeping, Locked
<1>2. FilesOK' /\ UploadsOK' /\ UnlockedOK'
  BY DEF TypeOK, OpOK, MutexOK, FilesOK, UploadsOK, UnlockedOK, Settled, Uploading,
         Sweeping, Locked
<1>3. SweepOK' /\ Durable'
  BY DEF TypeOK, OpOK, MutexOK, FilesOK, UploadsOK, UnlockedOK, SweepOK, Durable,
         Complete, Settled, Uploading, Sweeping, Locked
<1> QED
  BY <1>1, <1>2, <1>3

LEMMA KeptStep ==
  ASSUME Inv, NEW t \in Tasks, NEW f \in Ids, Kept(t, f)
  PROVE  Inv'
<1> USE NoAssumption, LimitsAssumption DEF Inv, Kept, disk, cleaning, history, Missing
<1>1. TypeOK' /\ OpOK' /\ MutexOK'
  BY DEF TypeOK, OpOK, MutexOK, UploadsOK, Uploading, Sweeping, Locked
<1>2. FilesOK' /\ UploadsOK' /\ UnlockedOK'
  BY DEF TypeOK, OpOK, MutexOK, FilesOK, UploadsOK, UnlockedOK, Settled, Uploading,
         Sweeping, Locked
<1>3. SweepOK' /\ Durable'
  BY DEF TypeOK, OpOK, MutexOK, FilesOK, UploadsOK, UnlockedOK, SweepOK, Durable,
         Complete, Settled, Uploading, Sweeping, Locked
<1> QED
  BY <1>1, <1>2, <1>3

LEMMA DataGoneStep ==
  ASSUME Inv, NEW t \in Tasks, NEW f \in Ids, DataGone(t, f)
  PROVE  Inv'
<1> USE NoAssumption, LimitsAssumption DEF Inv, DataGone, RemoveMeta, disk, cleaning,
                                           history, Missing
<1>1. TypeOK' /\ OpOK' /\ MutexOK'
  BY DEF TypeOK, OpOK, MutexOK, UploadsOK, Uploading, Sweeping, Locked
<1>2. FilesOK' /\ UploadsOK' /\ UnlockedOK'
  BY DEF TypeOK, OpOK, MutexOK, FilesOK, UploadsOK, UnlockedOK, Settled, Uploading,
         Sweeping, Locked
<1>3. SweepOK' /\ Durable'
  BY DEF TypeOK, OpOK, MutexOK, FilesOK, UploadsOK, UnlockedOK, SweepOK, Durable,
         Complete, Settled, Uploading, Sweeping, Locked
<1> QED
  BY <1>1, <1>2, <1>3

LEMMA ExpiredDataStep ==
  ASSUME Inv, NEW t \in Tasks, NEW f \in Ids, ExpiredData(t, f)
  PROVE  Inv'
<1> USE NoAssumption, LimitsAssumption DEF Inv, ExpiredData, RemoveData, Goto, disk,
                                           cleaning, history, Missing
<1>1. TypeOK' /\ OpOK' /\ MutexOK'
  BY DEF TypeOK, OpOK, MutexOK, UploadsOK, Uploading, Sweeping, Locked
<1>2. FilesOK' /\ UploadsOK' /\ UnlockedOK'
  BY DEF TypeOK, OpOK, MutexOK, FilesOK, UploadsOK, UnlockedOK, Settled, Uploading,
         Sweeping, Locked
<1>3. SweepOK' /\ Durable'
  BY DEF TypeOK, OpOK, MutexOK, FilesOK, UploadsOK, UnlockedOK, SweepOK, Durable,
         Complete, Settled, Uploading, Sweeping, Locked
<1> QED
  BY <1>1, <1>2, <1>3

LEMMA ExpiredMetaStep ==
  ASSUME Inv, NEW t \in Tasks, ExpiredMeta(t)
  PROVE  Inv'
<1> USE NoAssumption, LimitsAssumption DEF Inv, ExpiredMeta, RemoveMeta, Goto, disk,
                                           cleaning, history, Missing
<1>1. TypeOK' /\ OpOK' /\ MutexOK'
  BY DEF TypeOK, OpOK, MutexOK, UploadsOK, Uploading, Sweeping, Locked
<1>2. FilesOK' /\ UploadsOK' /\ UnlockedOK'
  BY DEF TypeOK, OpOK, MutexOK, FilesOK, UploadsOK, UnlockedOK, Settled, Uploading,
         Sweeping, Locked
<1>3. SweepOK' /\ Durable'
  BY DEF TypeOK, OpOK, MutexOK, FilesOK, UploadsOK, UnlockedOK, SweepOK, Durable,
         Complete, Settled, Uploading, Sweeping, Locked
<1> QED
  BY <1>1, <1>2, <1>3

LEMMA OrphanStep ==
  ASSUME Inv, NEW t \in Tasks, NEW f \in Ids, Orphan(t, f)
  PROVE  Inv'
<1> USE NoAssumption, LimitsAssumption DEF Inv, Orphan, RemoveData, disk, cleaning,
                                           history, Missing
<1>1. TypeOK' /\ OpOK' /\ MutexOK'
  BY DEF TypeOK, OpOK, MutexOK, UploadsOK, Uploading, Sweeping, Locked
<1>2. FilesOK' /\ UploadsOK' /\ UnlockedOK'
  BY DEF TypeOK, OpOK, MutexOK, FilesOK, UploadsOK, UnlockedOK, Settled, Uploading,
         Sweeping, Locked
<1>3. SweepOK' /\ Durable'
  BY DEF TypeOK, OpOK, MutexOK, FilesOK, UploadsOK, UnlockedOK, SweepOK, Durable,
         Complete, Settled, Uploading, Sweeping, Locked
<1> QED
  BY <1>1, <1>2, <1>3

LEMMA SweepEndsStep ==
  ASSUME Inv, NEW t \in Tasks, SweepEnds(t)
  PROVE  Inv'
<1> USE NoAssumption, LimitsAssumption DEF Inv, SweepEnds, Unlock, Finish, Goto, disk,
                                           cleaning, history, Missing
<1>1. TypeOK' /\ OpOK' /\ MutexOK'
  BY DEF TypeOK, OpOK, MutexOK, UploadsOK, Uploading, Sweeping, Locked
<1>2. FilesOK' /\ UploadsOK' /\ UnlockedOK'
  BY DEF TypeOK, OpOK, MutexOK, FilesOK, UploadsOK, UnlockedOK, Settled, Uploading,
         Sweeping, Locked
<1>3. SweepOK' /\ Durable'
  BY DEF TypeOK, OpOK, MutexOK, FilesOK, UploadsOK, UnlockedOK, SweepOK, Durable,
         Complete, Settled, Uploading, Sweeping, Locked
<1> QED
  BY <1>1, <1>2, <1>3

LEMMA EarlyFailureStep ==
  ASSUME Inv, NEW t \in Tasks, EarlyFailure(t)
  PROVE  Inv'
<1> USE NoAssumption, LimitsAssumption DEF Inv, EarlyFailure, Unlock, Finish, Goto,
                                           disk, cleaning, history, Missing
<1>1. TypeOK' /\ OpOK' /\ MutexOK'
  BY DEF TypeOK, OpOK, MutexOK, UploadsOK, Uploading, Sweeping, Locked
<1>2. FilesOK' /\ UploadsOK' /\ UnlockedOK'
  BY DEF TypeOK, OpOK, MutexOK, FilesOK, UploadsOK, UnlockedOK, Settled, Uploading,
         Sweeping, Locked
<1>3. SweepOK' /\ Durable'
  BY DEF TypeOK, OpOK, MutexOK, FilesOK, UploadsOK, UnlockedOK, SweepOK, Durable,
         Complete, Settled, Uploading, Sweeping, Locked
<1> QED
  BY <1>1, <1>2, <1>3

LEMMA TooMuchStep ==
  ASSUME Inv, NEW t \in Tasks, TooMuch(t)
  PROVE  Inv'
<1> USE NoAssumption, LimitsAssumption DEF Inv, TooMuch, Unlock, Finish, Goto, disk,
                                           cleaning, history, Missing
<1>1. TypeOK' /\ OpOK' /\ MutexOK'
  BY DEF TypeOK, OpOK, MutexOK, UploadsOK, Uploading, Sweeping, Locked
<1>2. FilesOK' /\ UploadsOK' /\ UnlockedOK'
  BY DEF TypeOK, OpOK, MutexOK, FilesOK, UploadsOK, UnlockedOK, Settled, Uploading,
         Sweeping, Locked
<1>3. SweepOK' /\ Durable'
  BY DEF TypeOK, OpOK, MutexOK, FilesOK, UploadsOK, UnlockedOK, SweepOK, Durable,
         Complete, Settled, Uploading, Sweeping, Locked
<1> QED
  BY <1>1, <1>2, <1>3

LEMMA MeasureStep ==
  ASSUME Inv, NEW t \in Tasks, Measure(t)
  PROVE  Inv'
<1> USE NoAssumption, LimitsAssumption DEF Inv, Measure, Goto, disk, cleaning, history,
                                           Missing
<1>1. TypeOK' /\ OpOK' /\ MutexOK'
  BY DEF TypeOK, OpOK, MutexOK, UploadsOK, Uploading, Sweeping, Locked
<1>2. FilesOK' /\ UploadsOK' /\ UnlockedOK'
  BY DEF TypeOK, OpOK, MutexOK, FilesOK, UploadsOK, UnlockedOK, Settled, Uploading,
         Sweeping, Locked
<1>3. SweepOK' /\ Durable'
  BY DEF TypeOK, OpOK, MutexOK, FilesOK, UploadsOK, UnlockedOK, SweepOK, Durable,
         Complete, Settled, Uploading, Sweeping, Locked
<1> QED
  BY <1>1, <1>2, <1>3

LEMMA CreateStep ==
  ASSUME Inv, NEW t \in Tasks, Create(t)
  PROVE  Inv'
<1> USE NoAssumption, LimitsAssumption DEF Inv, Create, Goto, disk, cleaning, history,
                                           Missing
<1>1. TypeOK' /\ OpOK' /\ MutexOK'
  BY DEF TypeOK, OpOK, MutexOK, UploadsOK, Uploading, Sweeping, Locked
<1>2. FilesOK' /\ UploadsOK' /\ UnlockedOK'
  BY DEF TypeOK, OpOK, MutexOK, FilesOK, UploadsOK, UnlockedOK, Settled, Uploading,
         Sweeping, Locked
<1>3. SweepOK' /\ Durable'
  BY DEF TypeOK, OpOK, MutexOK, FilesOK, UploadsOK, UnlockedOK, SweepOK, Durable,
         Complete, Settled, Uploading, Sweeping, Locked
<1> QED
  BY <1>1, <1>2, <1>3

LEMMA CopyStep ==
  ASSUME Inv, NEW t \in Tasks, Copy(t)
  PROVE  Inv'
<1> USE NoAssumption, LimitsAssumption DEF Inv, Copy, disk, cleaning, history, Missing
<1>1. TypeOK' /\ OpOK' /\ MutexOK'
  BY DEF TypeOK, OpOK, MutexOK, UploadsOK, Uploading, Sweeping, Locked
<1>2. FilesOK' /\ UploadsOK' /\ UnlockedOK'
  BY DEF TypeOK, OpOK, MutexOK, FilesOK, UploadsOK, UnlockedOK, Settled, Uploading,
         Sweeping, Locked
<1>3. SweepOK' /\ Durable'
  BY DEF TypeOK, OpOK, MutexOK, FilesOK, UploadsOK, UnlockedOK, SweepOK, Durable,
         Complete, Settled, Uploading, Sweeping, Locked
<1> QED
  BY <1>1, <1>2, <1>3

LEMMA CopyFailsStep ==
  ASSUME Inv, NEW t \in Tasks, CopyFails(t)
  PROVE  Inv'
<1> USE NoAssumption, LimitsAssumption DEF Inv, CopyFails, RemoveData, Unlock, Finish,
                                           Goto, disk, cleaning, history, Missing
<1>1. TypeOK' /\ OpOK' /\ MutexOK'
  BY DEF TypeOK, OpOK, MutexOK, UploadsOK, Uploading, Sweeping, Locked
<1>2. FilesOK' /\ UploadsOK' /\ UnlockedOK'
  BY DEF TypeOK, OpOK, MutexOK, FilesOK, UploadsOK, UnlockedOK, Settled, Uploading,
         Sweeping, Locked
<1>3. SweepOK' /\ Durable'
  BY DEF TypeOK, OpOK, MutexOK, FilesOK, UploadsOK, UnlockedOK, SweepOK, Durable,
         Complete, Settled, Uploading, Sweeping, Locked
<1> QED
  BY <1>1, <1>2, <1>3

LEMMA OpenMetaStep ==
  ASSUME Inv, NEW t \in Tasks, OpenMeta(t)
  PROVE  Inv'
<1> USE NoAssumption, LimitsAssumption DEF Inv, OpenMeta, Goto, disk, cleaning, history,
                                           Missing
<1>1. TypeOK' /\ OpOK' /\ MutexOK'
  BY DEF TypeOK, OpOK, MutexOK, UploadsOK, Uploading, Sweeping, Locked
<1>2. FilesOK' /\ UploadsOK' /\ UnlockedOK'
  BY DEF TypeOK, OpOK, MutexOK, FilesOK, UploadsOK, UnlockedOK, Settled, Uploading,
         Sweeping, Locked
<1>3. SweepOK' /\ Durable'
  BY DEF TypeOK, OpOK, MutexOK, FilesOK, UploadsOK, UnlockedOK, SweepOK, Durable,
         Complete, Settled, Uploading, Sweeping, Locked
<1> QED
  BY <1>1, <1>2, <1>3

LEMMA WriteMetaStep ==
  ASSUME Inv, NEW t \in Tasks, WriteMeta(t)
  PROVE  Inv'
<1> USE NoAssumption, LimitsAssumption DEF Inv, WriteMeta, Unlock, Finish, Goto, disk,
                                           cleaning, history, Missing
<1>1. TypeOK' /\ OpOK' /\ MutexOK'
  BY DEF TypeOK, OpOK, MutexOK, UploadsOK, Uploading, Sweeping, Locked
<1>2. FilesOK' /\ UploadsOK' /\ UnlockedOK'
  BY DEF TypeOK, OpOK, MutexOK, FilesOK, UploadsOK, UnlockedOK, Settled, Uploading,
         Sweeping, Locked
<1>3. SweepOK' /\ Durable'
  BY DEF TypeOK, OpOK, MutexOK, FilesOK, UploadsOK, UnlockedOK, SweepOK, Durable,
         Complete, Settled, Uploading, Sweeping, Locked
<1> QED
  BY <1>1, <1>2, <1>3

LEMMA WriteMetaFailsStep ==
  ASSUME Inv, NEW t \in Tasks, WriteMetaFails(t)
  PROVE  Inv'
<1> USE NoAssumption, LimitsAssumption DEF Inv, WriteMetaFails, Goto, disk, cleaning,
                                           history, Missing
<1>1. TypeOK' /\ OpOK' /\ MutexOK'
  BY DEF TypeOK, OpOK, MutexOK, UploadsOK, Uploading, Sweeping, Locked
<1>2. FilesOK' /\ UploadsOK' /\ UnlockedOK'
  BY DEF TypeOK, OpOK, MutexOK, FilesOK, UploadsOK, UnlockedOK, Settled, Uploading,
         Sweeping, Locked
<1>3. SweepOK' /\ Durable'
  BY DEF TypeOK, OpOK, MutexOK, FilesOK, UploadsOK, UnlockedOK, SweepOK, Durable,
         Complete, Settled, Uploading, Sweeping, Locked
<1> QED
  BY <1>1, <1>2, <1>3

LEMMA UndoStep ==
  ASSUME Inv, NEW t \in Tasks, Undo(t)
  PROVE  Inv'
<1> USE NoAssumption, LimitsAssumption DEF Inv, Undo, RemoveData, Unlock, Finish, Goto,
                                           disk, cleaning, history, Missing
<1>1. TypeOK' /\ OpOK' /\ MutexOK'
  BY DEF TypeOK, OpOK, MutexOK, UploadsOK, Uploading, Sweeping, Locked
<1>2. FilesOK' /\ UploadsOK' /\ UnlockedOK'
  BY DEF TypeOK, OpOK, MutexOK, FilesOK, UploadsOK, UnlockedOK, Settled, Uploading,
         Sweeping, Locked
<1>3. SweepOK' /\ Durable'
  BY DEF TypeOK, OpOK, MutexOK, FilesOK, UploadsOK, UnlockedOK, SweepOK, Durable,
         Complete, Settled, Uploading, Sweeping, Locked
<1> QED
  BY <1>1, <1>2, <1>3

LEMMA DeleteDataStep ==
  ASSUME Inv, NEW t \in Tasks, DeleteData(t)
  PROVE  Inv'
<1> USE NoAssumption, LimitsAssumption DEF Inv, DeleteData, RemoveData, Goto, disk,
                                           cleaning, history, Missing
<1>1. TypeOK' /\ OpOK' /\ MutexOK'
  BY DEF TypeOK, OpOK, MutexOK, UploadsOK, Uploading, Sweeping, Locked
<1>2. FilesOK' /\ UploadsOK' /\ UnlockedOK'
  BY DEF TypeOK, OpOK, MutexOK, FilesOK, UploadsOK, UnlockedOK, Settled, Uploading,
         Sweeping, Locked
<1>3. SweepOK' /\ Durable'
  BY DEF TypeOK, OpOK, MutexOK, FilesOK, UploadsOK, UnlockedOK, SweepOK, Durable,
         Complete, Settled, Uploading, Sweeping, Locked
<1> QED
  BY <1>1, <1>2, <1>3

LEMMA DeleteMetaStep ==
  ASSUME Inv, NEW t \in Tasks, DeleteMeta(t)
  PROVE  Inv'
<1> USE NoAssumption, LimitsAssumption DEF Inv, DeleteMeta, RemoveMeta, Finish, Goto,
                                           disk, cleaning, history, Missing
<1>1. TypeOK' /\ OpOK' /\ MutexOK'
  BY DEF TypeOK, OpOK, MutexOK, UploadsOK, Uploading, Sweeping, Locked
<1>2. FilesOK' /\ UploadsOK' /\ UnlockedOK'
  BY DEF TypeOK, OpOK, MutexOK, FilesOK, UploadsOK, UnlockedOK, Settled, Uploading,
         Sweeping, Locked
<1>3. SweepOK' /\ Durable'
  BY DEF TypeOK, OpOK, MutexOK, FilesOK, UploadsOK, UnlockedOK, SweepOK, Durable,
         Complete, Settled, Uploading, Sweeping, Locked
<1> QED
  BY <1>1, <1>2, <1>3

LEMMA ReadContentStep ==
  ASSUME Inv, NEW t \in Tasks, ReadContent(t)
  PROVE  Inv'
<1> USE NoAssumption, LimitsAssumption DEF Inv, ReadContent, Finish, Goto, disk,
                                           cleaning, history, Missing
<1>1. TypeOK' /\ OpOK' /\ MutexOK'
  BY DEF TypeOK, OpOK, MutexOK, UploadsOK, Uploading, Sweeping, Locked
<1>2. FilesOK' /\ UploadsOK' /\ UnlockedOK'
  BY DEF TypeOK, OpOK, MutexOK, FilesOK, UploadsOK, UnlockedOK, Settled, Uploading,
         Sweeping, Locked
<1>3. SweepOK' /\ Durable'
  BY DEF TypeOK, OpOK, MutexOK, FilesOK, UploadsOK, UnlockedOK, SweepOK, Durable,
         Complete, Settled, Uploading, Sweeping, Locked
<1> QED
  BY <1>1, <1>2, <1>3

LEMMA ExpireStep ==
  ASSUME Inv, NEW f \in Ids, Expire(f)
  PROVE  Inv'
<1> USE NoAssumption, LimitsAssumption DEF Inv, Expire, disk, cleaning, history, Missing
<1>1. TypeOK' /\ OpOK' /\ MutexOK'
  BY DEF TypeOK, OpOK, MutexOK, UploadsOK, Uploading, Sweeping, Locked
<1>2. FilesOK' /\ UploadsOK' /\ UnlockedOK'
  BY DEF TypeOK, OpOK, MutexOK, FilesOK, UploadsOK, UnlockedOK, Settled, Uploading,
         Sweeping, Locked
<1>3. SweepOK' /\ Durable'
  BY DEF TypeOK, OpOK, MutexOK, FilesOK, UploadsOK, UnlockedOK, SweepOK, Durable,
         Complete, Settled, Uploading, Sweeping, Locked
<1> QED
  BY <1>1, <1>2, <1>3

LEMMA CrashStep ==
  ASSUME Inv, NEW t \in Tasks, Crash(t)
  PROVE  Inv'
<1> USE NoAssumption, LimitsAssumption DEF Inv, Crash, disk, cleaning, history, Missing
<1>1. TypeOK' /\ OpOK' /\ MutexOK'
  BY DEF TypeOK, OpOK, MutexOK, UploadsOK, Uploading, Sweeping, Locked
<1>2. FilesOK' /\ UploadsOK' /\ UnlockedOK'
  BY DEF TypeOK, OpOK, MutexOK, FilesOK, UploadsOK, UnlockedOK, Settled, Uploading,
         Sweeping, Locked
<1>3. SweepOK' /\ Durable'
  BY DEF TypeOK, OpOK, MutexOK, FilesOK, UploadsOK, UnlockedOK, SweepOK, Durable,
         Complete, Settled, Uploading, Sweeping, Locked
<1> QED
  BY <1>1, <1>2, <1>3

LEMMA InvStep == Inv /\ [Next]_vars => Inv'
<1> SUFFICES ASSUME Inv, [Next]_vars PROVE Inv'
  OBVIOUS
<1>1. ASSUME NEW t \in Tasks, Cleanup(t) PROVE Inv'
  BY <1>1, ListStep, ExpiredMetaStep, SweepEndsStep, KeptStep, DataGoneStep,
     ExpiredDataStep, OrphanStep DEF Cleanup
<1>2. ASSUME NEW t \in Tasks, Store(t) PROVE Inv'
  BY <1>2, EarlyFailureStep, TooMuchStep, MeasureStep, CreateStep, CopyStep, CopyFailsStep,
     OpenMetaStep, WriteMetaStep, WriteMetaFailsStep, UndoStep DEF Store
<1>3. ASSUME NEW t \in Tasks, Unlocked(t) PROVE Inv'
  BY <1>3, DeleteDataStep, DeleteMetaStep, ReadContentStep DEF Unlocked
<1>4. CASE UNCHANGED vars
  BY <1>4 DEF vars, disk, cleaning, history, Inv, TypeOK, OpOK, MutexOK, FilesOK,
              UploadsOK, UnlockedOK, SweepOK, Durable, Complete, Settled, Uploading
<1> QED
  BY <1>1, <1>2, <1>3, <1>4, StartUploadStep, StartDeleteStep, StartReadStep, LockStep,
     ExpireStep, CrashStep DEF Next

LEMMA InvHolds == Spec => []Inv
<1>1. Init => Inv
  BY NoAssumption, LimitsAssumption
     DEF Init, Inv, TypeOK, OpOK, MutexOK, FilesOK, UploadsOK, UnlockedOK, SweepOK,
         Durable, Settled, Uploading, Sweeping, Locked, Missing, Kinds
<1> QED
  BY <1>1, InvStep, PTL DEF Spec

-----------------------------------------------------------------------------
(* Every state of the store is well typed. *)
THEOREM TypeCorrect == Spec => []TypeOK
BY InvHolds, PTL DEF Inv

(* readFileContent takes no lock and still never reads a file that is      *)
(* being copied, or what a crash or a failure has left of one.             *)
THEOREM ReadableHolds == Spec => []Readable
<1>1. Inv => Readable
  BY DEF Inv, UnlockedOK, Settled, Readable
<1> QED
  BY <1>1, InvHolds, PTL

(* A file whose id was returned is complete until it is deleted or         *)
(* expires, through every cleanup, failed upload and crash: only a file    *)
(* that a cleanup takes for metadata, and cannot decode, is lost before    *)
(* (cleanupLocked, sanitizeStoredFilename).                                *)
THEOREM DurableHolds == Spec => []Durable
BY InvHolds, PTL DEF Inv

(* A cleanup that ends leaves no remains but data that passes for metadata *)
(* (cleanupLocked): the mutex keeps uploads out, and a delete beside it    *)
(* removes the data first.                                                 *)
THEOREM CleanedUpHolds == Spec => CleanedUp
<1> DEFINE Clean == \A f \in Ids :
                      /\ meta[f] # "torn"
                      /\ data[f] # Missing => meta[f] = "whole" \/ kind[f] = "metadata"
<1>1. ASSUME Inv, [Next]_vars, NEW t \in Tasks, SweepEnded(t) PROVE SweepEnds(t)
  <2> USE <1>1 DEF SweepEnded, Goto
  <2>1. pc \in [Tasks -> {"idle", "lock", "list", "sweep", "sweepmeta", "measure", "create",
                          "copy", "write", "undo", "unlink", "unlinkmeta", "open"}]
    BY DEF Inv, TypeOK
  <2>2. ASSUME NEW u \in Tasks, Cleanup(u), ~SweepEnds(u) PROVE FALSE
    BY <2>1, <2>2 DEF Cleanup, List, ExpiredMeta, Kept, DataGone, ExpiredData, Orphan
  <2>3. ASSUME NEW u \in Tasks, SweepEnds(u) PROVE u = t
    BY <2>1, <2>3 DEF SweepEnds, Unlock, Finish
  <2>4. ASSUME NEW u \in Tasks, Store(u) PROVE FALSE
    BY <2>1, <2>4 DEF Store, EarlyFailure, TooMuch, Measure, Create, Copy, CopyFails,
         OpenMeta, WriteMeta, WriteMetaFails, Undo, Unlock, Finish
  <2>5. ASSUME NEW u \in Tasks, Unlocked(u) \/ Lock(u) \/ Crash(u) PROVE FALSE
    <3>1. CASE Crash(u)
      BY <3>1 DEF Crash
    <3>2. CASE Unlocked(u) \/ Lock(u)
      BY <2>1, <3>2 DEF Unlocked, DeleteData, DeleteMeta, ReadContent, Lock, Finish
    <3> QED
      BY <2>5, <3>1, <3>2
  <2>6. ASSUME NEW u \in Tasks, NEW f \in Ids,
               StartDelete(u, f) \/ StartRead(u, f) \/ \E v \in Uploads : StartUpload(u, f, v)
        PROVE  FALSE
    BY <2>1, <2>6 DEF StartDelete, StartRead, StartUpload, Start
  <2>7. ASSUME NEW f \in Ids, Expire(f) PROVE FALSE
    BY <2>7 DEF Expire
  <2>8. CASE UNCHANGED vars
    BY <2>8 DEF vars
  <2> QED
    BY <2>2, <2>3, <2>4, <2>5, <2>6, <2>7, <2>8 DEF Next
<1>2. ASSUME Inv, [Next]_vars, NEW t \in Tasks, SweepEnded(t) PROVE Clean
  BY <1>1, <1>2 DEF SweepEnds, SweepEnded, Inv, SweepOK, Sweeping
<1>3. Inv /\ [Next]_vars => [(\E t \in Tasks : SweepEnded(t)) => Clean]_vars
  BY <1>2
<1> QED
  BY <1>3, InvHolds, PTL DEF Spec, CleanedUp

-----------------------------------------------------------------------------
(***************************************************************************)
(* The amount of data that is counted.  Total is a fold; it counts the     *)
(* units of the files, a unit being a file with a position in it.          *)
(***************************************************************************)
Units(d) == {u \in Ids \X (1..MaxFile) : u[2] <= d[u[1]]}

Lengths == [Ids -> Missing..MaxFile]

(* The units of the files in S. *)
UnitsIn(d, S) == {u \in Units(d) : u[1] \in S}

(* No set of units is infinite. *)
LEMMA UnitsFinite ==
  ASSUME NEW d \in Lengths, NEW U \in SUBSET Units(d)
  PROVE  IsFiniteSet(U) /\ Cardinality(U) \in Nat
<1>1. IsFiniteSet(Ids \X (1..MaxFile))
  <2>1. IsFiniteSet(1..MaxFile)
    BY LimitsAssumption, FS_Interval
  <2> QED
    BY <2>1, NoAssumption, FS_Product
<1>2. U \in SUBSET (Ids \X (1..MaxFile))
  BY DEF Units
<1> QED
  BY <1>1, <1>2, FS_Subset, FS_CardinalityType

(* A file has as many units as its length. *)
LEMMA UnitsOfOne ==
  ASSUME NEW d \in Lengths, NEW f \in Ids
  PROVE  Cardinality(UnitsIn(d, {f})) = IF d[f] = Missing THEN 0 ELSE d[f]
<1> DEFINE n == IF d[f] = Missing THEN 0 ELSE d[f]
           g == [i \in 1..n |-> <<f, i>>]
<1>1. n \in Nat /\ n <= MaxFile /\ d[f] \in Int
  BY LimitsAssumption DEF Lengths, Missing
<1>2. \A u : u \in UnitsIn(d, {f}) <=> \E i \in 1..n : u = <<f, i>>
  <2>1. ASSUME NEW u \in UnitsIn(d, {f}) PROVE u[2] \in 1..n /\ u = <<f, u[2]>>
    BY <1>1 DEF UnitsIn, Units, Missing
  <2>2. ASSUME NEW i \in 1..n PROVE <<f, i>> \in UnitsIn(d, {f})
    <3>1. i \in 1..MaxFile /\ i <= d[f]
      BY <1>1, LimitsAssumption DEF Missing
    <3> QED
      BY <3>1 DEF UnitsIn, Units
  <2> QED
    BY <2>1, <2>2
<1>3. g \in Bijection(1..n, UnitsIn(d, {f}))
  <2>1. g \in [1..n -> UnitsIn(d, {f})]
    BY <1>2
  <2>2. \A i, j \in 1..n : g[i] = g[j] => i = j
    OBVIOUS
  <2>3. \A u \in UnitsIn(d, {f}) : \E i \in 1..n : g[i] = u
    BY <1>2
  <2> QED
    BY <2>1, <2>2, <2>3 DEF Bijection, Injection, Surjection, IsInjective
<1> QED
  BY <1>1, <1>3, FS_CountingElements DEF ExistsBijection

(* The files of a set are counted one by one. *)
LEMMA UnitsAdd ==
  ASSUME NEW d \in Lengths, NEW S \in SUBSET Ids, NEW f \in S
  PROVE  Cardinality(UnitsIn(d, S)) =
           (IF d[f] = Missing THEN 0 ELSE d[f]) + Cardinality(UnitsIn(d, S \ {f}))
<1> DEFINE A == UnitsIn(d, {f})
           B == UnitsIn(d, S \ {f})
<1>1. UnitsIn(d, S) = A \cup B /\ A \cap B = {}
  BY DEF UnitsIn
<1>2. A \in SUBSET Units(d) /\ B \in SUBSET Units(d)
  BY DEF UnitsIn
<1> HIDE DEF A, B
<1>3. IsFiniteSet(A) /\ IsFiniteSet(B) /\ Cardinality(A) \in Nat /\ Cardinality(B) \in Nat
  BY <1>2, UnitsFinite
<1>4. Cardinality(UnitsIn(d, S)) = Cardinality(A) + Cardinality(B)
  BY <1>1, <1>3, FS_Union, FS_EmptySet
<1> QED
  BY <1>4, UnitsOfOne DEF A, B

(* The fold of Total counts the units: both unfold one file at a time, and *)
(* a smallest set of files on which they differ cannot exist.             *)
LEMMA TotalCounts ==
  ASSUME NEW d \in Lengths
  PROVE  MapThenSumSet(LAMBDA f : IF d[f] = Missing THEN 0 ELSE d[f], Ids)
           = Cardinality(Units(d))
<1> DEFINE w(f) == IF d[f] = Missing THEN 0 ELSE d[f]
           Rec(h) == h = [s \in SUBSET Ids |->
                            IF s = {} THEN 0
                            ELSE LET x == CHOOSE x \in s : TRUE IN w(x) + h[s \ {x}]]
           count == [s \in SUBSET Ids |-> Cardinality(UnitsIn(d, s))]
           iter == CHOOSE h : Rec(h)
<1>1. ASSUME NEW s \in SUBSET Ids, s # {}
      PROVE  /\ (CHOOSE x \in s : TRUE) \in s
             /\ count[s] = w(CHOOSE x \in s : TRUE) + count[s \ {CHOOSE x \in s : TRUE}]
  <2>1. (CHOOSE x \in s : TRUE) \in s
    BY <1>1
  <2> QED
    BY <2>1, UnitsAdd
<1>2. count[{}] = 0
  BY FS_EmptySet DEF UnitsIn
<1>3. Rec(count)
  BY <1>1, <1>2
<1>4. Rec(iter)
  BY <1>3
<1>5. ASSUME NEW s \in SUBSET Ids, iter[s] # count[s] PROVE FALSE
  <2> DEFINE Bad == {u \in SUBSET Ids : iter[u] # count[u]}
  <2>1. FiniteSubsetsOf(Ids) = SUBSET Ids
    BY NoAssumption, FS_FiniteSubsetsOfFinite
  <2>2. IsWellFoundedOn(StrictSubsetOrdering(Ids), SUBSET Ids)
    BY <2>1, FS_StrictSubsetOrderingWellFounded
  <2>3. PICK u \in Bad : \A v \in Bad : <<v, u>> \notin StrictSubsetOrdering(Ids)
    BY <1>5, <2>2, WFMin
  <2>4. CASE u = {}
    BY <1>2, <1>4, <2>3, <2>4
  <2>5. CASE u # {}
    <3> DEFINE x == CHOOSE x \in u : TRUE
    <3>1. x \in u /\ u \in SUBSET Ids
      BY <2>5
    <3>2. u \ {x} \notin Bad
      <4> HIDE DEF x, Bad
      <4>1. <<u \ {x}, u>> \in StrictSubsetOrdering(Ids)
        BY <3>1 DEF StrictSubsetOrdering
      <4> QED
        BY <2>3, <4>1
    <3>3. iter[u] = w(x) + iter[u \ {x}]
      BY <1>4, <2>5, <3>1
    <3>4. count[u] = w(x) + count[u \ {x}]
      BY <1>1, <2>5, <3>1
    <3>5. iter[u \ {x}] = count[u \ {x}]
      BY <3>1, <3>2
    <3> QED
      BY <2>3, <3>3, <3>4, <3>5
  <2> QED
    BY <2>4, <2>5
<1>6. MapThenSumSet(LAMBDA f : IF d[f] = Missing THEN 0 ELSE d[f], Ids) = iter[Ids]
  BY DEF MapThenSumSet, MapThenFoldSet
<1>7. UnitsIn(d, Ids) = Units(d)
  BY DEF UnitsIn, Units
<1> QED
  BY <1>5, <1>6, <1>7

(* Files that only shrink hold less data. *)
LEMMA LessData ==
  ASSUME NEW d \in Lengths, NEW e \in Lengths, \A f \in Ids : e[f] <= d[f]
  PROVE  Cardinality(Units(e)) <= Cardinality(Units(d))
<1>1. Units(e) \in SUBSET Units(d)
  <2> SUFFICES ASSUME NEW u \in Units(e) PROVE u \in Units(d)
    OBVIOUS
  <2>1. u \in Ids \X (1..MaxFile) /\ u[2] <= e[u[1]] /\ u[1] \in Ids
    BY DEF Units
  <2>2. u[2] \in Int /\ e[u[1]] \in Int /\ d[u[1]] \in Int
    BY <2>1, LimitsAssumption DEF Lengths, Missing
  <2>3. u[2] <= d[u[1]]
    BY <2>1, <2>2
  <2> QED
    BY <2>1, <2>3 DEF Units
<1>2. IsFiniteSet(Units(d))
  BY UnitsFinite
<1> QED
  BY <1>1, <1>2, FS_Subset

-----------------------------------------------------------------------------
(***************************************************************************)
(* The limit.  An upload that has been measured will fit when it is whole. *)
(***************************************************************************)
Whole(t) == [Counted EXCEPT ![file[t]] = size[file[t]]]

Fits == \A t \in Tasks : pc[t] \in {"create", "copy"} => Cardinality(Units(Whole(t))) <= MaxTotal

Held == Cardinality(Units(Counted)) <= MaxTotal

(* Nothing is added, and no upload gets further to its copy. *)
Shrinks ==
  /\ \A f \in Ids : data'[f] <= data[f] /\ (kind'[f] = kind[f] \/ data'[f] = Missing)
  /\ \A t \in Tasks : pc'[t] \in {"create", "copy"} =>
       pc[t] \in {"create", "copy"} /\ file'[t] = file[t] /\ size'[file[t]] = size[file[t]]

(* What is not one of the three steps of an upload only removes. *)
LEMMA OthersShrink ==
  ASSUME Inv, [Next]_vars, \A t \in Tasks : ~Measure(t) /\ ~Create(t) /\ ~Copy(t)
  PROVE  Shrinks
<1> USE NoAssumption, LimitsAssumption DEF Inv, TypeOK, Shrinks, Missing, Goto, Finish, Unlock
<1>1. ASSUME NEW t \in Tasks, Cleanup(t) PROVE Shrinks
  <2>1. CASE List(t) \/ ExpiredMeta(t) \/ \E f \in Ids : Kept(t, f) \/ DataGone(t, f)
    BY <2>1 DEF List, ExpiredMeta, Kept, DataGone, disk
  <2>2. CASE SweepEnds(t)
    <3>1. UNCHANGED <<data, kind, size>> /\ file' \in [Tasks -> Ids \cup {NoId}]
      BY <2>2 DEF SweepEnds, disk
    <3>2. \A u \in Tasks : pc'[u] \in {"create", "copy"} =>
            pc[u] \in {"create", "copy"} /\ file'[u] = file[u]
      BY <2>2 DEF SweepEnds
    <3> QED
      BY <3>1, <3>2
  <2>3. ASSUME NEW f \in Ids, ExpiredData(t, f) \/ Orphan(t, f) PROVE Shrinks
    BY <2>3 DEF ExpiredData, Orphan, RemoveData
  <2> QED
    BY <1>1, <2>1, <2>2, <2>3 DEF Cleanup
<1>2. ASSUME NEW t \in Tasks, Store(t) PROVE Shrinks
  <2>1. CASE EarlyFailure(t) \/ TooMuch(t) \/ OpenMeta(t) \/ WriteMeta(t) \/ WriteMetaFails(t)
    <3>1. UNCHANGED <<data, kind, size>> /\ file' \in [Tasks -> Ids \cup {NoId}]
      BY <2>1 DEF EarlyFailure, TooMuch, OpenMeta, WriteMeta, WriteMetaFails, disk
    <3>2. \A u \in Tasks : pc'[u] \in {"create", "copy"} =>
            pc[u] \in {"create", "copy"} /\ file'[u] = file[u]
      BY <2>1 DEF EarlyFailure, TooMuch, OpenMeta, WriteMeta, WriteMetaFails
    <3> QED
      BY <3>1, <3>2
  <2>2. CASE CopyFails(t) \/ Undo(t)
    BY <2>2 DEF CopyFails, Undo, RemoveData
  <2> QED
    BY <1>2, <2>1, <2>2 DEF Store
<1>3. ASSUME NEW t \in Tasks, Unlocked(t) \/ Lock(t) PROVE Shrinks
  BY <1>3 DEF Unlocked, Lock, DeleteData, DeleteMeta, ReadContent, RemoveData, disk
<1>4. ASSUME NEW t \in Tasks, NEW f \in Ids, NEW u \in Uploads, StartUpload(t, f, u)
      PROVE  Shrinks
  BY <1>4, UploadsAssumption DEF StartUpload, Start, FilesOK
<1>5. ASSUME NEW t \in Tasks, NEW f \in Ids, StartDelete(t, f) \/ StartRead(t, f)
      PROVE  Shrinks
  BY <1>5 DEF StartDelete, StartRead, Start, disk
<1>6. ASSUME NEW f \in Ids, Expire(f) PROVE Shrinks
  BY <1>6 DEF Expire
<1>7. ASSUME NEW t \in Tasks, Crash(t) PROVE Shrinks
  BY <1>7 DEF Crash, disk
<1>8. CASE UNCHANGED vars
  BY <1>8 DEF vars, disk
<1> QED
  BY <1>1, <1>2, <1>3, <1>4, <1>5, <1>6, <1>7, <1>8 DEF Next

(* Only an upload that was measured writes, and nothing was added since. *)
LEMMA LimitStep == Inv /\ Inv' /\ Held /\ Fits /\ [Next]_vars => Held' /\ Fits'
<1> SUFFICES ASSUME Inv, Inv', Held, Fits, [Next]_vars PROVE Held' /\ Fits'
  OBVIOUS
<1>0. data \in Lengths /\ data' \in Lengths
  BY DEF Inv, TypeOK, Lengths
<1>1. Counted \in Lengths /\ Counted' \in Lengths
  BY <1>0, LimitsAssumption DEF Lengths, Counted, Missing
<1>2. \A t \in Tasks : pc[t] \in {"measure", "create", "copy"} =>
        file[t] \in Ids /\ size[file[t]] \in 0..MaxFile /\ Whole(t) \in Lengths
  <2> SUFFICES ASSUME NEW t \in Tasks, pc[t] \in {"measure", "create", "copy"}
               PROVE  file[t] \in Ids /\ size[file[t]] \in 0..MaxFile /\ Whole(t) \in Lengths
    OBVIOUS
  <2>1. file[t] \in Ids
    BY DEF Inv, OpOK, Sweeping
  <2>2. size[file[t]] \in 0..MaxFile
    BY <2>1 DEF Inv, TypeOK
  <2> QED
    BY <1>1, <2>1, <2>2, LimitsAssumption DEF Whole, Lengths, Missing
<1>3. \A t, u \in Tasks : pc[t] \in {"measure", "create", "copy"} /\ pc[u] \in {"measure", "create", "copy"}
                         => t = u
  <2>1. \A t \in Tasks : pc[t] \in {"measure", "create", "copy"} => pc[t] \in Locked
    BY DEF Locked
  <2>2. \A t \in Tasks : pc[t] \in {"measure", "create", "copy"} => mu = t
    BY <2>1 DEF Inv, MutexOK
  <2> QED
    BY <2>2
<1>4. \A d \in Lengths : Cardinality(Units(d)) \in Nat
  BY UnitsFinite
<1>5. MaxTotal \in Nat
  BY LimitsAssumption
<1>6. CASE Shrinks
  <2>0. \A f \in Ids : Counted'[f] <= Counted[f]
    BY <1>0, <1>6, LimitsAssumption DEF Shrinks, Counted, Lengths, Missing
  <2>1. Cardinality(Units(Counted')) <= Cardinality(Units(Counted))
    BY <1>1, <2>0, LessData
  <2>2. Held'
    BY <1>1, <1>4, <1>5, <2>1 DEF Held
  <2>3. ASSUME NEW t \in Tasks, pc'[t] \in {"create", "copy"}
        PROVE  Cardinality(Units(Whole(t)')) <= MaxTotal
    <3>1. Whole(t)' \in Lengths /\ Whole(t) \in Lengths /\ Cardinality(Units(Whole(t))) <= MaxTotal
      BY <1>1, <1>2, <1>6, <2>3 DEF Shrinks, Fits, Whole, Lengths
    <3>2. \A f \in Ids : (Whole(t)')[f] <= Whole(t)[f]
      BY <1>1, <1>2, <1>6, <2>0, <2>3 DEF Shrinks, Whole, Lengths, Missing
    <3>3. Cardinality(Units(Whole(t)')) <= Cardinality(Units(Whole(t)))
      BY <3>1, <3>2, LessData
    <3> QED
      BY <1>4, <1>5, <3>1, <3>3
  <2> QED
    BY <2>2, <2>3 DEF Fits, Units
<1>7. ASSUME NEW t \in Tasks, Measure(t) PROVE Held' /\ Fits'
  <2> DEFINE f == file[t]
             rest == UnitsIn(Counted, Ids \ {f})
  <2>0. pc[t] = "measure" /\ UNCHANGED <<data, kind, size, file>> /\ data[f] = Missing
    BY <1>7 DEF Measure, disk, Inv, OpOK, UploadsOK, Uploading, Locked, Sweeping
  <2>1. pc[t] = "measure" /\ Counted' = Counted /\ size' = size /\ file' = file
    BY <2>0 DEF Counted
  <2>2. f \in Ids /\ Whole(t) \in Lengths /\ Whole(t)[f] = size[f] /\ size[f] \in Nat
    BY <1>1, <1>2, <2>1 DEF Whole, Lengths
  <2>3. UnitsIn(Whole(t), Ids \ {f}) = rest
    BY <2>2, <1>1 DEF UnitsIn, Units, Whole, Lengths
  <2>4. UnitsIn(Counted, Ids) = Units(Counted) /\ UnitsIn(Whole(t), Ids) = Units(Whole(t))
    BY DEF UnitsIn, Units
  <2>5. Cardinality(rest) \in Nat
    BY <1>1, UnitsFinite DEF UnitsIn
  <2>12. Counted[f] = Missing
    BY <2>0, <2>2 DEF Counted
  <2> HIDE DEF f, rest
  <2>6. Cardinality(Units(Counted)) = 0 + Cardinality(rest)
    BY <1>1, <2>2, <2>4, <2>12, UnitsAdd DEF f, rest
  <2>7. Cardinality(Units(Whole(t))) = size[f] + Cardinality(rest)
    <3>1. Cardinality(Units(Whole(t))) =
            (IF Whole(t)[f] = Missing THEN 0 ELSE Whole(t)[f]) + Cardinality(rest)
      BY <2>2, <2>3, <2>4, UnitsAdd
    <3> QED
      BY <2>2, <3>1 DEF Missing
  <2>8. Total = Cardinality(Units(Counted))
    BY <1>1, TotalCounts DEF Total
  <2>9. Cardinality(Units(Whole(t))) <= MaxTotal
    BY <1>7, <2>2, <2>5, <2>6, <2>7, <2>8 DEF Measure, f
  <2>10. \A u \in Tasks : pc'[u] \in {"create", "copy"} => u = t
    BY <1>3, <1>7, <2>1 DEF Measure, Goto, Inv, TypeOK
  <2>11. Whole(t)' = Whole(t)
    BY <2>1 DEF Whole
  <2> QED
    BY <2>1, <2>9, <2>10, <2>11 DEF Held, Fits, Units
<1>8. ASSUME NEW t \in Tasks, Create(t) \/ Copy(t) PROVE Held' /\ Fits'
  <2>1. pc[t] \in {"create", "copy"} /\ size' = size /\ file' = file
    BY <1>8 DEF Create, Copy
  <2>8. file[t] \in Ids /\ size[file[t]] \in 0..MaxFile
    BY <1>2, <2>1
  <2>9. data'[file[t]] <= size[file[t]] /\ kind' = kind
        /\ \A f \in Ids \ {file[t]} : data'[f] = data[f]
    BY <1>0, <1>8, <2>8 DEF Create, Copy, Lengths, Missing
  <2>10. Counted'[file[t]] <= size[file[t]] /\ \A f \in Ids \ {file[t]} : Counted'[f] = Counted[f]
    BY <2>8, <2>9 DEF Counted, Missing
  <2>2. \A f \in Ids : Counted'[f] <= Whole(t)[f]
    BY <1>1, <2>8, <2>10 DEF Whole, Lengths, Missing
  <2>3. Whole(t)' = Whole(t)
    BY <1>1, <2>1, <2>8, <2>10 DEF Whole, Lengths
  <2>4. Cardinality(Units(Whole(t))) <= MaxTotal
    BY <2>1 DEF Fits
  <2>5. Cardinality(Units(Counted')) <= Cardinality(Units(Whole(t)))
    BY <1>1, <1>2, <2>1, <2>2, LessData
  <2>6. Cardinality(Units(Counted')) <= MaxTotal
    BY <1>1, <1>2, <1>4, <1>5, <2>1, <2>4, <2>5
  <2>7. \A u \in Tasks : pc'[u] \in {"create", "copy"} => u = t
    BY <1>3, <1>8, <2>1 DEF Create, Copy, Goto, Inv, TypeOK
  <2> QED
    BY <2>3, <2>4, <2>6, <2>7 DEF Held, Fits, Units
<1> QED
  BY <1>6, <1>7, <1>8, OthersShrink

(* However uploads, deletes, failures and crashes follow each other, the   *)
(* directory holds no more than the limit of the data totalSizeLocked      *)
(* counts, all but the files named *.json (saveUploadedFile measures and   *)
(* writes under one mutex; what runs beside it only removes).              *)
THEOREM WithinLimitHolds == Spec => []WithinLimit
<1>1. Init => Held /\ Fits
  <2> SUFFICES ASSUME Init PROVE Held /\ Fits
    OBVIOUS
  <2>1. Units(Counted) = {}
    BY LimitsAssumption DEF Init, Units, Counted, Missing
  <2> QED
    BY <2>1, FS_EmptySet, LimitsAssumption DEF Init, Held, Fits
<1>2. Inv /\ Held => WithinLimit
  <2> SUFFICES ASSUME Inv, Held PROVE WithinLimit
    OBVIOUS
  <2>1. Counted \in Lengths
    BY LimitsAssumption DEF Inv, TypeOK, Lengths, Counted, Missing
  <2> QED
    BY <2>1, TotalCounts DEF Held, WithinLimit, Total
<1> QED
  BY <1>1, <1>2, LimitStep, InvHolds, PTL DEF Spec
=============================================================================
