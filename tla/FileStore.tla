----------------------------- MODULE FileStore -----------------------------
(***************************************************************************)
(* openAIFileStore: uploaded files on disk, each a data file and a JSON    *)
(* file of metadata.  Uploads and the cleanup before them, or at start,    *)
(* hold the store's mutex; deletes and reads do not.                       *)
(*                                                                         *)
(* A step is one operation on the file system.  Content is abstracted to   *)
(* its length.  The process may die at any step; what it wrote stays.      *)
(*                                                                         *)
(* The stored name of an upload keeps its extension, and the store takes   *)
(* every name that ends in .json for metadata.  So uploads are of three    *)
(* kinds: "plain"; "json", whose name ends so and whose content does not   *)
(* decode as metadata; "metadata", whose content does, and names no path.  *)
(***************************************************************************)
EXTENDS Integers, FiniteSetsExt

CONSTANTS
  Ids,         \* ids newOpenAIFileID returns: random, each of them once
  Tasks,       \* goroutines that serve requests
  MaxFile,     \* openAIFileStore.maxFile
  MaxTotal,    \* openAIFileStore.maxTotal
  Uploads,     \* what callers upload: length and kind
  Operations,  \* what happens in this deployment
  NoTask,
  NoId

Kinds == {"plain", "json", "metadata"}

ASSUME LimitsAssumption == MaxFile \in Nat \ {0} /\ MaxTotal \in Nat
ASSUME UploadsAssumption == Uploads \subseteq (Nat \ {0}) \X Kinds
ASSUME OperationsAssumption ==
  Operations \subseteq {"upload", "delete", "read", "fail", "expire", "crash"}
ASSUME NoAssumption == NoTask \notin Tasks /\ NoId \notin Ids /\ IsFiniteSet(Ids)

Missing == -1

VARIABLES
  data,     \* length of the data file
  meta,     \* "none", "torn" (not JSON) or "whole"
  old,      \* ids older than ttl
  size,     \* what was uploaded under the id, 0: the id is unused
  kind,     \* of what was uploaded
  mu,       \* openAIFileStore.mu
  op, pc,   \* operation and next step of each task
  file,     \* the id it is about
  known,    \* cleanupLocked: metadata
  pending,  \* those it has not looked at yet
  entries,  \* the data files of its directory listing, not yet looked at
  saved,    \* history: ids returned to their uploader
  deleted   \* history: ids someone has begun to delete

disk == <<data, meta, old, size, kind>>
cleaning == <<known, pending, entries>>
history == <<saved, deleted>>
vars == <<disk, mu, op, pc, file, cleaning, history>>

Init ==
  /\ data = [f \in Ids |-> Missing]
  /\ meta = [f \in Ids |-> "none"]
  /\ old = {}
  /\ size = [f \in Ids |-> 0]
  /\ kind = [f \in Ids |-> "plain"]
  /\ mu = NoTask
  /\ op = [t \in Tasks |-> "none"]
  /\ pc = [t \in Tasks |-> "idle"]
  /\ file = [t \in Tasks |-> NoId]
  /\ known = {} /\ pending = {} /\ entries = {}
  /\ saved = {} /\ deleted = {}

-----------------------------------------------------------------------------
Goto(t, label) == pc' = [pc EXCEPT ![t] = label]

(* The process is up: its constructor has cleaned the directory. *)
Serving == \A t \in Tasks : op[t] # "boot"

Start(t, o, f, label) ==
  /\ o \in Operations
  /\ Serving
  /\ pc[t] = "idle"
  /\ op' = [op EXCEPT ![t] = o]
  /\ file' = [file EXCEPT ![t] = f]
  /\ Goto(t, label)

Finish(t) ==
  /\ op' = [op EXCEPT ![t] = "none"]
  /\ file' = [file EXCEPT ![t] = NoId]
  /\ Goto(t, "idle")

Unlock(t) == mu' = NoTask /\ Finish(t)

RemoveData(f) == data' = [data EXCEPT ![f] = Missing]
RemoveMeta(f) == meta' = [meta EXCEPT ![f] = "none"]

-----------------------------------------------------------------------------
(* saveUploadedFile: the mutex.  A larger upload is refused before it. *)

StartUpload(t, f, u) ==
  /\ size[f] = 0
  /\ u[1] <= MaxFile
  /\ size' = [size EXCEPT ![f] = u[1]]
  /\ kind' = [kind EXCEPT ![f] = u[2]]
  /\ Start(t, "upload", f, "lock")
  /\ UNCHANGED <<data, meta, old, mu, cleaning, history>>

(* Mutant of Lock: the mutex is not waited for. *)
LockAlways(t) ==
  /\ pc[t] = "lock"
  /\ mu' = t
  /\ Goto(t, "list")
  /\ UNCHANGED <<disk, op, file, cleaning, history>>

Lock(t) ==
  /\ pc[t] = "lock"
  /\ mu = NoTask
  /\ mu' = t
  /\ Goto(t, "list")
  /\ UNCHANGED <<disk, op, file, cleaning, history>>

-----------------------------------------------------------------------------
(* cleanupLocked, in an upload or in the constructor. *)

(* A data file that is named as metadata and cannot be decoded. *)
Undecodable(f) == kind[f] = "json" \/ (kind[f] = "metadata" /\ data[f] # size[f])

(* The listing.  What is named as metadata and cannot be decoded goes, and *)
(* the data files looked at later are the others.                          *)
List(t) ==
  /\ pc[t] = "list"
  /\ known' = {f \in Ids : meta[f] = "whole"}
  /\ pending' = known'
  /\ entries' = {f \in Ids : data[f] # Missing /\ kind[f] = "plain"}
  /\ meta' = [f \in Ids |-> IF meta[f] = "torn" THEN "none" ELSE meta[f]]
  /\ data' = [f \in Ids |-> IF Undecodable(f) THEN Missing ELSE data[f]]
  /\ Goto(t, "sweep")
  /\ UNCHANGED <<old, size, kind, mu, op, file, history>>

Kept(t, f) ==
  /\ pc[t] = "sweep"
  /\ f \in pending
  /\ data[f] # Missing /\ f \notin old
  /\ pending' = pending \ {f}
  /\ UNCHANGED <<disk, mu, op, pc, file, known, entries, history>>

DataGone(t, f) ==
  /\ pc[t] = "sweep"
  /\ f \in pending
  /\ data[f] = Missing
  /\ RemoveMeta(f)
  /\ pending' = pending \ {f}
  /\ UNCHANGED <<data, old, size, kind, mu, op, pc, file, known, entries, history>>

(* Two removals, the data first. *)
ExpiredData(t, f) ==
  /\ pc[t] = "sweep"
  /\ f \in pending
  /\ data[f] # Missing /\ f \in old
  /\ RemoveData(f)
  /\ known' = known \ {f}
  /\ Goto(t, "sweepmeta")
  /\ UNCHANGED <<meta, old, size, kind, mu, op, file, pending, entries, history>>

ExpiredMeta(t) ==
  /\ pc[t] = "sweepmeta"
  /\ \E f \in pending \ known :
       RemoveMeta(f) /\ pending' = pending \ {f}
  /\ Goto(t, "sweep")
  /\ UNCHANGED <<data, old, size, kind, mu, op, file, known, entries, history>>

(* Mutants of Orphan: no listed data file is removed, or every one is. *)
OrphanNone(t, f) ==
  /\ pc[t] = "sweep"
  /\ pending = {}
  /\ f \in entries
  /\ entries' = entries \ {f}
  /\ UNCHANGED <<disk, mu, op, pc, file, known, pending, history>>

OrphanAll(t, f) ==
  /\ pc[t] = "sweep"
  /\ pending = {}
  /\ f \in entries
  /\ entries' = entries \ {f}
  /\ RemoveData(f)
  /\ UNCHANGED <<meta, old, size, kind, mu, op, pc, file, known, pending, history>>

(* A listed data file is removed unless metadata that was kept names it. *)
Orphan(t, f) ==
  /\ pc[t] = "sweep"
  /\ pending = {}
  /\ f \in entries
  /\ entries' = entries \ {f}
  /\ IF f \in known THEN UNCHANGED data ELSE RemoveData(f)
  /\ UNCHANGED <<meta, old, size, kind, mu, op, pc, file, known, pending, history>>

SweepEnds(t) ==
  /\ pc[t] = "sweep"
  /\ pending = {} /\ entries = {}
  /\ known' = {}
  /\ IF op[t] = "boot"
       THEN Unlock(t)
       ELSE Goto(t, "measure") /\ UNCHANGED <<mu, op, file>>
  /\ UNCHANGED <<disk, pending, entries, history>>

-----------------------------------------------------------------------------
(* saveUploadedFile: the two files. *)

(* totalSizeLocked skips what is named as metadata. *)
Counted == [f \in Ids |-> IF kind[f] = "plain" THEN data[f] ELSE Missing]
Total == MapThenSumSet(LAMBDA f : IF Counted[f] = Missing THEN 0 ELSE Counted[f], Ids)

(* The directory cannot be listed, a file a delete has just removed cannot *)
(* be examined (DirEntry.Info), or the data file cannot be created.        *)
EarlyFailure(t) ==
  /\ "fail" \in Operations
  /\ pc[t] \in {"list", "measure", "create"}
  /\ Unlock(t)
  /\ UNCHANGED <<disk, cleaning, history>>

TooMuch(t) ==
  /\ pc[t] = "measure"
  /\ Total + size[file[t]] > MaxTotal
  /\ Unlock(t)
  /\ UNCHANGED <<disk, cleaning, history>>

Measure(t) ==
  /\ pc[t] = "measure"
  /\ Total + size[file[t]] <= MaxTotal
  /\ Goto(t, "create")
  /\ UNCHANGED <<disk, mu, op, file, cleaning, history>>

Create(t) ==
  /\ pc[t] = "create"
  /\ data' = [data EXCEPT ![file[t]] = 0]
  /\ Goto(t, "copy")
  /\ UNCHANGED <<meta, old, size, kind, mu, op, file, cleaning, history>>

Copy(t) ==
  /\ pc[t] = "copy"
  /\ data[file[t]] < size[file[t]]
  /\ data' = [data EXCEPT ![file[t]] = @ + 1]
  /\ UNCHANGED <<meta, old, size, kind, mu, op, pc, file, cleaning, history>>

(* Mutant of CopyFails: the mutex is not given back. *)
CopyFailsKeepsMutex(t) ==
  /\ "fail" \in Operations
  /\ pc[t] = "copy"
  /\ RemoveData(file[t])
  /\ Finish(t)
  /\ UNCHANGED <<meta, old, size, kind, mu, cleaning, history>>

(* The disk is full, the caller has gone, the file cannot be closed. *)
CopyFails(t) ==
  /\ "fail" \in Operations
  /\ pc[t] = "copy"
  /\ RemoveData(file[t])
  /\ Unlock(t)
  /\ UNCHANGED <<meta, old, size, kind, cleaning, history>>

(* Mutant of OpenMeta: the metadata is written while the data is copied. *)
OpenMetaEarly(t) ==
  /\ pc[t] = "copy"
  /\ meta' = [meta EXCEPT ![file[t]] = "torn"]
  /\ Goto(t, "write")
  /\ UNCHANGED <<data, old, size, kind, mu, op, file, cleaning, history>>

(* os.WriteFile creates the metadata, then writes it. *)
OpenMeta(t) ==
  /\ pc[t] = "copy"
  /\ data[file[t]] = size[file[t]]
  /\ meta' = [meta EXCEPT ![file[t]] = "torn"]
  /\ Goto(t, "write")
  /\ UNCHANGED <<data, old, size, kind, mu, op, file, cleaning, history>>

WriteMeta(t) ==
  /\ pc[t] = "write"
  /\ meta' = [meta EXCEPT ![file[t]] = "whole"]
  /\ saved' = saved \cup {file[t]}
  /\ Unlock(t)
  /\ UNCHANGED <<data, old, size, kind, cleaning, deleted>>

(* The metadata is not created, is left torn, or is reported as failed     *)
(* after it was written; the data is then removed and the metadata left.   *)
WriteMetaFails(t) ==
  /\ "fail" \in Operations
  /\ \/ pc[t] = "write" /\ meta' \in {meta, [meta EXCEPT ![file[t]] = "whole"]}
     \/ pc[t] = "copy" /\ data[file[t]] = size[file[t]] /\ UNCHANGED meta
  /\ Goto(t, "undo")
  /\ UNCHANGED <<data, old, size, kind, mu, op, file, cleaning, history>>

Undo(t) ==
  /\ pc[t] = "undo"
  /\ RemoveData(file[t])
  /\ Unlock(t)
  /\ UNCHANGED <<meta, old, size, kind, cleaning, history>>

-----------------------------------------------------------------------------
(* deleteFile, readFileContent: no mutex.  Without metadata they fail. *)

StartDelete(t, f) ==
  /\ meta[f] = "whole"
  /\ deleted' = deleted \cup {f}
  /\ Start(t, "delete", f, "unlink")
  /\ UNCHANGED <<disk, mu, cleaning, saved>>

DeleteData(t) ==
  /\ pc[t] = "unlink"
  /\ RemoveData(file[t])
  /\ Goto(t, "unlinkmeta")
  /\ UNCHANGED <<meta, old, size, kind, mu, op, file, cleaning, history>>

DeleteMeta(t) ==
  /\ pc[t] = "unlinkmeta"
  /\ RemoveMeta(file[t])
  /\ Finish(t)
  /\ UNCHANGED <<data, old, size, kind, mu, cleaning, history>>

StartRead(t, f) ==
  /\ meta[f] = "whole"
  /\ Start(t, "read", f, "open")
  /\ UNCHANGED <<disk, mu, cleaning, history>>

ReadContent(t) ==
  /\ pc[t] = "open"
  /\ Finish(t)
  /\ UNCHANGED <<disk, mu, cleaning, history>>

-----------------------------------------------------------------------------
(* A day passes. *)
Expire(f) ==
  /\ "expire" \in Operations
  /\ f \notin old
  /\ meta[f] = "whole"
  /\ old' = old \cup {f}
  /\ UNCHANGED <<data, meta, size, kind, mu, op, pc, file, cleaning, history>>

(* The process dies; the next one begins with newOpenAIFileStore. *)
Crash(t) ==
  /\ "crash" \in Operations
  /\ mu' = t
  /\ op' = [u \in Tasks |-> IF u = t THEN "boot" ELSE "none"]
  /\ pc' = [u \in Tasks |-> IF u = t THEN "list" ELSE "idle"]
  /\ file' = [u \in Tasks |-> NoId]
  /\ known' = {} /\ pending' = {} /\ entries' = {}
  /\ UNCHANGED <<disk, history>>

-----------------------------------------------------------------------------
Cleanup(t) ==
  \/ List(t) \/ ExpiredMeta(t) \/ SweepEnds(t)
  \/ \E f \in Ids : Kept(t, f) \/ DataGone(t, f) \/ ExpiredData(t, f) \/ Orphan(t, f)

Store(t) ==
  \/ EarlyFailure(t) \/ TooMuch(t) \/ Measure(t) \/ Create(t)
  \/ Copy(t) \/ CopyFails(t) \/ OpenMeta(t) \/ WriteMeta(t) \/ WriteMetaFails(t) \/ Undo(t)

Unlocked(t) == DeleteData(t) \/ DeleteMeta(t) \/ ReadContent(t)

Next ==
  \/ \E t \in Tasks, f \in Ids, u \in Uploads : StartUpload(t, f, u)
  \/ \E t \in Tasks, f \in Ids : StartDelete(t, f) \/ StartRead(t, f)
  \/ \E t \in Tasks : Lock(t) \/ Cleanup(t) \/ Store(t) \/ Unlocked(t)
  \/ \E f \in Ids : Expire(f)
  \/ \E t \in Tasks : Crash(t)

Spec == Init /\ [][Next]_vars

(* File operations end, and a Go mutex that is waited for is handed over   *)
(* (sync.Mutex leaves no waiter behind for ever).                          *)
FairSpec ==
  /\ Spec
  /\ \A t \in Tasks :
       WF_vars(Cleanup(t) \/ Store(t) \/ Unlocked(t)) /\ SF_vars(Lock(t))

-----------------------------------------------------------------------------
TypeOK ==
  /\ data \in [Ids -> Missing..MaxFile]
  /\ meta \in [Ids -> {"none", "torn", "whole"}]
  /\ old \subseteq Ids
  /\ size \in [Ids -> 0..MaxFile]
  /\ kind \in [Ids -> Kinds]
  /\ mu \in Tasks \cup {NoTask}
  /\ op \in [Tasks -> {"none", "boot", "upload", "delete", "read"}]
  /\ pc \in [Tasks -> {"idle", "lock", "list", "sweep", "sweepmeta", "measure", "create",
                       "copy", "write", "undo", "unlink", "unlinkmeta", "open"}]
  /\ file \in [Tasks -> Ids \cup {NoId}]
  /\ known \subseteq Ids /\ pending \subseteq Ids /\ entries \subseteq Ids
  /\ saved \subseteq Ids /\ deleted \subseteq Ids

(* The directory never holds more than OPENAI_FILE_STORE_MAX_BYTES of      *)
(* the data that is counted, all but the files named *.json, whatever is   *)
(* uploaded, deleted and left behind by a crash at the same time           *)
(* (saveUploadedFile).                                                     *)
WithinLimit == Total <= MaxTotal

(* A reader that has seen the metadata finds all of the content or none:   *)
(* never a file that is still being copied, or the remains of one          *)
(* (readFileContent takes no lock).                                        *)
Readable ==
  \A t \in Tasks : pc[t] = "open" => data[file[t]] \in {Missing, size[file[t]]}

(* A file whose id was returned is complete on disk until somebody deletes *)
(* it or it expires: no cleanup, failure or crash takes it away, unless a  *)
(* cleanup takes the file itself for metadata it cannot decode.            *)
Complete(f) == data[f] = size[f] /\ meta[f] = "whole"
Durable == \A f \in saved \ (deleted \cup old) : Complete(f) \/ kind[f] = "json"

(* When a cleanup ends, what crashes and failures had left is gone: every  *)
(* data file belongs to metadata that can be read, or passes for metadata  *)
(* itself, and all metadata can be read (cleanupLocked).                   *)
SweepEnded(t) ==
  pc[t] = "sweep" /\ pc'[t] \in {"idle", "measure"} /\ \A u \in Tasks : op'[u] # "boot"
CleanedUp ==
  [][(\E t \in Tasks : SweepEnded(t)) =>
       \A f \in Ids :
         /\ meta[f] # "torn"
         /\ data[f] # Missing => meta[f] = "whole" \/ kind[f] = "metadata"]_vars

(* Every upload is answered: no path keeps the mutex.                      *)
UploadsEnd == \A t \in Tasks : op[t] = "upload" ~> op[t] # "upload"

(* Cleaned before an upload are "expired and orphaned files" (README.md),  *)
(* translated: a file that is neither stays.                               *)
OnlyExpiredGo == \A f \in saved \ (deleted \cup old) : Complete(f)
=============================================================================
