---------------------------- MODULE AtomicReplace ----------------------------
(***************************************************************************)
(* storage.atomic_replace and atomic_write_bytes: processes that replace    *)
(* one file, each through a temporary file of its own, on a file system     *)
(* that keeps after a power loss only what was synchronised.  What is not   *)
(* synchronised may survive or not: the contents of a file may be torn, of  *)
(* the renames since the directory was last synchronised any prefix may be  *)
(* there, and a directory that was made on the way may be gone with all it  *)
(* holds: its own entry, in the directory above, is never synchronised.     *)
(***************************************************************************)
EXTENDS Naturals

CONSTANTS
    Writer,        \* processes
    Value,         \* payloads
    NoEntry,       \* what a name that is not there leads to
    MaxVersions,   \* bound: replacements
    MaxAccidents   \* bound: errors, interrupts, crashes and power losses

ASSUME NoEntryAssumption == NoEntry \notin [val : Value, version : Nat, synced : BOOLEAN]

File == [val : Value, version : Nat, synced : BOOLEAN]

VARIABLES
    directory, \* path.parent: "absent", "made" or "durable", as its own entry is
    path,      \* the file readers see: a File or NoEntry
    durable,   \* what the synchronised directory names
    renamed,   \* files the directory has named since
    torn,      \* the file that is read was not wholly written
    pc,        \* of each writer
    payload,   \* what it writes
    temp,      \* the last one it made: "none", "empty", "written" or "synced"
    version,   \* history: replacements so far
    written,   \* history: the version a writer has put in place, or 0
    returned,  \* history: the last version whose writer has returned its digest
    gone,      \* history: the last version that has gone with its directory
    accidents

writeVars == <<directory, path, durable, renamed, torn, pc, payload, temp, version, written,
              returned, gone, accidents>>

WriteInit ==
    /\ directory \in {"absent", "durable"}
    /\ path = NoEntry
    /\ durable = NoEntry
    /\ renamed = {}
    /\ torn = FALSE
    /\ pc = [w \in Writer |-> "idle"]
    /\ payload \in [Writer -> Value]
    /\ temp = [w \in Writer |-> "none"]
    /\ version = 0
    /\ written = [w \in Writer |-> 0]
    /\ returned = 0
    /\ gone = 0
    /\ accidents = 0

Accident ==
    /\ accidents < MaxAccidents
    /\ accidents' = accidents + 1

Go(w, at, next) ==
    /\ pc[w] = at
    /\ pc' = [pc EXCEPT ![w] = next]

-----------------------------------------------------------------------------
\* path.parent.mkdir: its parents are not told apart from it.
MakeDirectory(w) ==
    /\ version < MaxVersions
    /\ Go(w, "idle", "create")
    /\ directory' = IF directory = "absent" THEN "made" ELSE directory
    /\ UNCHANGED <<path, durable, renamed, torn, payload, temp, version, written,
                   returned, gone, accidents>>

CreateTemporary(w) ==
    /\ Go(w, "create", "write")
    /\ \E v \in Value : payload' = [payload EXCEPT ![w] = v]
    /\ temp' = [temp EXCEPT ![w] = "empty"]
    /\ written' = [written EXCEPT ![w] = 0]
    /\ UNCHANGED <<directory, path, durable, renamed, torn, version, returned, gone, accidents>>

WriteTemporary(w) ==
    /\ Go(w, "write", "sync")
    /\ temp' = [temp EXCEPT ![w] = "written"]
    /\ UNCHANGED <<directory, path, durable, renamed, torn, payload, version, written,
                   returned, gone, accidents>>

\* Mutant: the contents are left to the operating system.
SkipSync(w) ==
    /\ Go(w, "sync", "rename")
    /\ UNCHANGED <<directory, path, durable, renamed, torn, payload, temp, version, written,
                   returned, gone, accidents>>

SyncTemporary(w) ==
    /\ Go(w, "sync", "rename")
    /\ temp' = [temp EXCEPT ![w] = "synced"]
    /\ UNCHANGED <<directory, path, durable, renamed, torn, payload, version, written,
                   returned, gone, accidents>>

Rename(w) ==
    /\ Go(w, "rename", "syncDirectory")
    /\ version' = version + 1
    /\ path' = [val |-> payload[w], version |-> version + 1, synced |-> temp[w] = "synced"]
    /\ renamed' = renamed \cup {path'}
    /\ torn' = FALSE
    /\ temp' = [temp EXCEPT ![w] = "none"]
    /\ written' = [written EXCEPT ![w] = version + 1]
    /\ UNCHANGED <<directory, durable, payload, returned, gone, accidents>>

\* Mutant: the directory is left to the operating system.
SkipDirectory(w) ==
    /\ Go(w, "syncDirectory", "verify")
    /\ UNCHANGED <<directory, path, durable, renamed, torn, payload, temp, version, written,
                   returned, gone, accidents>>

\* fsync_directory makes durable whatever the directory names by then.
SyncDirectory(w) ==
    /\ Go(w, "syncDirectory", "verify")
    /\ durable' = path
    /\ renamed' = {}
    /\ UNCHANGED <<directory, path, torn, payload, temp, version, written, returned, gone, accidents>>

\* atomic_write_bytes reads the file again and returns the digest, or raises when it
\* is no longer the payload's.
Verify(w) ==
    /\ Go(w, "verify", "idle")
    /\ returned' = IF path # NoEntry /\ path.val = payload[w] /\ written[w] > returned
                   THEN written[w] ELSE returned
    /\ UNCHANGED <<directory, path, durable, renamed, torn, payload, temp, version, written,
                   gone, accidents>>

\* An error or an interrupt, at any step.  The temporary file is unlinked, except by an
\* interrupt between its creation and the try; before that there is none of this call.
Raise(w) ==
    /\ pc[w] # "idle"
    /\ Accident
    /\ pc' = [pc EXCEPT ![w] = "idle"]
    /\ \/ pc[w] # "create" /\ temp' = [temp EXCEPT ![w] = "none"]
       \/ pc[w] \in {"create", "write"} /\ UNCHANGED temp
    /\ UNCHANGED <<directory, path, durable, renamed, torn, payload, version, written,
                   returned, gone>>

-----------------------------------------------------------------------------
\* The temporary file of a process that is gone stays under a name nobody reads.
KillWriter(w) ==
    /\ pc[w] # "idle"
    /\ Accident
    /\ pc' = [pc EXCEPT ![w] = "idle"]
    /\ UNCHANGED <<directory, path, durable, renamed, torn, payload, temp, version, written,
                   returned, gone>>

\* What the directory holds after a power loss: what it named when it was last
\* synchronised, or a later name.
DirectorySurvives ==
    /\ directory' = IF directory = "made" THEN "durable" ELSE directory
    /\ \E left \in renamed \cup {durable} :
        /\ path' = left
        /\ durable' = left
        /\ torn' \in IF left # NoEntry /\ ~left.synced THEN BOOLEAN ELSE {FALSE}
    /\ \E lost \in SUBSET Writer :
        temp' = [w \in Writer |-> IF w \in lost THEN "none" ELSE temp[w]]
    /\ UNCHANGED gone

\* Nothing has synchronised the directory above it.
DirectoryGone ==
    /\ directory = "made"
    /\ directory' = "absent"
    /\ path' = NoEntry
    /\ durable' = NoEntry
    /\ torn' = FALSE
    /\ temp' = [w \in Writer |-> "none"]
    /\ gone' = version

PowerLoss ==
    /\ Accident
    /\ DirectorySurvives \/ DirectoryGone
    /\ renamed' = {}
    /\ pc' = [w \in Writer |-> "idle"]
    /\ UNCHANGED <<payload, version, written, returned>>

-----------------------------------------------------------------------------
WriterStep(w) ==
    \/ MakeDirectory(w)
    \/ CreateTemporary(w)
    \/ WriteTemporary(w)
    \/ SyncTemporary(w)
    \/ Rename(w)
    \/ SyncDirectory(w)
    \/ Verify(w)

WriteNext ==
    \/ \E w \in Writer : WriterStep(w) \/ Raise(w) \/ KillWriter(w)
    \/ PowerLoss

WriteSpec == WriteInit /\ [][WriteNext]_writeVars

-----------------------------------------------------------------------------
(* Properties.                                                             *)

\* The type invariant; a file is renamed when it is there and synchronised, in a
\* directory that is there.
TypeOK ==
    /\ directory \in {"absent", "made", "durable"}
    /\ path \in File \cup {NoEntry}
    /\ durable \in File \cup {NoEntry}
    /\ renamed \subseteq File
    /\ torn \in BOOLEAN
    /\ pc \in [Writer -> {"idle", "create", "write", "sync", "rename", "syncDirectory", "verify"}]
    /\ payload \in [Writer -> Value]
    /\ temp \in [Writer -> {"none", "empty", "written", "synced"}]
    /\ version \in Nat
    /\ written \in [Writer -> Nat]
    /\ returned \in Nat
    /\ gone \in Nat
    /\ accidents \in Nat
    /\ \A w \in Writer : pc[w] = "rename" => temp[w] = "synced"
    /\ directory = "absent" => path = NoEntry /\ \A w \in Writer : pc[w] = "idle"

\* A reader sees a payload whole or not at all, whenever the power fails: the
\* contents are durable before the name is (storage.py, 143 to 147).
NeverTorn == ~torn

\* A write that has returned its digest is not lost by a power loss, unless a later
\* one has replaced it (148), or unless the whole directory is gone, whose entry the
\* call that made it has not synchronised (138).
ReturnedIsDurable ==
    returned > gone => durable # NoEntry /\ durable.version >= returned
=============================================================================
