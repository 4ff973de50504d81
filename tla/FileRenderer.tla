---------------------------- MODULE FileRenderer ----------------------------
(***************************************************************************)
(* FileRenderer.Render with Backup (renderer.go): the system calls, one    *)
(* action each, on a directory with hard links.  Any call may fail, and    *)
(* between any two of them the process may be killed or the machine lose   *)
(* its power; the program is then started again.                           *)
(***************************************************************************)
EXTENDS Integers, FiniteSets

CONSTANTS
    Contents,
    MaxRenders,  \* bounds
    MaxErrors,
    MaxCrashes,
    None

Torn    == "torn"                  \* what is left of a write cut short
Data    == Contents \cup {Torn}
Names   == {"dest", "bak", "old", "tmp"}
Inodes  == 1..Cardinality(Names)
Modes   == {"temp", "default", "user", "asked"}
Files   == [data : Data, mode : Modes, synced : BOOLEAN]
Results == {"error", "did", "would"}

\* None is something else than everything it stands in for.
ASSUME RendererAssumption ==
    /\ None \notin Contents \cup Inodes \cup Files \cup Results
    /\ MaxRenders \in Nat /\ MaxErrors \in Nat /\ MaxCrashes \in Nat

VARIABLES
    \* the configuration of the renderer
    perms,       \* None, or "asked"
    createDirs, withBackup,
    \* the disk
    parent,      \* the directory exists
    names,       \* what each name links to
    inodes,      \* their contents, mode, and whether they were synced
    \* Render
    rpc, contents, mode,
    result,      \* of the last Render
    \* bounds and history
    renders, errorsLeft, crashesLeft,
    before,      \* what the file held when Render began
    disturbed,   \* a call of this Render's Backup failed
    entangled,   \* .bak and .old.bak were the same file when it began
    backedUp     \* there has been a backup

settings == <<perms, createDirs, withBackup>>
disk     == <<parent, names, inodes>>
bounds   == <<renders, errorsLeft, crashesLeft>>
history  == <<before, disturbed, entangled, backedUp>>
vars     == <<settings, disk, rpc, contents, mode, result, bounds, history>>

Steps == {"idle", "read", "renameBak", "linkBak", "removeOld", "mkdir",
          "tempFile", "write", "sync", "stat", "chmod", "rename", "remove"}

TypeOK ==
    /\ perms \in {None, "asked"} /\ createDirs \in BOOLEAN
    /\ withBackup \in BOOLEAN
    /\ parent \in BOOLEAN
    /\ names \in [Names -> Inodes \cup {None}]
    /\ inodes \in [Inodes -> Files \cup {None}]
    /\ rpc \in Steps
    /\ contents \in Contents \cup {None}
    /\ mode \in Modes \cup {None}
    /\ result \in Results \cup {None}
    /\ renders \in 0..MaxRenders
    /\ errorsLeft \in 0..MaxErrors /\ crashesLeft \in 0..MaxCrashes
    /\ before \in Data \cup {None}
    /\ disturbed \in BOOLEAN /\ entangled \in BOOLEAN /\ backedUp \in BOOLEAN

\* What a reader of a name finds.
Reads(name) == IF names[name] = None THEN None ELSE inodes[names[name]].data

Init ==
    /\ perms \in {None, "asked"} /\ createDirs \in BOOLEAN
    /\ withBackup \in BOOLEAN
    /\ parent \in BOOLEAN
    /\ \E d \in IF parent THEN Contents \cup {None} ELSE {None} :
         /\ names = [n \in Names |-> IF n = "dest" /\ d # None THEN 1 ELSE None]
         /\ inodes = [i \in Inodes |->
              IF i = 1 /\ d # None
              THEN [data |-> d, mode |-> "user", synced |-> TRUE]
              ELSE None]
    /\ rpc = "idle" /\ contents = None /\ mode = None /\ result = None
    /\ renders = 0 /\ errorsLeft = MaxErrors /\ crashesLeft = MaxCrashes
    /\ before = None
    /\ disturbed = FALSE /\ entangled = FALSE /\ backedUp = FALSE

-----------------------------------------------------------------------------
(* The file system, which is external.                                     *)

\* A file without a name is gone.
Links(table) ==
    /\ names' = table
    /\ inodes' = [i \in Inodes |->
         IF \E n \in Names : table[n] = i THEN inodes[i] ELSE None]

FreeInode == CHOOSE i \in Inodes : inodes[i] = None

\* rename(2) replaces the target; with two names of one file it does nothing.
RenameFile(from, to) ==
    IF names[from] = names[to]
    THEN UNCHANGED <<names, inodes>>
    ELSE Links([names EXCEPT ![to] = names[from], ![from] = None])

-----------------------------------------------------------------------------

Goto(step) ==
    /\ rpc' = step
    /\ UNCHANGED <<settings, contents, mode, result, bounds, history>>

Costs == errorsLeft > 0 /\ errorsLeft' = errorsLeft - 1

\* Render returns an error; a temporary file is removed first (the defer).
FailsAt(step) ==
    /\ rpc = step
    /\ Costs
    /\ result' = "error"
    /\ rpc' = IF names["tmp"] = None THEN "idle" ELSE "remove"
    /\ contents' = IF names["tmp"] = None THEN None ELSE contents
    /\ UNCHANGED <<settings, disk, mode, renders, crashesLeft, history>>

Render ==
    /\ rpc = "idle"
    /\ renders < MaxRenders
    /\ renders' = renders + 1
    /\ contents' \in Contents
    /\ rpc' = "read"
    /\ result' = None /\ mode' = None
    /\ UNCHANGED <<settings, disk, errorsLeft, crashesLeft, history>>

ReadExisting ==
    /\ rpc = "read"
    /\ Reads("dest") # contents
    /\ rpc' = IF withBackup THEN "renameBak" ELSE "mkdir"
    /\ before' = Reads("dest")
    /\ disturbed' = FALSE
    /\ entangled' = (names["bak"] # None /\ names["bak"] = names["old"])
    /\ UNCHANGED <<settings, disk, contents, mode, result, bounds, backedUp>>

SameContents ==
    /\ rpc = "read"
    /\ Reads("dest") = contents
    /\ result' = "would"
    /\ rpc' = "idle" /\ contents' = None
    /\ before' = None
    /\ UNCHANGED <<settings, disk, mode, bounds, disturbed, entangled,
                   backedUp>>

ReadFails == FailsAt("read")

-----------------------------------------------------------------------------
(* Backup.  Errors are ignored.                                            *)

\* Mutant: the last backup goes even when there is no new one.
BackupCallFailsOn ==
    /\ rpc \in {"renameBak", "linkBak", "removeOld"}
    /\ Costs
    /\ disturbed' = TRUE
    /\ rpc' = CASE rpc = "renameBak" -> "linkBak"
                [] rpc = "linkBak"   -> "removeOld"
                [] rpc = "removeOld" -> "mkdir"
    /\ UNCHANGED <<settings, disk, contents, mode, result, renders,
                   crashesLeft, before, entangled, backedUp>>

BackupCallFails ==
    /\ rpc \in {"renameBak", "linkBak", "removeOld"}
    /\ Costs
    /\ disturbed' = TRUE
    /\ rpc' = IF rpc = "renameBak" THEN "linkBak" ELSE "mkdir"
    /\ UNCHANGED <<settings, disk, contents, mode, result, renders,
                   crashesLeft, before, entangled, backedUp>>

\* Mutant: .bak is left for link to replace.
RenameBakNot ==
    /\ rpc = "renameBak"
    /\ Goto("linkBak")
    /\ UNCHANGED disk

RenameBak ==
    /\ rpc = "renameBak"
    /\ IF names["bak"] = None
       THEN UNCHANGED <<names, inodes>>
       ELSE RenameFile("bak", "old")
    /\ Goto("linkBak")
    /\ UNCHANGED parent

\* link(2) does not replace its target.
LinkBak ==
    /\ rpc = "linkBak"
    /\ IF names["dest"] = None \/ names["bak"] # None
       THEN UNCHANGED <<names, inodes, backedUp>> /\ rpc' = "mkdir"
       ELSE /\ Links([names EXCEPT !["bak"] = names["dest"]])
            /\ backedUp' = TRUE
            /\ rpc' = "removeOld"
    /\ UNCHANGED <<settings, parent, contents, mode, result, bounds, before,
                   disturbed, entangled>>

RemoveOld ==
    /\ rpc = "removeOld"
    /\ Links([names EXCEPT !["old"] = None])
    /\ Goto("mkdir")
    /\ UNCHANGED parent

-----------------------------------------------------------------------------
(* atomicWrite.                                                            *)

ParentExists ==
    /\ rpc = "mkdir"
    /\ parent \/ createDirs
    /\ parent' = TRUE
    /\ Goto("tempFile")
    /\ UNCHANGED <<names, inodes>>

NoParentDir ==
    /\ rpc = "mkdir"
    /\ ~parent /\ ~createDirs
    /\ result' = "error"
    /\ rpc' = "idle" /\ contents' = None
    /\ UNCHANGED <<settings, disk, mode, bounds, history>>

MkdirFails == ~parent /\ createDirs /\ FailsAt("mkdir")

\* With mode 0600, whatever is asked for.
TempFile ==
    /\ rpc = "tempFile"
    /\ names' = [names EXCEPT !["tmp"] = FreeInode]
    /\ inodes' = [inodes EXCEPT ![FreeInode] =
                    [data |-> Torn, mode |-> "temp", synced |-> FALSE]]
    /\ Goto("write")
    /\ UNCHANGED parent

TempFileFails == FailsAt("tempFile")

OnTemp(update(_), next) ==
    /\ inodes' = [inodes EXCEPT ![names["tmp"]] = update(@)]
    /\ Goto(next)
    /\ UNCHANGED <<parent, names>>

\* Mutant: without Sync.
WriteOnly ==
    /\ rpc = "write"
    /\ OnTemp(LAMBDA i : [i EXCEPT !.data = contents], "stat")

Write ==
    /\ rpc = "write"
    /\ OnTemp(LAMBDA i : [i EXCEPT !.data = contents], "sync")

WriteFails == FailsAt("write")

Sync ==
    /\ rpc = "sync"
    /\ OnTemp(LAMBDA i : [i EXCEPT !.synced = TRUE], "stat")

SyncFails == FailsAt("sync")

\* The mode asked for, or the one the file has, or the default.
Stat ==
    /\ rpc = "stat"
    /\ mode' = IF perms # None THEN perms
               ELSE IF names["dest"] = None THEN "default"
               ELSE inodes[names["dest"]].mode
    /\ rpc' = "chmod"
    /\ UNCHANGED <<settings, disk, contents, result, bounds, history>>

StatFails == perms = None /\ FailsAt("stat")

\* Mutant: the mode of temporary files.
ChmodSkipped ==
    /\ rpc = "chmod"
    /\ OnTemp(LAMBDA i : i, "rename")

Chmod ==
    /\ rpc = "chmod"
    /\ OnTemp(LAMBDA i : [i EXCEPT !.mode = mode], "rename")

ChmodFails == FailsAt("chmod")

Rename ==
    /\ rpc = "rename"
    /\ RenameFile("tmp", "dest")
    /\ result' = "did"
    /\ rpc' = "remove"
    /\ UNCHANGED <<settings, parent, contents, mode, bounds, history>>

RenameFails == FailsAt("rename")

\* The deferred Remove, which finds nothing after the rename.
RemoveTemp ==
    /\ rpc = "remove"
    /\ Links([names EXCEPT !["tmp"] = None])
    /\ rpc' = "idle" /\ contents' = None
    /\ UNCHANGED <<settings, parent, mode, result, bounds, history>>

-----------------------------------------------------------------------------
(* Crashes.  The temporary file stays, under a name nobody uses again.     *)

Crashed ==
    /\ crashesLeft > 0
    /\ crashesLeft' = crashesLeft - 1
    /\ rpc' = "idle" /\ contents' = None
    /\ result' = None
    /\ UNCHANGED <<settings, parent, mode, renders, errorsLeft, history>>

Kill ==
    /\ rpc # "idle"
    /\ Crashed
    /\ Links([names EXCEPT !["tmp"] = None])

\* What was not synced is lost.  The directory is taken to keep the order of
\* its changes.
PowerLoss ==
    /\ Crashed
    /\ names' = [names EXCEPT !["tmp"] = None]
    /\ inodes' = [i \in Inodes |->
         IF ~\E n \in Names \ {"tmp"} : names[n] = i THEN None
         ELSE IF inodes[i].synced THEN inodes[i]
         ELSE [inodes[i] EXCEPT !.data = Torn]]

Next ==
    \/ Render \/ ReadExisting \/ SameContents \/ ReadFails
    \/ BackupCallFails \/ RenameBak \/ LinkBak \/ RemoveOld
    \/ ParentExists \/ NoParentDir \/ MkdirFails \/ TempFile \/ TempFileFails
    \/ Write \/ WriteFails \/ Sync \/ SyncFails \/ Stat \/ StatFails
    \/ Chmod \/ ChmodFails \/ Rename \/ RenameFails \/ RemoveTemp
    \/ Kill \/ PowerLoss

Spec == Init /\ [][Next]_vars

-----------------------------------------------------------------------------
(* Properties.                                                             *)

\* What AtomicFile promises: see there.
Atomic == INSTANCE AtomicFile WITH file <- Reads("dest"), wanted <- contents

RendersAtomically == Atomic!Spec

\* The file has the mode asked for, or else the one it had, or the default;
\* and it never goes away.
KeepsMode ==
    [][names'["dest"] # names["dest"] =>
         /\ names'["dest"] # None
         /\ inodes'[names'["dest"]].mode =
              IF perms # None THEN perms
              ELSE IF names["dest"] = None THEN "default"
              ELSE inodes[names["dest"]].mode]_vars

\* Once there is a backup there always is one, of all the contents: also when
\* every call may fail, and after a crash between any two calls of Backup.
BackupSurvives ==
    backedUp => \E name \in {"bak", "old"} : Reads(name) \in Contents

\* Once Render has replaced a file, and no call of Backup has failed, .bak has
\* what was in it.  ("Backup causes a backup of the rendered file to be made",
\* renderer.go:64.)
BackupIsMade ==
    (result = "did" /\ withBackup /\ before # None /\ ~disturbed) =>
        Reads("bak") = before

\* The same, unless .bak and .old.bak have become names of one file, which
\* Backup never separates again.
BackupIsPrevious == ~entangled => BackupIsMade
=============================================================================
