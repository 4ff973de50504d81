------------------------- MODULE FileRendererProofs -------------------------
(***************************************************************************)
(* Proofs about FileRenderer, for any contents and any number of           *)
(* renderings, failing calls and crashes: Render implements AtomicFile,    *)
(* the file keeps its mode, and backups are kept.                          *)
(*                                                                         *)
(* The inductive invariant says what the disk looks like at every step of  *)
(* Render, so that a crash there leaves the files that matter whole.       *)
(***************************************************************************)
EXTENDS FileRenderer, FiniteSetTheorems, TLAPS

\* The names that outlive a Render.
Kept == Names \ {"tmp"}

\* The steps at which there is a temporary file.
Writing == {"write", "sync", "stat", "chmod", "rename"}

\* Whoever has a name is there, and nobody else is.
Linked == \A i \in Inodes : inodes[i] # None <=> \E n \in Names : names[n] = i

\* What Render and Backup leave behind is complete, and safe from the power.
Whole ==
    \A n \in Kept : names[n] # None =>
        inodes[names[n]].data \in Contents /\ inodes[names[n]].synced

\* A rendering under way has contents, and one that succeeded is at its end.
Asked ==
    /\ rpc = "idle" <=> contents = None
    /\ result = "did" => rpc \in {"remove", "idle"}

\* The temporary file has no other name.
Alone ==
    /\ rpc \in Writing => names["tmp"] # None
    /\ names["tmp"] # None =>
         /\ rpc \in Writing \cup {"remove"}
         /\ \A n \in Kept : names[n] # names["tmp"]

\* The mode the new file is to have.
WantedMode ==
    IF perms # None THEN perms
    ELSE IF names["dest"] = None THEN "default"
    ELSE inodes[names["dest"]].mode

\* How far the temporary file has come.
Written ==
    /\ rpc \in Writing \ {"write"} => inodes[names["tmp"]].data = contents
    /\ rpc \in {"stat", "chmod", "rename"} => inodes[names["tmp"]].synced
    /\ rpc = "chmod" => mode = WantedMode
    /\ rpc = "rename" => inodes[names["tmp"]].mode = WantedMode

\* The old backup goes only after there is a new one.
BackupInv ==
    /\ backedUp => names["bak"] # None \/ names["old"] # None
    /\ rpc = "removeOld" => names["bak"] # None

\* How far the backup has come, when none of its calls fails.
Undisturbed == withBackup /\ ~disturbed /\ ~entangled

PreviousInv ==
    /\ rpc \in {"renameBak", "linkBak", "removeOld"} => withBackup
    /\ rpc \in {"renameBak", "linkBak"} => before = Reads("dest")
    /\ Undisturbed =>
         /\ rpc = "renameBak" /\ names["bak"] # None => names["bak"] # names["old"]
         /\ rpc = "linkBak" => names["bak"] = None
         /\ before # None /\ (result = "did" \/ rpc \in {"removeOld", "mkdir", "tempFile"} \cup Writing)
              => Reads("bak") = before

DiskInv == TypeOK /\ Linked /\ Whole /\ Asked /\ Alone /\ Written

Ind == DiskInv /\ BackupInv /\ PreviousInv

-----------------------------------------------------------------------------
(* The file system.                                                        *)

\* There is an inode for each name.
LEMMA InodesAre == Inodes = 1..4
<1>1. IsFiniteSet({"dest"}) /\ Cardinality({"dest"}) = 1
  BY FS_Singleton
<1>2. IsFiniteSet({"dest"} \cup {"bak"}) /\ Cardinality({"dest"} \cup {"bak"}) = 2
  BY <1>1, FS_AddElement
<1>3. /\ IsFiniteSet({"dest"} \cup {"bak"} \cup {"old"})
      /\ Cardinality({"dest"} \cup {"bak"} \cup {"old"}) = 3
  BY <1>2, FS_AddElement
<1>4. Cardinality({"dest"} \cup {"bak"} \cup {"old"} \cup {"tmp"}) = 4
  BY <1>3, FS_AddElement
<1>5. Names = {"dest"} \cup {"bak"} \cup {"old"} \cup {"tmp"}
  BY DEF Names
<1>6. QED
  BY <1>4, <1>5 DEF Inodes

\* Whatever names are moved or removed, a file that keeps a name stays as it is.
LEMMA LinksFacts ==
    ASSUME TypeOK, Linked, NEW table \in [Names -> Inodes \cup {None}],
           \A n \in Names : table[n] = None \/ \E m \in Names : table[n] = names[m],
           Links(table)
    PROVE  /\ names' \in [Names -> Inodes \cup {None}]
           /\ inodes' \in [Inodes -> Files \cup {None}]
           /\ Linked'
           /\ names' = table
           /\ \A n \in Names : table[n] # None => inodes'[table[n]] = inodes[table[n]]
<1>1. names' = table /\ names' \in [Names -> Inodes \cup {None}]
  BY DEF Links
<1>2. inodes' \in [Inodes -> Files \cup {None}]
  BY DEF Links, TypeOK
<1>3. \A n \in Names : table[n] # None => inodes'[table[n]] = inodes[table[n]]
  BY DEF Links
<1>4. Linked'
  BY <1>1, RendererAssumption DEF Links, Linked, TypeOK
<1>5. QED
  BY <1>1, <1>2, <1>3, <1>4

\* There is a free inode while there is no temporary file.
LEMMA FreeInodeFacts ==
    ASSUME TypeOK, Linked, names["tmp"] = None
    PROVE  /\ FreeInode \in Inodes
           /\ inodes[FreeInode] = None
           /\ \A n \in Names : names[n] # FreeInode
<1>1. PICK i \in 1..4 : i # names["dest"] /\ i # names["bak"] /\ i # names["old"]
  <2>1. \E i \in {1, 2, 3, 4} : i # names["dest"] /\ i # names["bak"] /\ i # names["old"]
    OBVIOUS
  <2>2. QED
    BY <2>1
<1>2. i \in Inodes /\ inodes[i] = None
  BY <1>1, InodesAre, RendererAssumption DEF Linked, Names
<1>3. FreeInode \in Inodes /\ inodes[FreeInode] = None
  BY <1>2 DEF FreeInode
<1>4. QED
  BY <1>3 DEF Linked

-----------------------------------------------------------------------------
(* The invariant.                                                          *)

\* A renderer that has rendered nothing satisfies the invariant.
LEMMA InitInd == Init => Ind
<1> SUFFICES ASSUME Init PROVE Ind
  OBVIOUS
<1> USE RendererAssumption DEF Init
<1>1. 1 \in Inodes
  BY InodesAre
<1>2. PICK d \in Contents \cup {None} :
        /\ names = [n \in Names |-> IF n = "dest" /\ d # None THEN 1 ELSE None]
        /\ inodes = [i \in Inodes |->
             IF i = 1 /\ d # None
             THEN [data |-> d, mode |-> "user", synced |-> TRUE]
             ELSE None]
  OBVIOUS
<1>3. names \in [Names -> Inodes \cup {None}]
  BY <1>1, <1>2
<1>4. inodes \in [Inodes -> Files \cup {None}]
  BY <1>2 DEF Files, Data, Modes
<1>5. TypeOK
  <2>1. /\ perms \in {None, "asked"} /\ createDirs \in BOOLEAN
        /\ withBackup \in BOOLEAN /\ parent \in BOOLEAN
        /\ disturbed \in BOOLEAN /\ entangled \in BOOLEAN
        /\ backedUp \in BOOLEAN
    OBVIOUS
  <2>2. /\ rpc \in Steps /\ contents \in Contents \cup {None}
        /\ mode \in Modes \cup {None} /\ result \in Results \cup {None}
        /\ before \in Data \cup {None}
    BY DEF Steps
  <2>3. /\ renders \in 0..MaxRenders /\ errorsLeft \in 0..MaxErrors
        /\ crashesLeft \in 0..MaxCrashes
    OBVIOUS
  <2>4. QED
    BY <1>3, <1>4, <2>1, <2>2, <2>3 DEF TypeOK
<1>6. Linked
  <2>1. ASSUME NEW i \in Inodes
        PROVE  inodes[i] # None <=> \E n \in Names : names[n] = i
    <3>1. CASE i = 1 /\ d # None
      <4>1. names["dest"] = i /\ "dest" \in Names
        BY <1>2, <3>1 DEF Names
      <4>2. inodes[i] \in Files
        BY <1>2, <3>1 DEF Files, Data, Modes
      <4>3. QED
        BY <4>1, <4>2
    <3>2. CASE ~(i = 1 /\ d # None)
      <4>1. inodes[i] = None /\ i # None
        BY <1>2, <3>2
      <4>2. \A n \in Names : names[n] # i
        BY <1>2, <3>2, <4>1
      <4>3. QED
        BY <4>1, <4>2
    <3>3. QED
      BY <3>1, <3>2
  <2>2. QED
    BY <2>1 DEF Linked
<1>7. Whole
  BY <1>1, <1>2 DEF Whole, Kept, Names
<1>8. Asked /\ Alone /\ Written
  BY <1>2 DEF Asked, Alone, Written, Writing, Names
<1>9. BackupInv /\ PreviousInv
  BY DEF BackupInv, PreviousInv, Undisturbed, Writing
<1>10. QED
  BY <1>5, <1>6, <1>7, <1>8, <1>9 DEF Ind, DiskInv

\* A call that fails changes nothing on the disk.
LEMMA FailsStep ==
    ASSUME DiskInv, NEW step \in Steps \ {"idle"}, FailsAt(step)
    PROVE  DiskInv'
<1> USE RendererAssumption DEF DiskInv, FailsAt, Costs, settings, disk, history
<1>1. TypeOK'
  BY DEF TypeOK, Steps, Results
<1>2. Linked' /\ Whole'
  BY DEF Linked, Whole
<1>3. Asked' /\ Alone' /\ Written'
  BY DEF TypeOK, Asked, Alone, Written, Writing, Steps, WantedMode
<1>4. QED
  BY <1>1, <1>2, <1>3

\* The names that are kept hold complete files, however they are moved.
LEMMA WholeMoves ==
    ASSUME TypeOK, Linked, Whole, NEW table \in [Names -> Inodes \cup {None}],
           \A n \in Kept : table[n] = None
                          \/ \E m \in Kept : table[n] = names[m],
           table["tmp"] \in {None, names["tmp"]},
           Links(table)
    PROVE  /\ names' = table
           /\ names' \in [Names -> Inodes \cup {None}]
           /\ inodes' \in [Inodes -> Files \cup {None}]
           /\ Linked' /\ Whole'
           /\ \A n \in Names : table[n] # None =>
                inodes'[table[n]] = inodes[table[n]]
<1>1. \A n \in Names : table[n] = None \/ \E m \in Names : table[n] = names[m]
  BY DEF Kept, Names
<1>2. /\ names' = table
      /\ names' \in [Names -> Inodes \cup {None}]
      /\ inodes' \in [Inodes -> Files \cup {None}]
      /\ Linked'
      /\ \A n \in Names : table[n] # None => inodes'[table[n]] = inodes[table[n]]
  BY <1>1, LinksFacts
<1>3. Whole'
  BY <1>2 DEF Whole, Kept
<1>4. QED
  BY <1>2, <1>3

\* Steps that leave the disk alone, and the contents under way.
LEMMA SameDisk ==
    ASSUME Linked, Whole, UNCHANGED disk
    PROVE  Linked' /\ Whole'
BY DEF disk, Linked, Whole

\* Writing to the temporary file leaves every other one as it is.
LEMMA TempChanges ==
    ASSUME DiskInv, rpc \in Writing, names["tmp"] \in Inodes, NEW f \in Files,
           names' = names, inodes' = [inodes EXCEPT ![names["tmp"]] = f]
    PROVE  /\ inodes' \in [Inodes -> Files \cup {None}]
           /\ Linked' /\ Whole'
           /\ inodes'[names["tmp"]] = f
           /\ \A n \in Kept : names[n] # None =>
                inodes'[names[n]] = inodes[names[n]]
<1> USE RendererAssumption DEF DiskInv
<1>1. inodes' \in [Inodes -> Files \cup {None}] /\ inodes'[names["tmp"]] = f
  BY DEF TypeOK
<1>2. \A n \in Kept : names[n] # None => inodes'[names[n]] = inodes[names[n]]
  BY DEF Alone, TypeOK, Kept
<1>3. Linked'
  BY <1>1 DEF Linked, TypeOK, Names
<1>4. Whole'
  BY <1>2 DEF Whole
<1>5. QED
  BY <1>1, <1>2, <1>3, <1>4

\* Every step leaves the disk as it should be.
LEMMA DiskStep ==
    ASSUME DiskInv, [Next]_vars
    PROVE  DiskInv'
<1> USE RendererAssumption DEF DiskInv, settings, disk, bounds, history, Goto
<1>1. CASE Render
  <2>1. TypeOK'
    BY <1>1 DEF Render, TypeOK, Steps
  <2>2. Asked' /\ Alone' /\ Written'
    BY <1>1 DEF Render, TypeOK, Asked, Alone, Written, Writing, Results
  <2>3. QED
    BY <1>1, <2>1, <2>2, SameDisk DEF Render
<1>2. CASE ReadExisting
  <2>1. Reads("dest") \in Data \cup {None}
    BY DEF Reads, TypeOK, Whole, Kept, Names, Data
  <2>2. TypeOK'
    BY <1>2, <2>1 DEF ReadExisting, TypeOK, Steps
  <2>3. Asked' /\ Alone' /\ Written'
    BY <1>2 DEF ReadExisting, TypeOK, Asked, Alone, Written, Writing
  <2>4. QED
    BY <1>2, <2>2, <2>3, SameDisk DEF ReadExisting
<1>3. CASE SameContents
  <2>1. TypeOK'
    BY <1>3 DEF SameContents, TypeOK, Steps, Results
  <2>2. Asked' /\ Alone' /\ Written'
    BY <1>3 DEF SameContents, TypeOK, Asked, Alone, Written, Writing
  <2>3. QED
    BY <1>3, <2>1, <2>2, SameDisk DEF SameContents
<1>4. CASE ReadFails
  BY <1>4, FailsStep DEF ReadFails, Steps
<1>5. CASE BackupCallFails
  <2>1. TypeOK'
    BY <1>5 DEF BackupCallFails, Costs, TypeOK, Steps
  <2>2. Asked' /\ Alone' /\ Written'
    BY <1>5 DEF BackupCallFails, TypeOK, Asked, Alone, Written, Writing
  <2>3. QED
    BY <1>5, <2>1, <2>2, SameDisk DEF BackupCallFails
<1>6. CASE RenameBak
  <2>1. names["tmp"] = None
    BY <1>6 DEF RenameBak, Alone, Writing
  <2>2. CASE names["bak"] = None \/ names["bak"] = names["old"]
    <3>1. UNCHANGED disk
      BY <1>6, <2>2 DEF RenameBak, RenameFile
    <3>2. TypeOK' /\ Asked' /\ Alone' /\ Written'
      BY <1>6, <3>1 DEF RenameBak, TypeOK, Steps, Asked, Alone, Written, Writing
    <3>3. QED
      BY <3>1, <3>2, SameDisk
  <2>3. CASE names["bak"] # None /\ names["bak"] # names["old"]
    <3> DEFINE table == [names EXCEPT !["old"] = names["bak"], !["bak"] = None]
    <3>1. Links(table)
      BY <1>6, <2>3 DEF RenameBak, RenameFile
    <3>2. /\ table \in [Names -> Inodes \cup {None}]
          /\ \A n \in Kept : table[n] = None
                          \/ \E m \in Kept : table[n] = names[m]
          /\ table["tmp"] \in {None, names["tmp"]}
      BY DEF TypeOK, Kept, Names
    <3>3. /\ names' = table
          /\ names' \in [Names -> Inodes \cup {None}]
          /\ inodes' \in [Inodes -> Files \cup {None}]
          /\ Linked' /\ Whole'
      BY <3>1, <3>2, WholeMoves
    <3>4. TypeOK'
      BY <1>6, <3>3 DEF RenameBak, TypeOK, Steps
    <3>5. names'["tmp"] = None
      BY <2>1, <3>3 DEF TypeOK, Names
    <3>6. Asked' /\ Alone' /\ Written'
      BY <1>6, <3>5 DEF RenameBak, Asked, Alone, Written, Writing
    <3>7. QED
      BY <3>3, <3>4, <3>6
  <2>4. QED
    BY <2>2, <2>3
<1>7. CASE LinkBak
  <2>1. names["tmp"] = None
    BY <1>7 DEF LinkBak, Alone, Writing
  <2>2. CASE names["dest"] = None \/ names["bak"] # None
    <3>1. TypeOK' /\ Asked' /\ Alone' /\ Written'
      BY <1>7, <2>2 DEF LinkBak, TypeOK, Steps, Asked, Alone, Written, Writing
    <3>2. QED
      BY <1>7, <2>2, <3>1, SameDisk DEF LinkBak
  <2>3. CASE ~(names["dest"] = None \/ names["bak"] # None)
    <3> DEFINE table == [names EXCEPT !["bak"] = names["dest"]]
    <3>1. Links(table)
      BY <1>7, <2>3 DEF LinkBak
    <3>2. /\ table \in [Names -> Inodes \cup {None}]
          /\ \A n \in Kept : table[n] = None
                          \/ \E m \in Kept : table[n] = names[m]
          /\ table["tmp"] \in {None, names["tmp"]}
      BY DEF TypeOK, Kept, Names
    <3>3. /\ names' = table
          /\ names' \in [Names -> Inodes \cup {None}]
          /\ inodes' \in [Inodes -> Files \cup {None}]
          /\ Linked' /\ Whole'
      BY <3>1, <3>2, WholeMoves
    <3>4. TypeOK'
      BY <1>7, <2>3, <3>3 DEF LinkBak, TypeOK, Steps
    <3>5. names'["tmp"] = None
      BY <2>1, <3>3 DEF TypeOK, Names
    <3>6. Asked' /\ Alone' /\ Written'
      BY <1>7, <2>3, <3>5 DEF LinkBak, Asked, Alone, Written, Writing
    <3>7. QED
      BY <3>3, <3>4, <3>6
  <2>4. QED
    BY <2>2, <2>3
<1>8. CASE RemoveOld
  <2>1. names["tmp"] = None
    BY <1>8 DEF RemoveOld, Alone, Writing
  <2> DEFINE table == [names EXCEPT !["old"] = None]
  <2>2. Links(table)
    BY <1>8 DEF RemoveOld
  <2>3. /\ table \in [Names -> Inodes \cup {None}]
        /\ \A n \in Kept : table[n] = None
                        \/ \E m \in Kept : table[n] = names[m]
        /\ table["tmp"] \in {None, names["tmp"]}
    BY DEF TypeOK, Kept, Names
  <2>4. /\ names' = table
        /\ names' \in [Names -> Inodes \cup {None}]
        /\ inodes' \in [Inodes -> Files \cup {None}]
        /\ Linked' /\ Whole'
    BY <2>2, <2>3, WholeMoves
  <2>5. TypeOK'
    BY <1>8, <2>4 DEF RemoveOld, TypeOK, Steps
  <2>6. names'["tmp"] = None
    BY <2>1, <2>4 DEF TypeOK, Names
  <2>7. Asked' /\ Alone' /\ Written'
    BY <1>8, <2>6 DEF RemoveOld, Asked, Alone, Written, Writing
  <2>8. QED
    BY <2>4, <2>5, <2>7
<1>9. CASE ParentExists
  <2>1. TypeOK' /\ Asked' /\ Alone' /\ Written'
    BY <1>9 DEF ParentExists, TypeOK, Steps, Asked, Alone, Written, Writing
  <2>2. Linked' /\ Whole'
    BY <1>9 DEF ParentExists, Linked, Whole
  <2>3. QED
    BY <2>1, <2>2
<1>10. CASE NoParentDir
  <2>1. TypeOK' /\ Asked' /\ Alone' /\ Written'
    BY <1>10 DEF NoParentDir, TypeOK, Steps, Results, Asked, Alone, Written,
                 Writing
  <2>2. QED
    BY <1>10, <2>1, SameDisk DEF NoParentDir
<1>11. CASE MkdirFails \/ TempFileFails \/ WriteFails \/ SyncFails
  BY <1>11, FailsStep DEF MkdirFails, TempFileFails, WriteFails, SyncFails, Steps
<1>12. CASE StatFails \/ ChmodFails \/ RenameFails
  BY <1>12, FailsStep DEF StatFails, ChmodFails, RenameFails, Steps
<1>13. CASE TempFile
  <2>1. names["tmp"] = None
    BY <1>13 DEF TempFile, Alone, Writing
  <2>2. PICK i \in Inodes : /\ i = FreeInode
                           /\ inodes[i] = None
                           /\ \A n \in Names : names[n] # i
    BY <2>1, FreeInodeFacts
  <2> DEFINE new == [data |-> Torn, mode |-> "temp", synced |-> FALSE]
  <2>3. new \in Files
    BY DEF Files, Data, Modes
  <2>4. names' = [names EXCEPT !["tmp"] = i] /\ inodes' = [inodes EXCEPT ![i] = new]
    BY <1>13, <2>2 DEF TempFile
  <2> HIDE DEF new
  <2>5. TypeOK'
    <3>1. /\ names' \in [Names -> Inodes \cup {None}]
          /\ inodes' \in [Inodes -> Files \cup {None}]
      BY <2>3, <2>4 DEF TypeOK
    <3>2. QED
      BY <1>13, <3>1 DEF TempFile, TypeOK, Steps
  <2>6. Linked'
    <3>1. inodes'[i] # None /\ names'["tmp"] = i
      BY <2>3, <2>4 DEF TypeOK, Names
    <3>2. \A j \in Inodes \ {i} : inodes'[j] = inodes[j]
      BY <2>4 DEF TypeOK
    <3>3. \A n \in Names \ {"tmp"} : names'[n] = names[n]
      BY <2>4 DEF TypeOK
    <3>4. QED
      BY <2>1, <2>2, <3>1, <3>2, <3>3 DEF Linked, Names
  <2>7. Whole'
    BY <2>2, <2>3, <2>4 DEF TypeOK, Whole, Kept, Names
  <2>8. Asked' /\ Alone' /\ Written'
    BY <1>13, <2>2, <2>4 DEF TempFile, TypeOK, Asked, Alone, Written, Writing,
                             Kept, Names
  <2>9. QED
    BY <2>5, <2>6, <2>7, <2>8
<1>14. CASE Write
  <2> DEFINE f == [inodes[names["tmp"]] EXCEPT !.data = contents]
  <2>1. rpc \in Writing /\ names["tmp"] \in Inodes /\ contents \in Contents
    BY <1>14 DEF Write, Alone, Asked, Writing, TypeOK, Names
  <2>2. inodes[names["tmp"]] \in Files
    BY <2>1 DEF TypeOK, Linked, Names
  <2>3. f \in Files /\ f.data = contents
    BY <2>1, <2>2 DEF Files, Data
  <2>4. names' = names /\ inodes' = [inodes EXCEPT ![names["tmp"]] = f]
    BY <1>14 DEF Write, OnTemp
  <2> HIDE DEF f
  <2>5. /\ inodes' \in [Inodes -> Files \cup {None}]
        /\ Linked' /\ Whole' /\ inodes'[names["tmp"]] = f
    BY <2>1, <2>3, <2>4, TempChanges
  <2>6. TypeOK'
    BY <1>14, <2>4, <2>5 DEF Write, OnTemp, TypeOK, Steps
  <2>7. Asked' /\ Alone' /\ Written'
    BY <1>14, <2>3, <2>4, <2>5 DEF Write, OnTemp, Asked, Alone, Written, Writing
  <2>8. QED
    BY <2>5, <2>6, <2>7
<1>15. CASE Sync
  <2> DEFINE f == [inodes[names["tmp"]] EXCEPT !.synced = TRUE]
  <2>1. rpc \in Writing /\ names["tmp"] \in Inodes
    BY <1>15 DEF Sync, Alone, Asked, Writing, TypeOK, Names
  <2>2. inodes[names["tmp"]] \in Files /\ inodes[names["tmp"]].data = contents
    BY <1>15, <2>1 DEF Sync, Written, Writing, TypeOK, Linked, Names
  <2>3. f \in Files /\ f.data = contents /\ f.synced
    BY <2>1, <2>2 DEF Files
  <2>4. names' = names /\ inodes' = [inodes EXCEPT ![names["tmp"]] = f]
    BY <1>15 DEF Sync, OnTemp
  <2> HIDE DEF f
  <2>5. /\ inodes' \in [Inodes -> Files \cup {None}]
        /\ Linked' /\ Whole' /\ inodes'[names["tmp"]] = f
    BY <2>1, <2>3, <2>4, TempChanges
  <2>6. TypeOK'
    BY <1>15, <2>4, <2>5 DEF Sync, OnTemp, TypeOK, Steps
  <2>7. Asked' /\ Alone' /\ Written'
    BY <1>15, <2>3, <2>4, <2>5 DEF Sync, OnTemp, Asked, Alone, Written, Writing
  <2>8. QED
    BY <2>5, <2>6, <2>7
<1>16. CASE Stat
  <2>1. WantedMode \in Modes
    <3>1. CASE perms = None /\ names["dest"] # None
      <4>1. names["dest"] \in Inodes /\ inodes[names["dest"]] \in Files
        BY <3>1 DEF TypeOK, Linked, Names
      <4>2. QED
        BY <3>1, <4>1 DEF WantedMode, Files
    <3>2. CASE ~(perms = None /\ names["dest"] # None)
      BY <3>2 DEF WantedMode, TypeOK, Modes
    <3>3. QED
      BY <3>1, <3>2
  <2>2. TypeOK'
    BY <1>16, <2>1 DEF Stat, WantedMode, TypeOK, Steps
  <2>3. Asked' /\ Alone' /\ Written'
    BY <1>16 DEF Stat, WantedMode, Asked, Alone, Written, Writing
  <2>4. QED
    BY <1>16, <2>2, <2>3, SameDisk DEF Stat
<1>17. CASE Chmod
  <2> DEFINE f == [inodes[names["tmp"]] EXCEPT !.mode = mode]
  <2>1. rpc \in Writing /\ names["tmp"] \in Inodes
    BY <1>17 DEF Chmod, Alone, Writing, TypeOK, Names
  <2>2. /\ inodes[names["tmp"]] \in Files
        /\ inodes[names["tmp"]].data = contents /\ inodes[names["tmp"]].synced
    BY <1>17, <2>1 DEF Chmod, Written, Writing, TypeOK, Linked, Names
  <2>3. mode = WantedMode
    BY <1>17 DEF Chmod, Written
  <2>4. WantedMode \in Modes
    <3>1. CASE perms = None /\ names["dest"] # None
      <4>1. names["dest"] \in Inodes /\ inodes[names["dest"]] \in Files
        BY <3>1 DEF TypeOK, Linked, Names
      <4>2. QED
        BY <3>1, <4>1 DEF WantedMode, Files
    <3>2. CASE ~(perms = None /\ names["dest"] # None)
      BY <3>2 DEF WantedMode, TypeOK, Modes
    <3>3. QED
      BY <3>1, <3>2
  <2>5. f \in Files /\ f.data = contents /\ f.synced /\ f.mode = mode
    BY <2>2, <2>3, <2>4 DEF Files
  <2>6. names' = names /\ inodes' = [inodes EXCEPT ![names["tmp"]] = f]
    BY <1>17 DEF Chmod, OnTemp
  <2> HIDE DEF f
  <2>7. /\ inodes' \in [Inodes -> Files \cup {None}]
        /\ Linked' /\ Whole' /\ inodes'[names["tmp"]] = f
        /\ WantedMode' = WantedMode
    <3>1. /\ inodes' \in [Inodes -> Files \cup {None}]
          /\ Linked' /\ Whole' /\ inodes'[names["tmp"]] = f
          /\ \A n \in Kept : names[n] # None => inodes'[names[n]] = inodes[names[n]]
      BY <2>1, <2>5, <2>6, TempChanges
    <3>2. WantedMode' = WantedMode
      BY <1>17, <2>6, <3>1 DEF Chmod, OnTemp, WantedMode, Kept, Names
    <3>3. QED
      BY <3>1, <3>2
  <2>8. TypeOK'
    BY <1>17, <2>6, <2>7 DEF Chmod, OnTemp, TypeOK, Steps
  <2>9. Asked' /\ Alone' /\ Written'
    BY <1>17, <2>3, <2>5, <2>6, <2>7
    DEF Chmod, OnTemp, Asked, Alone, Written, Writing
  <2>10. QED
    BY <2>7, <2>8, <2>9
<1>18. CASE Rename
  <2>1. /\ names["tmp"] \in Inodes /\ names["tmp"] # names["dest"]
        /\ inodes[names["tmp"]].data = contents /\ inodes[names["tmp"]].synced
        /\ contents \in Contents
    BY <1>18 DEF Rename, Alone, Asked, Written, Writing, TypeOK, Kept, Names
  <2> DEFINE table == [names EXCEPT !["dest"] = names["tmp"], !["tmp"] = None]
  <2>2. Links(table)
    BY <1>18, <2>1 DEF Rename, RenameFile
  <2>3. /\ table \in [Names -> Inodes \cup {None}]
        /\ \A n \in Names : table[n] = None \/ \E m \in Names : table[n] = names[m]
    BY DEF TypeOK, Names
  <2>4. /\ names' = table
        /\ names' \in [Names -> Inodes \cup {None}]
        /\ inodes' \in [Inodes -> Files \cup {None}]
        /\ Linked'
        /\ \A n \in Names : table[n] # None => inodes'[table[n]] = inodes[table[n]]
    BY <2>2, <2>3, LinksFacts
  <2>5. TypeOK'
    BY <1>18, <2>4 DEF Rename, TypeOK, Steps, Results
  <2>6. Whole'
    BY <2>1, <2>4 DEF TypeOK, Whole, Kept, Names
  <2>7. names'["tmp"] = None
    BY <2>4 DEF TypeOK, Names
  <2>8. Asked' /\ Alone' /\ Written'
    BY <1>18, <2>7 DEF Rename, Asked, Alone, Written, Writing
  <2>9. QED
    BY <2>4, <2>5, <2>6, <2>8
<1>19. CASE RemoveTemp \/ Kill
  <2> DEFINE table == [names EXCEPT !["tmp"] = None]
  <2>1. Links(table) /\ rpc' = "idle" /\ contents' = None
    BY <1>19 DEF RemoveTemp, Kill, Crashed
  <2>2. /\ table \in [Names -> Inodes \cup {None}]
        /\ \A n \in Kept : table[n] = None
                        \/ \E m \in Kept : table[n] = names[m]
        /\ table["tmp"] \in {None, names["tmp"]}
    BY DEF TypeOK, Kept, Names
  <2>3. /\ names' = table
        /\ names' \in [Names -> Inodes \cup {None}]
        /\ inodes' \in [Inodes -> Files \cup {None}]
        /\ Linked' /\ Whole'
    BY <2>1, <2>2, WholeMoves
  <2>4. TypeOK'
    BY <1>19, <2>3 DEF RemoveTemp, Kill, Crashed, TypeOK, Steps
  <2>5. names'["tmp"] = None
    BY <2>3 DEF TypeOK, Names
  <2>6. Asked' /\ Alone' /\ Written'
    BY <2>1, <2>5 DEF Asked, Alone, Written, Writing
  <2>7. QED
    BY <2>3, <2>4, <2>6
<1>20. CASE PowerLoss
  <2>1. names' \in [Names -> Inodes \cup {None}]
    BY <1>20 DEF PowerLoss, TypeOK
  <2>2. names'["tmp"] = None /\ \A n \in Kept : names'[n] = names[n]
    BY <1>20 DEF PowerLoss, TypeOK, Kept, Names
  <2>3. \A i \in Inodes :
          inodes'[i] = IF ~\E n \in Kept : names[n] = i THEN None
                       ELSE IF inodes[i].synced THEN inodes[i]
                       ELSE [inodes[i] EXCEPT !.data = Torn]
    BY <1>20 DEF PowerLoss, Kept
  <2>4. \A i \in Inodes :
          inodes'[i] = IF ~\E n \in Kept : names[n] = i THEN None ELSE inodes[i]
    <3>1. ASSUME NEW i \in Inodes, NEW n \in Kept, names[n] = i
          PROVE  inodes'[i] = inodes[i]
      <4>1. inodes[i].synced
        BY <3>1 DEF Whole
      <4>2. QED
        BY <2>3, <3>1, <4>1
    <3>2. ASSUME NEW i \in Inodes, ~\E n \in Kept : names[n] = i
          PROVE  inodes'[i] = None
      BY <2>3, <3>2
    <3>3. QED
      BY <3>1, <3>2
  <2>5. inodes' \in [Inodes -> Files \cup {None}]
    <3>1. inodes' = [i \in Inodes |-> inodes'[i]]
      BY <1>20 DEF PowerLoss
    <3>2. \A i \in Inodes : inodes'[i] \in Files \cup {None}
      BY <2>4 DEF TypeOK
    <3>3. QED
      BY <3>1, <3>2
  <2>6. Linked'
    <3>1. \A n \in Names : names'[n] # None => n \in Kept
      BY <2>2 DEF Kept, Names
    <3>2. \A i \in Inodes :
            (\E n \in Names : names'[n] = i) <=> (\E n \in Kept : names[n] = i)
      BY <2>2, <3>1, RendererAssumption DEF Kept
    <3>3. QED
      BY <2>4, <3>2 DEF Linked, Kept
  <2>7. Whole'
    BY <2>2, <2>4 DEF TypeOK, Whole, Kept
  <2>8. TypeOK'
    BY <1>20, <2>1, <2>5 DEF PowerLoss, Crashed, TypeOK, Steps
  <2>9. Asked' /\ Alone' /\ Written'
    BY <1>20, <2>2 DEF PowerLoss, Crashed, Asked, Alone, Written, Writing
  <2>10. QED
    BY <2>6, <2>7, <2>8, <2>9
<1>21. CASE UNCHANGED vars
  <2>1. TypeOK' /\ Asked' /\ Alone' /\ Written'
    BY <1>21 DEF vars, TypeOK, Asked, Alone, Written, WantedMode
  <2>2. QED
    BY <1>21, <2>1, SameDisk DEF vars
<1>22. QED
  BY <1>1, <1>2, <1>3, <1>4, <1>5, <1>6, <1>7, <1>8, <1>9, <1>10, <1>11,
     <1>12, <1>13, <1>14, <1>15, <1>16, <1>17, <1>18, <1>19, <1>20, <1>21
     DEF Next

\* Only Rename changes the file, and only Backup the backups.
LEMMA KeptStays ==
    ASSUME DiskInv, [Next]_vars, NEW n \in Kept,
           n # "dest" => ~(RenameBak \/ LinkBak \/ RemoveOld),
           n = "dest" => ~Rename
    PROVE  /\ names'[n] = names[n]
           /\ names[n] # None => inodes'[names[n]] = inodes[names[n]]
           /\ Reads(n)' = Reads(n)
<1> USE RendererAssumption DEF DiskInv
<1> SUFFICES /\ names'[n] = names[n]
             /\ names[n] # None => inodes'[names[n]] = inodes[names[n]]
  BY DEF Reads
<1>1. CASE UNCHANGED <<names, inodes>>
  BY <1>1
<1>2. CASE RenameBak
  <2>1. n = "dest"
    BY <1>2 DEF Kept
  <2>2. CASE UNCHANGED <<names, inodes>>
    BY <2>2
  <2>3. CASE Links([names EXCEPT !["old"] = names["bak"], !["bak"] = None])
    BY <2>1, <2>3 DEF Links, TypeOK, Kept, Names
  <2>4. QED
    BY <1>2, <2>2, <2>3 DEF RenameBak, RenameFile
<1>3. CASE LinkBak
  <2>1. n = "dest"
    BY <1>3 DEF Kept
  <2>2. CASE UNCHANGED <<names, inodes>>
    BY <2>2
  <2>3. CASE Links([names EXCEPT !["bak"] = names["dest"]])
    BY <2>1, <2>3 DEF Links, TypeOK, Kept, Names
  <2>4. QED
    BY <1>3, <2>2, <2>3 DEF LinkBak
<1>4. CASE RemoveOld
  <2>1. n = "dest"
    BY <1>4 DEF Kept
  <2>2. Links([names EXCEPT !["old"] = None])
    BY <1>4 DEF RemoveOld
  <2>3. QED
    BY <2>1, <2>2 DEF Links, TypeOK, Kept, Names
<1>5. CASE TempFile
  <2>1. names["tmp"] = None
    BY <1>5 DEF TempFile, Alone, Writing
  <2>2. names[n] # FreeInode
    BY <2>1, FreeInodeFacts DEF Kept
  <2>3. QED
    BY <1>5, <2>2 DEF TempFile, TypeOK, Kept
<1>6. CASE Write \/ Sync \/ Chmod
  <2>1. names["tmp"] # names[n]
    BY <1>6 DEF Write, Sync, Chmod, Alone, Writing
  <2>2. QED
    BY <1>6, <2>1 DEF Write, Sync, Chmod, OnTemp, TypeOK, Kept
<1>7. CASE Rename
  <2>1. n \in Kept \ {"dest"} /\ names["tmp"] # names["dest"]
    BY <1>7 DEF Rename, Alone, Writing, Kept, Names
  <2>2. Links([names EXCEPT !["dest"] = names["tmp"], !["tmp"] = None])
    BY <1>7, <2>1 DEF Rename, RenameFile
  <2>3. QED
    BY <2>1, <2>2 DEF Links, TypeOK, Kept, Names
<1>8. CASE RemoveTemp \/ Kill
  <2>1. Links([names EXCEPT !["tmp"] = None])
    BY <1>8 DEF RemoveTemp, Kill
  <2>2. QED
    BY <2>1 DEF Links, TypeOK, Kept, Names
<1>9. CASE PowerLoss
  <2>1. names'[n] = names[n]
    BY <1>9 DEF PowerLoss, TypeOK, Kept
  <2>2. ASSUME names[n] # None PROVE inodes'[names[n]] = inodes[names[n]]
    <3>1. names[n] \in Inodes /\ inodes[names[n]].synced
      BY <2>2 DEF TypeOK, Whole, Kept
    <3>2. QED
      BY <1>9, <3>1 DEF PowerLoss, Kept
  <2>3. QED
    BY <2>1, <2>2
<1>10. QED
  BY <1>1, <1>2, <1>3, <1>4, <1>5, <1>6, <1>7, <1>8, <1>9
     DEF Next, vars, disk, FailsAt, Render, ReadExisting, SameContents, ReadFails,
         BackupCallFails, ParentExists, NoParentDir, MkdirFails, TempFileFails,
         WriteFails, SyncFails, Stat, StatFails, ChmodFails, RenameFails

\* Every step keeps a backup, if there was one.
LEMMA BackupStep ==
    ASSUME DiskInv, BackupInv, [Next]_vars
    PROVE  BackupInv'
<1> USE RendererAssumption DEF DiskInv, BackupInv
<1>1. CASE RenameBak
  <2>1. rpc' = "linkBak" /\ backedUp' = backedUp
    BY <1>1 DEF RenameBak, Goto, history
  <2>2. CASE UNCHANGED <<names, inodes>>
    BY <2>1, <2>2
  <2>3. CASE Links([names EXCEPT !["old"] = names["bak"], !["bak"] = None])
    BY <1>1, <2>1, <2>3 DEF RenameBak, Links, TypeOK, Names
  <2>4. QED
    BY <1>1, <2>2, <2>3 DEF RenameBak, RenameFile
<1>2. CASE LinkBak
  BY <1>2 DEF LinkBak, Links, TypeOK, Names
<1>3. CASE RemoveOld
  BY <1>3 DEF RemoveOld, Goto, history, Links, TypeOK, Names
<1>4. CASE ~(RenameBak \/ LinkBak \/ RemoveOld)
  <2>1. names'["bak"] = names["bak"] /\ names'["old"] = names["old"]
    BY <1>4, KeptStays DEF Kept, Names
  <2>2. backedUp' = backedUp /\ (rpc' = "removeOld" => rpc = "removeOld")
    BY <1>4
       DEF Next, vars, history, Goto, OnTemp, FailsAt, Render, ReadExisting,
           SameContents, ReadFails, BackupCallFails, ParentExists, NoParentDir,
           MkdirFails, TempFile, TempFileFails, Write, WriteFails, Sync,
           SyncFails, Stat, StatFails, Chmod, ChmodFails, Rename, RenameFails,
           RemoveTemp, Kill, PowerLoss, Crashed
  <2>3. QED
    BY <2>1, <2>2
<1>5. QED
  BY <1>1, <1>2, <1>3, <1>4

\* Every step of a backup none of whose calls fails does its part.
LEMMA PreviousStep ==
    ASSUME DiskInv, PreviousInv, [Next]_vars
    PROVE  PreviousInv'
<1> USE RendererAssumption DEF DiskInv
<1>1. CASE ReadExisting
  <2>1. UNCHANGED <<names, inodes, withBackup, result>> /\ Reads("dest")' = Reads("dest")
    BY <1>1 DEF ReadExisting, disk, settings, Reads
  <2>2. QED
    BY <1>1, <2>1
       DEF ReadExisting, PreviousInv, Undisturbed, Asked, Writing
<1>2. CASE BackupCallFails
  <2>1. UNCHANGED <<names, inodes, withBackup, before>> /\ Reads("dest")' = Reads("dest")
    BY <1>2 DEF BackupCallFails, disk, settings, Reads
  <2>2. rpc' # "renameBak" /\ rpc' # "removeOld" /\ disturbed'
        /\ rpc \in {"renameBak", "linkBak", "removeOld"}
        /\ (rpc' = "linkBak" => rpc = "renameBak")
    BY <1>2 DEF BackupCallFails
  <2>3. QED
    BY <2>1, <2>2 DEF PreviousInv, Undisturbed
<1>3. CASE RenameBak
  <2>1. /\ rpc = "renameBak" /\ rpc' = "linkBak"
        /\ UNCHANGED <<settings, result, history>>
    BY <1>3 DEF RenameBak, Goto
  <2>2. Reads("dest")' = Reads("dest")
    BY <1>3, KeptStays DEF Kept, Names, RenameBak, Rename
  <2>3. Undisturbed => names'["bak"] = None
    BY <1>3, <2>1
       DEF PreviousInv, RenameBak, RenameFile, Links, TypeOK, Names
  <2>4. QED
    BY <2>1, <2>2, <2>3
       DEF PreviousInv, Undisturbed, settings, history, Asked, Writing
<1>4. CASE LinkBak
  <2>1. /\ rpc = "linkBak" /\ rpc' \in {"mkdir", "removeOld"} /\ withBackup
        /\ before = Reads("dest")
        /\ UNCHANGED <<settings, before, disturbed, entangled>>
    BY <1>4 DEF LinkBak, PreviousInv
  <2>2. ASSUME Undisturbed, before # None PROVE Reads("bak")' = before
    <3>1. names["bak"] = None /\ names["dest"] # None
      BY <2>1, <2>2 DEF PreviousInv, Reads
    <3>2. Links([names EXCEPT !["bak"] = names["dest"]])
      BY <1>4, <3>1 DEF LinkBak
    <3>3. /\ names'["bak"] = names["dest"]
          /\ inodes'[names["dest"]] = inodes[names["dest"]]
      BY <3>1, <3>2 DEF Links, TypeOK, Names
    <3>4. QED
      BY <2>1, <3>1, <3>3 DEF Reads
  <2>3. QED
    BY <2>1, <2>2 DEF PreviousInv, Undisturbed, settings
<1>5. CASE RemoveOld
  <2>1. /\ rpc = "removeOld" /\ rpc' = "mkdir"
        /\ UNCHANGED <<settings, result, history>>
    BY <1>5 DEF RemoveOld, Goto
  <2>2. Reads("bak")' = Reads("bak")
    BY <1>5 DEF RemoveOld, Links, Reads, TypeOK, Names
  <2>3. QED
    BY <2>1, <2>2 DEF PreviousInv, Undisturbed, settings, history, Writing
<1>6. CASE Render
  BY <1>6 DEF Render, settings, history, PreviousInv, Undisturbed, Results,
              Writing
<1>7. CASE SameContents
  BY <1>7 DEF SameContents, settings, PreviousInv, Undisturbed
<1>8. CASE Kill \/ PowerLoss
  BY <1>8 DEF Kill, PowerLoss, Crashed, settings, history, PreviousInv,
              Undisturbed, Results, Writing
<1>9. CASE Rename
  <2>1. Reads("bak")' = Reads("bak")
    BY <1>9, KeptStays DEF Kept, Names, Rename, RenameBak, LinkBak, RemoveOld
  <2>2. QED
    BY <1>9, <2>1 DEF Rename, settings, history, PreviousInv, Undisturbed, Writing
<1>10. CASE ~(\/ ReadExisting \/ BackupCallFails \/ RenameBak \/ LinkBak
              \/ RemoveOld \/ Render \/ SameContents \/ Kill \/ PowerLoss
              \/ Rename)
  <2>1. /\ names'["bak"] = names["bak"] /\ names'["old"] = names["old"]
        /\ Reads("bak")' = Reads("bak") /\ Reads("dest")' = Reads("dest")
    BY <1>10, KeptStays DEF Kept, Names
  <2>2. UNCHANGED <<settings, history>>
    BY <1>10
       DEF Next, vars, Goto, OnTemp, FailsAt, ReadFails, ParentExists,
           NoParentDir, MkdirFails, TempFile, TempFileFails, Write, WriteFails,
           Sync, SyncFails, Stat, StatFails, Chmod, ChmodFails, RenameFails,
           RemoveTemp
  <2>3. /\ rpc' \in {"renameBak", "linkBak", "removeOld"} => rpc' = rpc
        /\ result' = "did" => result = "did"
        /\ rpc' \in {"mkdir", "tempFile"} \cup Writing =>
             rpc \in {"mkdir", "tempFile"} \cup Writing
    BY <1>10
       DEF Next, vars, Goto, OnTemp, FailsAt, ReadFails, ParentExists,
           NoParentDir, MkdirFails, TempFile, TempFileFails, Write, WriteFails,
           Sync, SyncFails, Stat, StatFails, Chmod, ChmodFails, RenameFails,
           RemoveTemp, Writing
  <2>4. QED
    BY <2>1, <2>2, <2>3 DEF PreviousInv, Undisturbed, settings, history
<1>11. QED
  BY <1>1, <1>2, <1>3, <1>4, <1>5, <1>6, <1>7, <1>8, <1>9, <1>10

-----------------------------------------------------------------------------
(* Theorems.                                                               *)

\* The invariant holds in every state of the renderer.
THEOREM IndInvariant == Spec => []Ind
<1>1. Ind /\ [Next]_vars => Ind'
  BY DiskStep, BackupStep, PreviousStep DEF Ind
<1>2. QED
  BY InitInd, <1>1, PTL DEF Spec

\* The variables have their types.
THEOREM TypeCorrect == Spec => []TypeOK
BY IndInvariant, PTL DEF Ind, DiskInv

\* Once there is a backup there always is a complete one, whatever fails and
\* wherever the process or the machine stops (Backup, renderer.go).
THEOREM BackupSurvivesHolds == Spec => []BackupSurvives
<1>1. Ind => BackupSurvives
  BY DEF Ind, DiskInv, Whole, Kept, Names, BackupInv, BackupSurvives, Reads
<1>2. QED
  BY IndInvariant, <1>1, PTL

\* When no call of Backup failed and .bak and .old.bak were two files, .bak
\* holds what Render replaced.
THEOREM BackupIsPreviousHolds == Spec => []BackupIsPrevious
<1>1. Ind => BackupIsPrevious
  BY DEF Ind, PreviousInv, Undisturbed, BackupIsPrevious, BackupIsMade
<1>2. QED
  BY IndInvariant, <1>1, PTL

\* A rendered file has the mode asked for, or the one it had, or the default.
THEOREM KeepsModeHolds == Spec => KeepsMode
<1> DEFINE Keeps == names'["dest"] # names["dest"] =>
                      /\ names'["dest"] # None
                      /\ inodes'[names'["dest"]].mode = WantedMode
<1>1. Ind /\ [Next]_vars => [Keeps]_vars
  <2> SUFFICES ASSUME Ind, [Next]_vars PROVE Keeps
    OBVIOUS
  <2> USE RendererAssumption DEF Ind, DiskInv
  <2>1. CASE Rename
    <3>1. /\ names["tmp"] # None /\ names["tmp"] # names["dest"]
          /\ names["tmp"] \in Inodes /\ inodes[names["tmp"]].mode = WantedMode
      BY <2>1 DEF Rename, Alone, Written, Writing, TypeOK, Kept, Names
    <3>2. Links([names EXCEPT !["dest"] = names["tmp"], !["tmp"] = None])
      BY <2>1, <3>1 DEF Rename, RenameFile
    <3>3. /\ names'["dest"] = names["tmp"]
          /\ inodes'[names["tmp"]] = inodes[names["tmp"]]
      BY <3>1, <3>2 DEF Links, TypeOK, Names
    <3>4. QED
      BY <3>1, <3>3
  <2>2. CASE ~Rename
    BY <2>2, KeptStays DEF Kept, Names
  <2>3. QED
    BY <2>1, <2>2
<1>2. QED
  BY IndInvariant, <1>1, PTL DEF Spec, KeepsMode, WantedMode

\* Render implements AtomicFile: a reader finds the old contents or the new
\* ones, all of them, also after a crash.
THEOREM RendersAtomicallyHolds == Spec => RendersAtomically
<1>1. Init => Atomic!Init
  <2> SUFFICES ASSUME Init PROVE Reads("dest") \in Contents \cup {None}
    BY DEF Init, Atomic!Init
  <2>1. Ind
    BY InitInd
  <2>2. QED
    BY <2>1 DEF Ind, DiskInv, Whole, Kept, Names, Reads
<1>2. Ind /\ [Next]_vars => [Atomic!Next]_<<Reads("dest"), contents>>
  <2> SUFFICES ASSUME Ind, [Next]_vars
               PROVE  [Atomic!Next]_<<Reads("dest"), contents>>
    OBVIOUS
  <2> USE RendererAssumption DEF Ind, DiskInv
  <2>1. CASE Rename
    <3>1. /\ names["tmp"] # None /\ names["tmp"] # names["dest"]
          /\ names["tmp"] \in Inodes /\ inodes[names["tmp"]].data = contents
          /\ contents # None /\ contents' = contents
      BY <2>1 DEF Rename, Asked, Alone, Written, Writing, TypeOK, Kept, Names
    <3>2. Links([names EXCEPT !["dest"] = names["tmp"], !["tmp"] = None])
      BY <2>1, <3>1 DEF Rename, RenameFile
    <3>3. Reads("dest")' = contents
      BY <3>1, <3>2 DEF Links, Reads, TypeOK, Names
    <3>4. QED
      BY <3>1, <3>3 DEF Atomic!Next, Atomic!Replace
  <2>2. CASE ~Rename
    <3>1. Reads("dest")' = Reads("dest")
      BY <2>2, KeptStays DEF Kept, Names
    <3>2. CASE Render
      BY <3>1, <3>2 DEF Render, Asked, Atomic!Next, Atomic!Ask
    <3>3. CASE contents' = None /\ contents # None
      BY <3>1, <3>3 DEF Atomic!Next, Atomic!End
    <3>4. CASE contents' = contents
      BY <3>1, <3>4
    <3>5. Render \/ contents' \in {contents, None}
      BY <2>2
         DEF Next, vars, Goto, OnTemp, FailsAt, ReadExisting, SameContents,
             ReadFails, BackupCallFails, RenameBak, LinkBak, RemoveOld,
             ParentExists, NoParentDir, MkdirFails, TempFile, TempFileFails,
             Write, WriteFails, Sync, SyncFails, Stat, StatFails, Chmod,
             ChmodFails, RenameFails, RemoveTemp, Kill, PowerLoss, Crashed
    <3>6. QED
      BY <3>2, <3>3, <3>4, <3>5
  <2>3. QED
    BY <2>1, <2>2
<1>3. QED
  BY IndInvariant, <1>1, <1>2, PTL DEF Spec, RendersAtomically, Atomic!Spec
=============================================================================
