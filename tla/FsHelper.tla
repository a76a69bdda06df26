------------------------------ MODULE FsHelper ------------------------------
(***************************************************************************)
(* FsHelper::loadFilesFromDirectory of src/src/helpers/fsHelper.cpp and    *)
(* the clean-up its caller, preparePluginsForLoad, does with the result.   *)
(* The scan visits the root directory and one level of subdirectories, and *)
(* loads every file with the wanted extension into a buffer named after    *)
(* the file.  A root entry is a record of its kind and of the files it     *)
(* stands for: itself, or the files of the subdirectory.                   *)
(***************************************************************************)
EXTENDS Naturals, Sequences, FiniteSets

CONSTANTS Files,      \* files with the wanted extension
          Plain,      \* any file without it
          Unset,      \* contents of an array element nobody wrote
          MaxRoot,    \* bound: entries of the root directory
          MaxSub      \* bound: files of a subdirectory

ASSUME FilesAssumption ==
  Plain \notin Files /\ Unset \notin Files /\ MaxRoot \in Nat /\ MaxSub \in Nat

VARIABLES
  stage,
  entries,          \* the root directory as ReadDirectory returned it
  rootIndex,        \* i: the root entry, and the caller's element
  subIndex,         \* j: the file of the subdirectory
  fileEntries,      \* the DirFileEntry array, by the file loaded in it
  fileEntry,        \* the element taken for the current root entry
  loadedFileCount,
  buffers,          \* buffers allocated for files and not freed
  dirHandles,       \* directory handles opened and not closed
  outFileCount,     \* the caller's count
  wildFree          \* the caller freed a pointer no load had written

scan == <<entries, rootIndex, subIndex, fileEntry, loadedFileCount>>
result == <<fileEntries, buffers, outFileCount, wildFree>>
scanVars == <<stage, scan, result, dirHandles>>

FileLists(n) == UNION {[1 .. m -> Files \cup {Plain}] : m \in 0 .. n}
IsInjectiveOnFiles(list) ==
  \A a, b \in DOMAIN list : list[a] = list[b] /\ list[a] \in Files => a = b

RootEntries ==
  [kind: {"file"}, files: [1 .. 1 -> Files \cup {Plain}]]
    \cup [kind: {"directory"}, files: {l \in FileLists(MaxSub) : IsInjectiveOnFiles(l)}]
    \cup [kind: {"other"}, files: {<<>>}]

(* Paths are unique: no file is found twice in one tree. *)
FilesOf(entry) == {entry.files[n] : n \in DOMAIN entry.files} \cap Files
Directories ==
  {root \in UNION {[1 .. n -> RootEntries] : n \in 0 .. MaxRoot} :
     \A a, b \in DOMAIN root : a # b => FilesOf(root[a]) \cap FilesOf(root[b]) = {}}

(* The array is sized by the root directory and lives on the stack: writes  *)
(* past its end land in the memory behind it.                               *)
Memory == 0 .. MaxRoot * (MaxSub + 1)

ScanInit ==
  /\ stage = "start"
  /\ entries = <<>> /\ rootIndex = 0 /\ subIndex = 0
  /\ fileEntries = [k \in Memory |-> Unset]
  /\ fileEntry = 0 /\ loadedFileCount = 0
  /\ buffers = {} /\ dirHandles = 0 /\ outFileCount = 0
  /\ wildFree = FALSE

-----------------------------------------------------------------------------
(* loadFilesFromDirectory.                                                 *)

(* The root is no directory, cannot be opened, or cannot be counted or read *)
(* (and is then left open): a null pointer and a count of zero.             *)
ScanFails ==
  /\ stage = "start"
  /\ dirHandles' \in {0, 1}
  /\ stage' = "returned"
  /\ UNCHANGED <<scan, result>>

OpenRoot ==
  /\ stage = "start"
  /\ entries' \in Directories
  /\ dirHandles' = dirHandles + 1
  /\ stage' = "entry"
  /\ UNCHANGED <<rootIndex, subIndex, fileEntry, loadedFileCount, result>>

Root == entries[rootIndex + 1]
AtEntry(kind) == stage = "entry" /\ rootIndex < Len(entries) /\ Root.kind = kind

(* loadFileFromPath allocates the file's buffer and notes it in the entry   *)
(* element; the counter moves on.                                           *)
LoadInto(element, file) ==
  /\ fileEntries' = [fileEntries EXCEPT ![element] = file]
  /\ buffers' = buffers \cup {file}
  /\ loadedFileCount' = loadedFileCount + 1
  /\ UNCHANGED <<outFileCount, wildFree>>

(* GetEntryType fails, the kind is unknown or the extension does not match. *)
SkipRootEntry ==
  /\ stage = "entry" /\ rootIndex < Len(entries)
  /\ rootIndex' = rootIndex + 1
  /\ UNCHANGED <<stage, entries, subIndex, fileEntry, loadedFileCount, result,
                 dirHandles>>

LoadRootFile ==
  /\ AtEntry("file") /\ Root.files[1] \in Files
  /\ LoadInto(loadedFileCount, Root.files[1])
  /\ fileEntry' = loadedFileCount
  /\ rootIndex' = rootIndex + 1
  /\ UNCHANGED <<stage, entries, subIndex, dirHandles>>

(* The subdirectory is opened but cannot be counted or read. *)
SubdirFails ==
  /\ AtEntry("directory")
  /\ dirHandles' = dirHandles + 1
  /\ rootIndex' = rootIndex + 1
  /\ UNCHANGED <<stage, entries, subIndex, fileEntry, loadedFileCount, result>>

(* Mutant: the directory itself takes an element. *)
OpenSubdirMutant ==
  /\ AtEntry("directory")
  /\ dirHandles' = dirHandles + 1
  /\ fileEntry' = loadedFileCount
  /\ loadedFileCount' = loadedFileCount + 1
  /\ subIndex' = 0
  /\ stage' = "subdir"
  /\ UNCHANGED <<entries, rootIndex, result>>

(* fileEntry is a reference taken here, once for all files of the            *)
(* subdirectory.  The loop runs to their count: an entry ReadDirectory did    *)
(* not return is memory nobody wrote, Plain or the end of the program.        *)
OpenSubdir ==
  /\ AtEntry("directory")
  /\ dirHandles' = dirHandles + 1
  /\ fileEntry' = loadedFileCount
  /\ subIndex' = 0
  /\ stage' = "subdir"
  /\ UNCHANGED <<entries, rootIndex, loadedFileCount, result>>

SkipSubFile ==
  /\ stage = "subdir" /\ subIndex < Len(Root.files)
  /\ Root.files[subIndex + 1] = Plain
  /\ subIndex' = subIndex + 1
  /\ UNCHANGED <<stage, entries, rootIndex, fileEntry, loadedFileCount, result,
                 dirHandles>>

LoadSubFile ==
  /\ stage = "subdir" /\ subIndex < Len(Root.files)
  /\ Root.files[subIndex + 1] \in Files
  /\ LoadInto(fileEntry, Root.files[subIndex + 1])
  /\ subIndex' = subIndex + 1
  /\ UNCHANGED <<stage, entries, rootIndex, fileEntry, dirHandles>>

LeaveSubdir ==
  /\ stage = "subdir" /\ subIndex >= Len(Root.files)
  /\ rootIndex' = rootIndex + 1
  /\ stage' = "entry"
  /\ UNCHANGED <<entries, subIndex, fileEntry, loadedFileCount, result, dirHandles>>

(* A file that is gone, unreadable or too large for the allocator ends the  *)
(* program; so does a counted entry that was not read, if what its memory   *)
(* holds reads like the name of a file nobody has; and so does the copy of  *)
(* the array, when there is no memory for it.                               *)
LoadAborts ==
  /\ \/ AtEntry("file") /\ Root.files[1] \in Files
     \/ stage = "subdir" /\ subIndex < Len(Root.files)
     \/ stage = "entry" /\ rootIndex >= Len(entries) /\ loadedFileCount > 0
  /\ stage' = "aborted"
  /\ UNCHANGED <<scan, result, dirHandles>>

ReturnEntries ==
  /\ stage = "entry" /\ rootIndex >= Len(entries)
  /\ outFileCount' = loadedFileCount
  /\ stage' = "free" /\ rootIndex' = 0
  /\ UNCHANGED <<entries, subIndex, fileEntry, loadedFileCount, fileEntries,
                 buffers, wildFree, dirHandles>>

-----------------------------------------------------------------------------
(* The caller: freeFile for every counted entry, freeEntries for the array. *)

freeFile ==
  /\ stage = "free" /\ rootIndex < outFileCount
  /\ buffers' = buffers \ {fileEntries[rootIndex]}
  /\ wildFree' = (wildFree \/ fileEntries[rootIndex] \notin buffers)
  /\ rootIndex' = rootIndex + 1
  /\ UNCHANGED <<stage, entries, subIndex, fileEntry, loadedFileCount,
                 fileEntries, outFileCount, dirHandles>>

freeEntries ==
  /\ stage = "free" /\ rootIndex >= outFileCount
  /\ stage' = "returned"
  /\ UNCHANGED <<scan, result, dirHandles>>

Stopped == stage \in {"returned", "aborted"} /\ UNCHANGED scanVars

-----------------------------------------------------------------------------
Step ==
  \/ ScanFails \/ OpenRoot \/ SkipRootEntry \/ LoadRootFile \/ SubdirFails
  \/ OpenSubdir \/ SkipSubFile \/ LoadSubFile \/ LeaveSubdir \/ LoadAborts
  \/ ReturnEntries \/ freeFile \/ freeEntries

ScanNext == Step \/ Stopped

ScanSpec == ScanInit /\ [][ScanNext]_scanVars

-----------------------------------------------------------------------------
(* Properties.                                                             *)

(* Some subdirectory holds two files to load: the case in which the element *)
(* reference and the counter part.                                          *)
Crowded ==
  \E n \in DOMAIN entries :
    entries[n].kind = "directory" /\ Cardinality(FilesOf(entries[n])) > 1

Loaded == {k \in Memory : k < loadedFileCount}

(* Without a crowded subdirectory the array has room for every load: the    *)
(* element taken for a root entry is one the root directory paid for.       *)
LoadsFitTheArray == ~Crowded => loadedFileCount <= Len(entries)

CountedEntriesHoldTheBuffers ==
  stage \in {"entry", "subdir"} =>
    /\ {fileEntries[k] : k \in Loaded} = buffers
    /\ Cardinality(buffers) = loadedFileCount

(* ... the counted entries are exactly the buffers held, one each, whatever *)
(* fails on the way, so that the caller's loop over the count frees them    *)
(* all and never what is not a buffer (fsHelper.cpp l.40).                  *)
CleanUpIsExact ==
  ~Crowded => /\ CountedEntriesHoldTheBuffers
              /\ ~wildFree
              /\ stage = "returned" => buffers = {}

=============================================================================
