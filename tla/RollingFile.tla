----------------------------- MODULE RollingFile -----------------------------
(***************************************************************************)
(* seelog's rolling file writer, by size and by date: one Write is a row   *)
(* of calls of the file system, each of which may fail, and the process    *)
(* may die between any two.  Messages are 1, 2, ... and of size one.  File *)
(* names are numbers in the order of their tails: by size the current file *)
(* is always 0 and rolls are 1, 2, ...; by date a file is named after the  *)
(* time it is made.  Loggers call Write and Close from one goroutine at a  *)
(* time.                                                                   *)
(***************************************************************************)
EXTENDS Integers, Sequences, FiniteSets, Functions, SequencesExt

CONSTANTS
    ByDate,        \* rollingTypeTime? rollingTypeSize otherwise
    Archives,      \* archive type zip? Otherwise older rolls are deleted
    maxRolls,      \* 0 for any number
    maxFileSize,   \* by size: when to roll
    Interval,      \* by date: the age at which to roll, 1 for any
    MaxWrites,     \* bound: messages
    MaxFailures,   \* bound: steps with a call of the file system that fails
    MaxCrashes,    \* bound: deaths of the process
    MaxClock       \* bound: the clock stops here

RollingAssumption ==
    /\ ByDate \in BOOLEAN /\ Archives \in BOOLEAN
    /\ maxRolls \in Nat /\ maxFileSize \in Nat \ {0} /\ Interval \in Nat \ {0}
    /\ {MaxWrites, MaxFailures, MaxCrashes, MaxClock} \subseteq Nat

VARIABLES
    disk,          \* the log's files: what is in each
    archive,       \* the same for those in the zip file, empty without one
    damaged,       \* is the zip file half written?
    clock,
    currentFile,   \* "nil", "open" or "closed"
    fileName, currentFileSize,
    step,          \* what Write does next
    history,       \* the rolls it has found
    files,         \* what it has read into memory for the new archive
    rolling,       \* has it begun to roll?
    message,       \* the last message given to Write
    stored,        \* messages whose Write returned no error
    lost,          \* those truncated, overwritten or forgotten when a call failed
    failures, crashes

diskVars == <<disk, archive, damaged>>
memoryVars == <<currentFile, fileName, currentFileSize, history, files, rolling>>
boundVars == <<failures, crashes>>
vars == <<diskVars, memoryVars, boundVars, clock, step, message, stored, lost>>

Init ==
    /\ disk = <<>>
    /\ archive = <<>> /\ damaged = FALSE
    /\ clock = 1
    /\ currentFile = "nil" /\ fileName = 0 /\ currentFileSize = 0
    /\ step = "idle"
    /\ history = <<>> /\ files = <<>> /\ rolling = FALSE
    /\ message = 0 /\ stored = {}
    /\ lost = {}
    /\ failures = 0 /\ crashes = 0
-----------------------------------------------------------------------------
Goto(s) == step' = s

\* tryRemoveFile, of several files: one that is not there is no error.
Without(f, X) == Restrict(f, DOMAIN f \ X)

\* A file made, or another one's contents under a new name.
With(f, name, contents) ==
    [g \in DOMAIN f \cup {name} |-> IF g = name THEN contents ELSE f[g]]

\* Write returns an error: whatever it has changed stays changed.
Fail ==
    /\ failures < MaxFailures /\ failures' = failures + 1
    /\ Goto("idle")
    /\ UNCHANGED <<clock, message, stored, crashes>>

Write ==
    /\ step = "idle" /\ message < MaxWrites
    /\ message' = message + 1
    /\ rolling' = FALSE
    /\ Goto(IF currentFile = "nil" THEN "create" ELSE "check")
    /\ UNCHANGED <<diskVars, currentFile, fileName, currentFileSize, history, files, boundVars,
                   clock, stored, lost>>

\* getCurrentModifiedFileName
CurrentName == IF ByDate THEN clock ELSE 0

\* createFileAndFolderIfNeeded: a file that is there is appended to.
Create ==
    /\ step = "create"
    /\ fileName' = CurrentName
    /\ currentFile' = "open"
    /\ IF CurrentName \in DOMAIN disk
       THEN currentFileSize' = Len(disk[CurrentName]) /\ UNCHANGED disk
       ELSE currentFileSize' = 0 /\ disk' = With(disk, CurrentName, <<>>)
    /\ Goto(IF rolling THEN "append" ELSE "check")
    /\ UNCHANGED <<archive, damaged, history, files, rolling, boundVars, clock, message, stored, lost>>

\* Any error of Lstat is taken for "not there": a file that is there is made anew, empty.
CreateBlind ==
    /\ step = "create" /\ CurrentName \in DOMAIN disk
    /\ failures < MaxFailures /\ failures' = failures + 1
    /\ fileName' = CurrentName
    /\ currentFile' = "open" /\ currentFileSize' = 0
    /\ disk' = [disk EXCEPT ![CurrentName] = <<>>]
    /\ lost' = lost \cup ToSet(disk[CurrentName])
    /\ Goto(IF rolling THEN "append" ELSE "check")
    /\ UNCHANGED <<archive, damaged, history, files, rolling, crashes, clock, message, stored>>

\* MkdirAll fails and the field keeps a closed file; or the file is not made, seen or not,
\* and the field is nil; or the file was there and is open, or could not be opened, and
\* its size is not found out.
CreateFails ==
    /\ step = "create"
    /\ \/ UNCHANGED <<currentFile, fileName, currentFileSize>>
       \/ currentFile' = "nil" /\ fileName' = CurrentName /\ currentFileSize' = 0
       \/ /\ CurrentName \in DOMAIN disk
          /\ currentFile' \in {"open", "nil"} /\ fileName' = CurrentName
          /\ UNCHANGED currentFileSize
    /\ Fail
    /\ UNCHANGED <<diskVars, history, files, rolling, lost>>

\* A file that is there cannot be opened: Lstat's result overwrites the error.
OpenFails ==
    /\ step = "create" /\ CurrentName \in DOMAIN disk
    /\ failures < MaxFailures /\ failures' = failures + 1
    /\ fileName' = CurrentName
    /\ currentFile' = "nil"
    /\ currentFileSize' = Len(disk[CurrentName])
    /\ Goto(IF rolling THEN "append" ELSE "check")
    /\ UNCHANGED <<diskVars, history, files, rolling, crashes, clock, message, stored, lost>>

needsToRoll ==
    IF ByDate THEN clock # fileName /\ clock - fileName >= Interval
    ELSE currentFileSize >= maxFileSize

\* The current file is closed before anything else; closing it a second time is an
\* error, and so is closing none.
Check ==
    /\ step = "check"
    /\ \/ /\ ~needsToRoll
          /\ Goto("append")
          /\ UNCHANGED <<currentFile, rolling>>
       \/ /\ needsToRoll
          /\ rolling' = TRUE
          /\ IF currentFile = "open" THEN currentFile' = "closed" /\ Goto("history")
             ELSE UNCHANGED currentFile /\ Goto("idle")
    /\ UNCHANGED <<diskVars, fileName, currentFileSize, history, files, boundVars, clock,
                   message, stored, lost>>

\* The file is closed, with an error.
CheckFails ==
    /\ step = "check" /\ needsToRoll /\ currentFile = "open"
    /\ currentFile' = "closed" /\ rolling' = TRUE
    /\ Fail
    /\ UNCHANGED <<diskVars, fileName, currentFileSize, history, files, lost>>

getDirFilePaths == DOMAIN disk

\* The tail of a roll is a number or a date; without a tail, by size, the name is the
\* current file's.
isFileTailValid(f) == ByDate \/ f # 0

\* The i-th is the one with i - 1 before it.
sortFileTailsAsc(fs) ==
    [i \in 1..Cardinality(fs) |-> CHOOSE f \in fs : Cardinality({g \in fs : g < f}) = i - 1]

getSortedLogHistory ==
    sortFileTailsAsc({f \in getDirFilePaths : f # fileName /\ isFileTailValid(f)})

\* Wrong on purpose, to see ReadsInOrder fail: the number of a roll that is gone.
newHistoryNameFree ==
    IF ByDate THEN fileName
    ELSE CHOOSE f \in 1..(MaxWrites + 1) :
           f \notin DOMAIN disk /\ \A g \in 1..(f - 1) : g \in DOMAIN disk

\* By size the next number; by date the file keeps its name.
newHistoryName == IF ByDate THEN fileName
                  ELSE IF getSortedLogHistory = <<>> THEN 1 ELSE Last(getSortedLogHistory) + 1

History ==
    /\ step = "history"
    /\ history' = Append(getSortedLogHistory, newHistoryName)
    /\ Goto(IF ByDate THEN "trim" ELSE "rename")
    /\ UNCHANGED <<diskVars, currentFile, fileName, currentFileSize, files, rolling, boundVars,
                   clock, message, stored, lost>>

Rename ==
    /\ step = "rename"
    /\ disk' = With(Without(disk, {fileName}), Last(history), disk[fileName])
    /\ Goto("trim")
    /\ UNCHANGED <<archive, damaged, memoryVars, boundVars, clock, message, stored, lost>>

toDelete ==
    IF maxRolls = 0 \/ Len(history) <= maxRolls THEN <<>>
    ELSE SubSeq(history, 1, Len(history) - maxRolls)

\* deleteOldRolls: the archive, if there is one, is read into memory.
Trim ==
    /\ step = "trim"
    /\ files' = IF toDelete = <<>> THEN files ELSE archive
    /\ Goto(IF toDelete = <<>> THEN "create"
            ELSE IF ~Archives THEN "remove"
            ELSE IF damaged THEN "idle"
            ELSE IF archive = <<>> THEN "read" ELSE "removeArchive")
    /\ UNCHANGED <<diskVars, currentFile, fileName, currentFileSize, history, rolling,
                   boundVars, clock, message, stored, lost>>

\* Lstat fails on the archive, which is taken for none and will be overwritten.
TrimBlind ==
    /\ step = "trim" /\ toDelete # <<>> /\ Archives
    /\ archive # <<>> \/ damaged
    /\ failures < MaxFailures /\ failures' = failures + 1
    /\ files' = <<>>
    /\ Goto("read")
    /\ UNCHANGED <<diskVars, currentFile, fileName, currentFileSize, history, rolling, crashes,
                   clock, message, stored, lost>>

RemoveArchive ==
    /\ step = "removeArchive"
    /\ archive' = <<>>
    /\ Goto("read")
    /\ UNCHANGED <<disk, damaged, memoryVars, boundVars, clock, message, stored, lost>>

ReadRolls ==
    /\ step = "read"
    /\ files' = [f \in DOMAIN files \cup ToSet(toDelete) |->
                   IF f \in ToSet(toDelete) THEN disk[f] ELSE files[f]]
    /\ Goto("zip")
    /\ UNCHANGED <<diskVars, currentFile, fileName, currentFileSize, history, rolling,
                   boundVars, clock, message, stored, lost>>

MessagesIn(fs) == UNION {ToSet(fs[f]) : f \in DOMAIN fs}
Messages == MessagesIn(disk)

\* Between the removal of the archive and its making anew its rolls are in memory only.
Replacing == step \in {"read", "zip"} /\ archive = <<>>
Archived == MessagesIn(IF Replacing THEN files ELSE archive)

\* An archive that has not been removed was not seen: it is overwritten.
CreateZip ==
    /\ step = "zip"
    /\ archive' = files /\ damaged' = FALSE
    /\ lost' = lost \cup (IF Replacing THEN {} ELSE Archived \ Messages)
    /\ Goto("remove")
    /\ UNCHANGED <<disk, memoryVars, boundVars, clock, message, stored>>

\* One file at a time; history is not needed any more.
RemoveRoll ==
    /\ step = "remove"
    /\ IF toDelete = <<>> THEN Goto("create") /\ UNCHANGED <<disk, history>>
       ELSE /\ disk' = Without(disk, {Head(toDelete)})
            /\ history' = Tail(history)
            /\ UNCHANGED step
    /\ UNCHANGED <<archive, damaged, currentFile, fileName, currentFileSize, files, rolling, boundVars,
                   clock, message, stored, lost>>

\* A roll broken off forgets what is in memory only, and may leave an archive half written.
BreakOff ==
    \/ /\ UNCHANGED <<archive, damaged>>
       /\ lost' = lost \cup (IF Replacing THEN Archived \ Messages ELSE {})
    \/ /\ step = "zip"
       /\ archive' = <<>> /\ damaged' = TRUE
       /\ lost' = lost \cup (Archived \ Messages)

\* One of the steps of a roll fails.
RollFails ==
    /\ step \in {"history", "rename", "trim", "removeArchive", "read", "zip", "remove"}
    /\ BreakOff
    /\ Fail
    /\ UNCHANGED <<disk, memoryVars>>

AppendMessage ==
    /\ step = "append" /\ currentFile = "open"
    /\ currentFileSize' = currentFileSize + 1
    /\ disk' = [disk EXCEPT ![fileName] = Append(@, message)]
    /\ stored' = stored \cup {message}
    /\ Goto("idle")
    /\ UNCHANGED <<archive, damaged, currentFile, fileName, history, files, rolling, boundVars, clock,
                   message, lost>>

\* No file, or a write that fails: the size is counted all the same.
AppendFails ==
    /\ step = "append"
    /\ currentFileSize' = currentFileSize + 1
    /\ \/ currentFile = "open" /\ Fail
       \/ currentFile # "open" /\ Goto("idle")
                               /\ UNCHANGED <<boundVars, clock, message, stored>>
    /\ UNCHANGED <<diskVars, currentFile, fileName, history, files, rolling, lost>>

\* Close; the next Write opens the file again, unless closing it failed.
Close ==
    /\ step = "idle" /\ currentFile = "open"
    /\ \/ currentFile' = "nil" /\ UNCHANGED <<boundVars, clock, step, message, stored>>
       \/ currentFile' = "closed" /\ Fail
    /\ UNCHANGED <<diskVars, fileName, currentFileSize, history, files, rolling, lost>>

Crash ==
    /\ crashes < MaxCrashes /\ crashes' = crashes + 1
    /\ currentFile' = "nil" /\ fileName' = 0 /\ currentFileSize' = 0
    /\ history' = <<>> /\ files' = <<>> /\ rolling' = FALSE
    /\ Goto("idle")
    /\ BreakOff
    /\ UNCHANGED <<disk, clock, message, stored, failures>>

\* The clock does not go back.
Tick ==
    /\ ByDate /\ clock < MaxClock
    /\ clock' = clock + 1
    /\ UNCHANGED <<diskVars, memoryVars, boundVars, step, message, stored, lost>>

Next ==
    \/ Write \/ Create \/ CreateBlind \/ CreateFails \/ OpenFails \/ Check \/ CheckFails \/ History
    \/ Rename \/ Trim \/ TrimBlind \/ RemoveArchive \/ ReadRolls \/ CreateZip \/ RemoveRoll
    \/ RollFails \/ AppendMessage \/ AppendFails \/ Close \/ Crash \/ Tick

Spec == Init /\ [][Next]_vars
-----------------------------------------------------------------------------
TypeOK ==
    /\ DOMAIN disk \subseteq 0..(MaxWrites + MaxClock)
    /\ DOMAIN archive \subseteq 0..(MaxWrites + MaxClock)
    /\ currentFile \in {"nil", "open", "closed"}
    /\ currentFile = "open" => fileName \in DOMAIN disk
    /\ currentFileSize \in Nat
    /\ step \in {"idle", "create", "check", "history", "rename", "trim", "removeArchive",
                 "read", "zip", "remove", "append"}

\* Files read in the order of their names, the current one last, give the messages in
\* the order of the log, each once, whatever failed on the way.
Order(f) == IF ByDate \/ f # 0 THEN f ELSE MaxWrites + 1

ReadsInOrder ==
    /\ \A f \in DOMAIN disk : \A i, j \in DOMAIN disk[f] : i < j => disk[f][i] < disk[f][j]
    /\ \A f, g \in DOMAIN disk : Order(f) < Order(g) =>
         \A i \in ToSet(disk[f]), j \in ToSet(disk[g]) : i < j

\* A message whose Write returned no error is in a file or in the archive, if there is to
\* be one.  It may be lost in three ways only, all of them the code's: Lstat failed on its
\* file, or on the archive, or its archive was in memory when something failed.
NothingLost == Archives \/ maxRolls = 0 => stored \subseteq Messages \cup Archived \cup lost

\* Without an archive the oldest messages go first, and the newest maxRolls rolls stay.
OldestGoFirst ==
    \A k \in stored \ (Messages \cup Archived \cup lost) :
      /\ ~Archives
      /\ \A j \in Messages : k < j
      /\ Cardinality(DOMAIN disk) >= maxRolls

\* A Write that has rolled leaves no more than maxRolls rolls beside the current file,
\* also if earlier ones could not be removed.
RollsBounded ==
    rolling /\ step = "append" /\ maxRolls > 0 => Cardinality(DOMAIN disk) <= maxRolls + 1

\* Whatever fails or dies in the middle of a roll, the files give the log's messages in its
\* order, no more than maxRolls rolls stay, and no message goes but the oldest and those of
\* a file or an archive that Lstat did not see or that was in memory only.
RollsInOrder == ReadsInOrder /\ NothingLost /\ OldestGoFirst /\ RollsBounded
=============================================================================
