----------------------------- MODULE LogRotation -----------------------------
(***************************************************************************)
(* The rotating log file (src/logger/rotating_writer.go).  Goroutines hand *)
(* lines to Write, which works under a mutex: each step below is one call  *)
(* of the file system made with the mutex held.  Any of these calls may    *)
(* fail, which costs the line in hand, and the process may die between any *)
(* two of them.  A directory that cannot be read when an archive gets its  *)
(* name costs an archive instead.  A line has a size, and a day once it is *)
(* in the file; the limits of 20 MB, 1 GB and 14 days are the constants.   *)
(***************************************************************************)
EXTENDS Naturals, Sequences, FiniteSets, SequencesExt

CONSTANTS
  NoLine, MaxFile, MaxTotal, MaxAge,   \* maxLogFileSizeBytes, ...TotalSizeBytes, maxLogAge
  MaxDay, MaxFailures, MaxCrashes   \* bounds

ASSUME LogAssumption == MaxFile \in Nat /\ MaxTotal \in Nat /\ MaxAge \in Nat

VARIABLES
  file,       \* w.file: "nil", "open", or "closed" (not nil, but closed)
  size,       \* w.size
  active,     \* lines in the active file
  archives,   \* archived files from the oldest, with day and index of their names
  today,
  step,       \* the next call of whoever has the mutex
  line,       \* the line in hand, NoLine while the process starts
  failures,   \* calls that failed
  crashes,
  closeFailed,   \* history: a Close failed since the process started
  lost,       \* history: lines given up while ~closeFailed
  unread,     \* history: renames for which not all archives were seen
  replaced    \* history: archives that a rename replaced

disk == <<active, archives>>
writer == <<file, size>>
replacements == <<unread, replaced>>
counts == <<failures, crashes, closeFailed, lost, replacements>>
logVars == <<writer, disk, today, step, line, counts>>

Steps == {"idle", "down", "open", "close", "rename", "reopen", "expire", "trim", "append"}

SizeOf(lines) ==
  LET upTo[n \in 0..Len(lines)] == IF n = 0 THEN 0 ELSE upTo[n - 1] + lines[n].size
  IN upTo[Len(lines)]
Archived ==
  LET upTo[n \in 0..Len(archives)] == IF n = 0 THEN <<>> ELSE upTo[n - 1] \o archives[n].lines
  IN upTo[Len(archives)]
ArchivedSize == SizeOf(Archived)

\* All lines on the disk, in the order of the files.
Kept == Archived \o active

LogInit ==
  /\ file = "open" /\ size = 0
  /\ active = <<>> /\ archives = <<>>
  /\ today = 0 /\ step = "idle" /\ line = NoLine
  /\ failures = 0 /\ crashes = 0 /\ closeFailed = FALSE /\ lost = 0
  /\ unread = 0 /\ replaced = 0

------------------------------------------------------------------------------
(***************************************************************************)
(* Failing calls                                                           *)
(***************************************************************************)
CallFails == failures < MaxFailures /\ failures' = failures + 1

\* The error is returned and slog drops it; the process goes down instead if
\* it was starting.
GiveUp ==
  /\ step' = IF line = NoLine THEN "down" ELSE "idle"
  /\ lost' = lost + (IF line = NoLine \/ closeFailed THEN 0 ELSE 1)
  /\ line' = NoLine

Fails(at) ==
  /\ step = at
  /\ CallFails /\ GiveUp
  /\ UNCHANGED <<disk, today, crashes, closeFailed, replacements>>

------------------------------------------------------------------------------
(***************************************************************************)
(* Write                                                                   *)
(***************************************************************************)
AfterOpenMutant(n, l) == IF n > MaxFile THEN "close" ELSE "append"
AfterOpen(n, l) == IF n + l.size > MaxFile THEN "close" ELSE "append"

Write(l) ==
  /\ step = "idle"
  /\ line' = l
  /\ step' = IF file = "nil" THEN "open" ELSE AfterOpen(size, l)
  /\ UNCHANGED <<writer, disk, today, counts>>

OpenedSizeMutant == 0
\* openActiveFile goes on where the file ends.
OpenedSize == SizeOf(active)

OpenActiveFile ==
  /\ step = "open"
  /\ file' = "open" /\ size' = OpenedSize
  /\ step' = AfterOpen(OpenedSize, line)
  /\ UNCHANGED <<disk, today, line, counts>>

AfterCloseMutant == "closed"
\* w.file forgets a file it has closed.
AfterClose == "nil"

\* rotate.  Close of a file that is closed already fails without a fault.
Close ==
  /\ step = "close"
  /\ file = "open"
  /\ file' = AfterClose /\ step' = "rename"
  /\ UNCHANGED <<size, disk, today, line, counts>>

CloseFails ==
  /\ step = "close"
  /\ \/ file = "open" /\ CallFails
     \/ file = "closed" /\ UNCHANGED failures
  /\ file' = "closed" /\ closeFailed' = TRUE
  /\ GiveUp
  /\ UNCHANGED <<size, disk, today, crashes, replacements>>

IndexOnDay(day) == {archives[i].index : i \in {k \in DOMAIN archives : archives[k].day = day}}

NextIndexMutant(seen) == Cardinality(seen)
NextIndex(seen) ==
  IF seen = {} THEN 0 ELSE 1 + CHOOSE n \in seen : \A k \in seen : k <= n

\* os.Rename replaces a file of that name.
SameName(n) == {i \in DOMAIN archives : archives[i].day = today /\ archives[i].index = n}
Others(n) ==
  IF SameName(n) = {} THEN archives ELSE RemoveAt(archives, CHOOSE i \in SameName(n) : TRUE)

RenameTo(n) ==
  /\ step = "rename"
  /\ active # <<>>
  /\ archives' = Append(Others(n), [day |-> today, index |-> n, lines |-> active])
  /\ active' = <<>>
  /\ replaced' = replaced + (IF SameName(n) = {} THEN 0 ELSE 1)
  /\ step' = "reopen"
  /\ UNCHANGED <<writer, today, line, crashes, closeFailed, lost>>

Rename == RenameTo(NextIndex(IndexOnDay(today))) /\ UNCHANGED <<failures, unread>>

\* filepath.Glob hides that it cannot read the directory and returns the names
\* it has, none as a rule.
RenameUnread ==
  /\ \E seen \in SUBSET IndexOnDay(today) :
       seen # IndexOnDay(today) /\ RenameTo(NextIndex(seen))
  /\ CallFails /\ unread' = unread + 1

\* The file is gone, is empty or cannot be looked at: it is opened as it is.
NothingToRename ==
  /\ step = "rename"
  /\ \/ active = <<>> /\ UNCHANGED failures
     \/ active # <<>> /\ CallFails
  /\ step' = "reopen"
  /\ UNCHANGED <<writer, disk, today, line, crashes, closeFailed, lost, replacements>>

Reopen ==
  /\ step = "reopen"
  /\ file' = "open" /\ size' = OpenedSize
  /\ step' = "expire"
  /\ UNCHANGED <<disk, today, line, counts>>

------------------------------------------------------------------------------
(***************************************************************************)
(* cleanupArchives: first what is too old, by name, then the oldest while  *)
(* there is too much.                                                      *)
(***************************************************************************)
Expired == {i \in DOMAIN archives : today - Last(archives[i].lines).day > MaxAge}

\* Names sort by day, and by the digits of the index within a day.
RemoveExpired ==
  /\ step = "expire"
  /\ \E i \in Expired :
       /\ \A k \in Expired : archives[i].day <= archives[k].day
       /\ archives' = RemoveAt(archives, i)
  /\ UNCHANGED <<writer, active, today, step, line, counts>>

ExpiryEnds ==
  /\ step = "expire" /\ Expired = {}
  /\ step' = "trim"
  /\ UNCHANGED <<writer, disk, today, line, counts>>

TrimOldest ==
  /\ step = "trim" /\ ArchivedSize > MaxTotal
  /\ archives' = Tail(archives)
  /\ UNCHANGED <<writer, active, today, step, line, counts>>

TrimEnds ==
  /\ step = "trim" /\ ArchivedSize <= MaxTotal
  /\ step' = IF line = NoLine THEN "idle" ELSE "append"
  /\ UNCHANGED <<writer, disk, today, line, counts>>

AppendLine ==
  /\ step = "append" /\ file = "open"
  /\ active' = Append(active, [text |-> line, size |-> line.size, day |-> today])
  /\ size' = size + line.size
  /\ step' = "idle" /\ line' = NoLine
  /\ UNCHANGED <<file, archives, today, counts>>

\* A file that is closed takes no line, and nothing opens it again.
Deaf ==
  /\ step = "append" /\ file = "closed"
  /\ GiveUp
  /\ UNCHANGED <<writer, disk, today, failures, crashes, closeFailed, replacements>>

------------------------------------------------------------------------------
(***************************************************************************)
(* Time, and the death and the start of the process                        *)
(***************************************************************************)
NewDay ==
  /\ today < MaxDay
  /\ today' = today + 1
  /\ UNCHANGED <<writer, disk, step, line, counts>>

LogCrash ==
  /\ step # "down" /\ crashes < MaxCrashes
  /\ crashes' = crashes + 1
  /\ lost' = lost + (IF line = NoLine \/ closeFailed THEN 0 ELSE 1)
  /\ file' = "nil" /\ size' = 0
  /\ step' = "down" /\ line' = NoLine /\ closeFailed' = FALSE
  /\ UNCHANGED <<disk, today, failures, replacements>>

\* newRotatingFileWriter opens the file and cleans up.
LogRestart ==
  /\ step = "down"
  /\ file' = "open" /\ size' = OpenedSize
  /\ step' = "expire"
  /\ UNCHANGED <<disk, today, line, counts>>

CallOfStep(at) ==
  /\ at = "append" => file = "open"
  /\ at = "rename" => active # <<>>

LogFails ==
  \/ \E at \in Steps \ {"idle", "down", "close"} :
       Fails(at) /\ CallOfStep(at) /\ UNCHANGED writer
  \/ CloseFails \/ Deaf

LogStep ==
  \/ OpenActiveFile \/ Close \/ Rename \/ RenameUnread \/ NothingToRename \/ Reopen
  \/ RemoveExpired \/ ExpiryEnds \/ TrimOldest \/ TrimEnds \/ AppendLine
  \/ LogFails
=============================================================================
