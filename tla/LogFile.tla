------------------------------ MODULE LogFile ------------------------------
(***************************************************************************)
(* logger/elog_file.c and elog_file_port.c: the file the log goes to, its  *)
(* rotation when it is large and its change at midnight.  The writers are  *)
(* the thread of AsyncLog and the threads that log at a level the ring is  *)
(* not used for; output_lock lets one of those in at a time.               *)
(*                                                                         *)
(* Lines have one length.  A file that is not there is an empty one.  The  *)
(* process may die at any moment and be started again.                     *)
(***************************************************************************)
EXTENDS Integers, SequencesExt

CONSTANTS
  Writers,     \* the threads that write lines
  NoWriter,
  MaxFileSize, \* ELOG_FILE_MAX_SIZE, in lines
  MaxRotate,   \* ELOG_FILE_MAX_ROTATE
  MaxLines,    \* bound: how many lines are written
  MaxDays      \* bound: how many days it goes on

ASSUME LogFileAssumption ==
  /\ NoWriter \notin Writers
  /\ MaxFileSize \in Nat /\ MaxRotate \in Nat \ {0} /\ MaxLines \in Nat /\ MaxDays \in Nat \ {0}

VARIABLES
  files,    \* per day: at 0 the lines of the file, at n those of its copy .n-1
  today,
  cur_day,  \* the day local_cfg has the name of
  fp,       \* the day whose file is open, 0 when fp is NULL
  semid,    \* there is a semaphore; not on Windows, or when semget has failed
  sem,      \* the thread that holds it, or NoWriter
  wpc,      \* where each thread is in elog_file_write
  file_size,
  copy,     \* elog_file_rotate's n + 1
  lines,    \* history: per day, the lines written, by number
  failed,   \* history: a rename has failed, or the process died in a rotation
  ruined    \* history: the program has run into undefined behaviour

fileVars == <<files, today, cur_day, fp, semid, sem, wpc, file_size, copy, lines, failed, ruined>>

Days == 1 .. MaxDays

FileInit ==
  /\ files = [d \in Days |-> [n \in 0 .. MaxRotate |-> << >>]]
  /\ today = 1 /\ cur_day = 1 /\ fp = 1
  /\ semid \in BOOLEAN /\ sem = NoWriter
  /\ wpc = [w \in Writers |-> "idle"]
  /\ file_size = [w \in Writers |-> 0] /\ copy = [w \in Writers |-> 0]
  /\ lines = [d \in Days |-> << >>] /\ failed = FALSE /\ ruined = FALSE

-----------------------------------------------------------------------------
(* elog_file_write *)

FGoto(w, l) == wpc' = [wpc EXCEPT ![w] = l]

\* A thread between its lock and its unlock.
Inside(w) == wpc[w] \notin {"idle", "lock"}
OthersInside(w) == \E v \in Writers \ {w} : Inside(v)

\* fp is looked at before the lock is taken; without a file the line is dropped.
Enter(w) ==
  /\ ~ruined /\ wpc[w] = "idle" /\ fp # 0
  /\ FGoto(w, "lock")
  /\ UNCHANGED <<files, today, cur_day, fp, semid, sem, file_size, copy, lines, failed, ruined>>

\* elog_file_port_lock
Lock(w) ==
  /\ ~ruined /\ wpc[w] = "lock"
  /\ semid => sem = NoWriter
  /\ sem' = IF semid THEN w ELSE sem
  /\ FGoto(w, "measure")
  /\ UNCHANGED <<files, today, cur_day, fp, semid, file_size, copy, lines, failed, ruined>>

\* The size is that of the file open now, also when the day has changed.
Measure(w) ==
  /\ ~ruined /\ wpc[w] = "measure"
  /\ ruined' = (fp = 0)
  /\ file_size' = [file_size EXCEPT ![w] = IF fp = 0 THEN 0 ELSE Len(files[fp][0])]
  /\ FGoto(w, IF cur_day = today THEN "check" ELSE "config")
  /\ cur_day' = today
  /\ UNCHANGED <<files, today, fp, semid, sem, copy, lines, failed>>

\* fopen may fail.
Opened(d) == fp' \in {0, d}

\* elog_file_config opens the file of the new day; where there is a semaphore it
\* takes it once more, and waits for its own thread.
Config(w) ==
  /\ ~ruined /\ wpc[w] = "config"
  /\ ~semid
  /\ ruined' = OthersInside(w)
  /\ Opened(cur_day)
  /\ FGoto(w, "check")
  /\ UNCHANGED <<files, today, cur_day, semid, sem, file_size, copy, lines, failed>>

\* Faulty variant: a file as large as it may be is rotated.
TooLargeEarly(size) == size >= MaxFileSize

TooLarge(size) == size > MaxFileSize

Check(w) ==
  /\ ~ruined /\ wpc[w] = "check"
  /\ \/ /\ ~TooLarge(file_size[w])
        /\ FGoto(w, "write")
        /\ UNCHANGED <<fp, copy, ruined>>
     \/ /\ TooLarge(file_size[w])
        /\ ruined' = (fp = 0 \/ OthersInside(w))
        /\ fp' = 0
        /\ copy' = [copy EXCEPT ![w] = MaxRotate]
        /\ FGoto(w, "rotate")
  /\ file_size' = [file_size EXCEPT ![w] = 0]
  /\ UNCHANGED <<files, today, cur_day, semid, sem, lines, failed>>

Write(w) ==
  /\ ~ruined /\ wpc[w] = "write"
  /\ IF fp = 0
     THEN ruined' = TRUE /\ UNCHANGED <<files, lines>>
     ELSE LET line == Len(lines[fp]) + 1 IN
          /\ line <= MaxLines
          /\ files' = [files EXCEPT ![fp][0] = Append(@, line)]
          /\ lines' = [lines EXCEPT ![fp] = Append(@, line)]
          /\ UNCHANGED ruined
  /\ FGoto(w, "unlock")
  /\ UNCHANGED <<today, cur_day, fp, semid, sem, file_size, copy, failed>>

\* elog_file_port_unlock
Unlock(w) ==
  /\ ~ruined /\ wpc[w] = "unlock"
  /\ sem' = NoWriter
  /\ FGoto(w, "idle")
  /\ copy' = [copy EXCEPT ![w] = 0]
  /\ UNCHANGED <<files, today, cur_day, fp, semid, file_size, lines, failed, ruined>>

-----------------------------------------------------------------------------
(* elog_file_rotate *)

\* The copy n - 1, or for n = 0 the file, is there.
There(n) == files[cur_day][n] # << >>

\* Faulty variant: a copy is not removed, but written behind.
RenameBehind(w) ==
  /\ ~ruined /\ wpc[w] = "rotate" /\ copy[w] > 0
  /\ LET n == copy[w] IN
       files' = [files EXCEPT ![cur_day][n] = files[cur_day][n - 1] \o @, ![cur_day][n - 1] = << >>]
  /\ copy' = [copy EXCEPT ![w] = @ - 1]
  /\ UNCHANGED <<today, cur_day, fp, semid, sem, wpc, file_size, lines, failed, ruined>>

\* One pass of the loop: the older copy is removed, and the younger renamed.
Rename(w) ==
  /\ ~ruined /\ wpc[w] = "rotate" /\ copy[w] > 0
  /\ LET n == copy[w] IN
       files' = [files EXCEPT ![cur_day][n] = files[cur_day][n - 1], ![cur_day][n - 1] = << >>]
  /\ copy' = [copy EXCEPT ![w] = @ - 1]
  /\ UNCHANGED <<today, cur_day, fp, semid, sem, wpc, file_size, lines, failed, ruined>>

\* rename fails after the older copy is gone: the line will be dropped.
RenameFails(w) ==
  /\ ~ruined /\ wpc[w] = "rotate" /\ copy[w] > 0
  /\ There(copy[w] - 1)
  /\ files' = [files EXCEPT ![cur_day][copy[w]] = << >>]
  /\ failed' = TRUE
  /\ Opened(cur_day)
  /\ FGoto(w, "unlock")
  /\ UNCHANGED <<today, cur_day, semid, sem, file_size, copy, lines, ruined>>

Reopen(w) ==
  /\ ~ruined /\ wpc[w] = "rotate" /\ copy[w] = 0
  /\ Opened(cur_day)
  /\ FGoto(w, "write")
  /\ UNCHANGED <<files, today, cur_day, semid, sem, file_size, copy, lines, failed, ruined>>

-----------------------------------------------------------------------------
Midnight ==
  /\ ~ruined /\ today < MaxDays
  /\ today' = today + 1
  /\ UNCHANGED <<files, cur_day, fp, semid, sem, wpc, file_size, copy, lines, failed, ruined>>

\* The process dies, wherever its threads are, and elog_file_init runs in the
\* next one; SEM_UNDO has released the semaphore.
Restart ==
  /\ ~ruined
  /\ cur_day' = today
  /\ Opened(today)
  /\ sem' = NoWriter
  /\ wpc' = [w \in Writers |-> "idle"]
  /\ file_size' = [w \in Writers |-> 0] /\ copy' = [w \in Writers |-> 0]
  /\ failed' = (failed \/ \E w \in Writers : wpc[w] = "rotate")
  /\ UNCHANGED <<files, today, semid, lines, ruined>>

FileNext ==
  \/ \E w \in Writers :
       \/ Enter(w) \/ Lock(w) \/ Measure(w) \/ Config(w) \/ Check(w) \/ Write(w) \/ Unlock(w)
       \/ Rename(w) \/ RenameFails(w) \/ Reopen(w)
  \/ Midnight \/ Restart

FileSpec == FileInit /\ [][FileNext]_fileVars

-----------------------------------------------------------------------------
(* Properties *)

\* What a reader finds in the files of a day, the oldest copy first.
Found(d) == FlattenSeq([i \in 1 .. MaxRotate + 1 |-> files[d][MaxRotate + 1 - i]])

\* The files of a day hold the lines of that day in the order they were written,
\* without a gap, up to the last one - at any moment, so that this is true also
\* when the process dies between two renames, after failed renames, and for a day
\* that begins while a writer is at work.  (elog_file_rotate, elog_file_config)
LinesInOrder == ~ruined => \A d \in Days : IsSuffix(Found(d), lines[d])

\* Where there is a semaphore, no file gets larger than its limit and a line, no
\* smaller one becomes a copy, and lines are lost only when all the copies there
\* may be are full - unless a rename has failed or the process died in a rotation,
\* which leaves a hole among the copies that the next rotation does not fill.
\* (elog_file_write, elog_file_rotate)
OnlyOldestLost ==
  semid /\ ~ruined =>
    \A d \in Days :
      /\ \A n \in 0 .. MaxRotate : Len(files[d][n]) <= MaxFileSize + 1
      /\ \A n \in 1 .. MaxRotate : files[d][n] # << >> => TooLarge(Len(files[d][n]))
      /\ ~failed /\ Len(Found(d)) < Len(lines[d]) =>
           Len(Found(d)) >= MaxRotate * (MaxFileSize + 1)

=============================================================================
