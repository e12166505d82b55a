------------------------------- MODULE Logger -------------------------------
(***************************************************************************)
(* The logger of src/src/core/logger.c over the paged file of              *)
(* src/src/core/fs/file.c.  Lines are gathered in logm and written when    *)
(* threshold of them are there; the file keeps pages, pointers into logm,  *)
(* until it is flushed.                                                    *)
(*                                                                         *)
(* A byte is the line it belongs to and its place there; the last byte of  *)
(* a line is its newline, and no message contains a '?', which marks the   *)
(* end of what logm holds (the one caller, content_archive_create, prints  *)
(* two addresses).  fb_create opens the file in the mode that truncates,   *)
(* so the log starts empty.                                                *)
(***************************************************************************)
EXTENDS Integers, Sequences

CONSTANTS
  MaxLength,   \* max_length: no line is longer, its newline included
  BufferSize,  \* sizeof(logm)
  MaxLines     \* bound on the lines logged

ASSUME SizeAssumption ==
  /\ MaxLength \in Nat \ {0} /\ BufferSize \in Nat /\ MaxLines \in Nat
  /\ BufferSize \div MaxLength > 0
  /\ BufferSize % MaxLength >= 2   \* 16384 % 150 = 34: room for the mark and the zero

VARIABLES
  logm,     \* the text gathered, up to the mark
  count,    \* lines gathered
  pages,    \* page_list of the file: where each page starts and how long it is
  file,     \* what the file holds
  filepos,  \* bytes the logger believes the file holds
  at,       \* logm (the local pointer of logger_flush): bytes before it
  left,     \* turns of the flushing loop still to make
  pc,       \* "ready", "flushing" or "closed"
  closing,  \* the flush is that of logger_destroy
  lines     \* lines logged, their lengths

loggerVars == <<logm, count, pages, file, filepos, at, left, pc, closing, lines>>

threshold == BufferSize \div MaxLength

LineOf(k, n) == [i \in 1 .. n |-> [line |-> k, place |-> i, last |-> i = n]]

\* logger_init
LoggerInit ==
  /\ logm = <<>> /\ count = 0 /\ pages = <<>> /\ file = <<>> /\ filepos = 0
  /\ at = 0 /\ left = 0 /\ pc = "ready" /\ closing = FALSE /\ lines = <<>>

\* Mutant: the buffer is flushed when a line more than it has room for has come.
FlushIsDueLate(n) == n > threshold

\* logger_write: the test for the threshold
FlushIsDue(n) == n = threshold

\* logger_write, of a line of n bytes
Write(n) ==
  /\ pc = "ready" /\ Len(lines) < MaxLines
  /\ logm' = logm \o LineOf(Len(lines) + 1, n)
  /\ lines' = Append(lines, n)
  /\ count' = count + 1
  /\ IF FlushIsDue(count')
       THEN pc' = "flushing" /\ left' = count' /\ at' = 0
       ELSE UNCHANGED <<pc, left, at>>
  /\ UNCHANGED <<pages, file, filepos, closing>>

\* logger_destroy, up to the loop
Destroy ==
  /\ pc = "ready"
  /\ pc' = "flushing" /\ closing' = TRUE /\ left' = count /\ at' = 0
  /\ UNCHANGED <<logm, count, pages, file, filepos, lines>>

\* strchr(logm, '\n') + 1, as a number of bytes from the start
AfterLine == CHOOSE i \in at + 1 .. Len(logm) :
               logm[i].last /\ \A j \in at + 1 .. i - 1 : ~logm[j].last

\* file_write, of paged data: the pointer is kept.
Paged(length) == Append(pages, [start |-> 0, length |-> length])

\* Mutant: the loop compares with count, which each turn lowers, not with what it was.
PageOfShrinking ==
  /\ pc = "flushing" /\ left > 0
  /\ pages' = Paged(AfterLine - at)
  /\ filepos' = filepos + AfterLine - at
  /\ count' = count - 1
  /\ at' = AfterLine
  /\ left' = IF left > 2 THEN left - 2 ELSE 0
  /\ UNCHANGED <<logm, file, pc, closing, lines>>

\* A turn of logger_flush and the file_write it makes: the page starts where logm does,
\* whichever line it is for.
Page ==
  /\ pc = "flushing" /\ left > 0
  /\ pages' = Paged(AfterLine - at)
  /\ filepos' = filepos + AfterLine - at
  /\ count' = count - 1
  /\ at' = AfterLine
  /\ left' = left - 1
  /\ UNCHANGED <<logm, file, pc, closing, lines>>

Zero == [line |-> 0, place |-> 0, last |-> FALSE]
ByteAt(text, i) == IF i <= Len(text) THEN text[i] ELSE Zero

\* What pwritev gathers from the pages, with logm as it then is.
Gathered(ps, text) ==
  LET g[k \in 0 .. Len(ps)] ==
        IF k = 0 THEN <<>>
        ELSE g[k - 1] \o [i \in 1 .. ps[k].length |-> ByteAt(text, ps[k].start + i)]
  IN  g[Len(ps)]

\* Mutant: the buffer is cleared before the file is flushed.
TextFlushedCleared == <<>>

\* The buffer file_flush finds: logger_flush clears it afterwards.
TextFlushed == logm

\* The end of logger_flush: file_flush, then the buffer is cleared; and file_close.
Flush ==
  /\ pc = "flushing" /\ left = 0
  /\ file' = file \o Gathered(pages, TextFlushed)
  /\ pages' = <<>> /\ logm' = <<>> /\ count' = 0
  /\ pc' = IF closing THEN "closed" ELSE "ready"
  /\ UNCHANGED <<filepos, at, left, closing, lines>>

LoggerNext == (\E n \in 1 .. MaxLength : Write(n)) \/ Destroy \/ Page \/ Flush

LoggerSpec == LoggerInit /\ [][LoggerNext]_loggerVars

----------------------------------------------------------------------------
(* Properties *)

\* logger_write prints into logm without a bound: lines of at most max_length bytes, the
\* mark and the zero behind it always fit, because the buffer is flushed in time.
BufferHolds ==
  /\ Len(logm) + 2 <= BufferSize
  /\ count \in 0 .. threshold

\* The bytes of the first k lines of lengths ls.
Total(ls, k) == LET t[j \in 0 .. k] == IF j = 0 THEN 0 ELSE t[j - 1] + ls[j] IN t[k]

\* Whenever logger_flush has given the mutex back, the file is as long as filepos says
\* and as the lines that are no longer in the buffer: no line is skipped or written
\* twice (what the file holds of it is another matter: see FirstLinesKept).
NoLineDropped ==
  pc # "flushing" => /\ Len(file) = filepos
                     /\ filepos + Len(logm) = Total(lines, Len(lines))
                     /\ pages = <<>>

\* The pages are read before the buffer they point into is cleared, and each flush starts
\* with its first line as it was logged.  The lines after it come out as beginnings of
\* the buffer: logger_flush passes logger->logm, not the pointer it has moved.
FirstLinesKept ==
  \A k \in 1 .. Len(lines) :
    (k - 1) % threshold = 0 /\ Total(lines, k) <= Len(file)
      => SubSeq(file, Total(lines, k - 1) + 1, Total(lines, k)) = LineOf(k, lines[k])
=============================================================================
