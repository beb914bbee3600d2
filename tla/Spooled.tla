------------------------------ MODULE Spooled ------------------------------
(***************************************************************************)
(* `lonejson_spooled` (src/src/impl/00_prelude.h): a byte container that   *)
(* keeps a prefix of at most MemoryLimit bytes in memory and spills the    *)
(* rest to a temporary file.  One handle is used by one thread at a time;  *)
(* appends, reads, rewinds and resets may come in any order, and every     *)
(* allocation and file operation may fail.                                 *)
(***************************************************************************)
EXTENDS Integers, Sequences

CONSTANTS
  Byte,          \* the byte values
  Chunks,        \* the data a client appends in one call
  Capacities,    \* the buffer sizes a client reads with
  MemoryLimit,   \* value->memory_limit
  MaxBytes,      \* value->max_bytes, 0 for no limit
  StorageBound   \* bound: bytes held, those of failed appends included

ASSUME SpooledAssumption ==
  /\ Chunks \subseteq Seq(Byte)
  /\ Capacities \subseteq Nat \ {0}
  /\ MemoryLimit \in Nat
  /\ MaxBytes \in Nat
  /\ StorageBound \in Nat

VARIABLES
  memory,      \* the in-memory prefix (memory, memory_len)
  spill,       \* what the temporary file holds
  open,        \* spill_fp # NULL
  tempDir,     \* temp_dir is set: spill files are named
  tempPath,    \* temp_path: empty, a file this handle made, or leftover text
  onDisk,      \* a named file made by this handle exists
  size,        \* value->size
  readOffset,  \* value->read_offset
  eof,         \* the eof flag of the last read
  accepted,    \* history: the bytes of the appends that returned OK
  failed,      \* history: an append failed after it had stored bytes
  delivered    \* history: the bytes read since the last rewind

vars == <<memory, spill, open, tempDir, tempPath, onDisk, size, readOffset, eof,
          accepted, failed, delivered>>
readVars == <<readOffset, eof, delivered>>
fileVars == <<open, tempDir, tempPath, onDisk>>

Least(m, n) == IF m < n THEN m ELSE n

(***************************************************************************)
(* lonejson__spooled_append and its parser twin, spooled_append_parse.     *)
(***************************************************************************)

MemoryCopy_WholeLimit(data) == Least(Len(data), MemoryLimit)

\* How much of the data goes to memory: what is left below the limit.
MemoryCopy(data) ==
  Least(Len(data), IF MemoryLimit > Len(memory) THEN MemoryLimit - Len(memory) ELSE 0)

MemoryPart(data) == SubSeq(data, 1, MemoryCopy(data))
SpillPart(data)  == SubSeq(data, MemoryCopy(data) + 1, Len(data))

\* The check against max_bytes, before anything is stored.
Fits(data) ==
  /\ MaxBytes # 0 => size + Len(data) <= MaxBytes
  /\ Len(memory) + Len(spill) + Len(data) <= StorageBound

NeedsSpill(data) == MemoryCopy(data) < Len(data)

\* open_temp succeeds, or finds the file open.
OpenTemp ==
  /\ open' = TRUE
  /\ IF ~open /\ tempDir
     THEN tempPath' = "ours" /\ onDisk' = TRUE
     ELSE UNCHANGED <<tempPath, onDisk>>
  /\ UNCHANGED tempDir

\* Everything is stored and the read position of the file is restored.
AppendStores(data) ==
  /\ Fits(data)
  /\ memory' = memory \o MemoryPart(data)
  /\ spill' = spill \o SpillPart(data)
  /\ IF NeedsSpill(data) THEN OpenTemp ELSE UNCHANGED fileVars
  /\ size' = size + Len(data)
  /\ accepted' = accepted \o data
  /\ UNCHANGED <<failed, readVars>>

\* A failed lonejson__spooled_reserve_memory returns before anything changes.
\* open_temp fails after the memory part was stored.  The path buffer keeps
\* the template that mkstemp refused (or the truncated path); after a failed
\* fdopen the file is removed and the path cleared.
AppendOpenFails(data) ==
  /\ Fits(data) /\ NeedsSpill(data) /\ ~open
  /\ memory' = memory \o MemoryPart(data)
  /\ tempPath' \in IF tempDir THEN {"stray", "empty"} ELSE {tempPath}
  /\ onDisk' = FALSE
  /\ failed' = TRUE
  /\ UNCHANGED <<spill, open, tempDir, size, accepted, readVars>>

\* The file is open, but a seek fails or the write is short: the first
\* `written` bytes of the spill part are in the file.
AppendSpillFails(data, written) ==
  /\ Fits(data) /\ NeedsSpill(data)
  /\ written <= Len(SpillPart(data))
  /\ memory' = memory \o MemoryPart(data)
  /\ spill' = spill \o SubSeq(SpillPart(data), 1, written)
  /\ OpenTemp
  /\ failed' = TRUE
  /\ UNCHANGED <<size, accepted, readVars>>

(***************************************************************************)
(* lonejson_spooled_read and lonejson_spooled_rewind.                      *)
(***************************************************************************)

ReadMemory_EndOfPrefixIsEof(capacity) ==
  LET copied == Least(Len(memory) - readOffset, capacity) IN
  /\ readOffset < Len(memory)
  /\ delivered' = delivered \o SubSeq(memory, readOffset + 1, readOffset + copied)
  /\ readOffset' = readOffset + copied
  /\ eof' = (readOffset' = Len(memory))
  /\ UNCHANGED <<memory, spill, fileVars, size, accepted, failed>>

\* A read is answered from memory while the cursor is inside the prefix.
ReadMemory(capacity) ==
  LET copied == Least(Len(memory) - readOffset, capacity) IN
  /\ readOffset < Len(memory)
  /\ delivered' = delivered \o SubSeq(memory, readOffset + 1, readOffset + copied)
  /\ readOffset' = readOffset + copied
  /\ eof' = (readOffset' = size)
  /\ UNCHANGED <<memory, spill, fileVars, size, accepted, failed>>

ReadSpill_CursorFromStart(capacity, got) ==
  /\ readOffset >= Len(memory) /\ open
  /\ got <= Least(Len(spill), capacity)
  /\ got = 0 => Len(spill) = 0
  /\ delivered' = delivered \o SubSeq(spill, 1, got)
  /\ readOffset' = readOffset + got
  /\ eof' = (readOffset' >= size)
  /\ UNCHANGED <<memory, spill, fileVars, size, accepted, failed>>

\* Past the prefix, pread takes `got` bytes at the cursor; it may read short,
\* and returns 0 only at the end of the file.
ReadSpill(capacity, got) ==
  LET offset == readOffset - Len(memory)
      left   == IF offset < Len(spill) THEN Len(spill) - offset ELSE 0 IN
  /\ readOffset >= Len(memory) /\ open
  /\ got <= Least(left, capacity)
  /\ got = 0 => left = 0
  /\ delivered' = delivered \o SubSeq(spill, offset + 1, offset + got)
  /\ readOffset' = readOffset + got
  /\ eof' = (readOffset' >= size)
  /\ UNCHANGED <<memory, spill, fileVars, size, accepted, failed>>

\* pread fails: the error is returned and the cursor stays.
PreadFails ==
  /\ readOffset >= Len(memory) /\ open
  /\ eof' = FALSE
  /\ UNCHANGED <<memory, spill, fileVars, size, readOffset, accepted, failed,
                 delivered>>

\* Nothing was spilled: the read reports the end.
ReadEnd ==
  /\ readOffset >= Len(memory) /\ ~open
  /\ eof' = TRUE
  /\ UNCHANGED <<memory, spill, fileVars, size, readOffset, accepted, failed,
                 delivered>>

\* The cursor goes back to the start, whether or not the file seek succeeds.
Rewind ==
  /\ readOffset' = 0
  /\ eof' = FALSE
  /\ delivered' = <<>>
  /\ UNCHANGED <<memory, spill, fileVars, size, accepted, failed>>

(***************************************************************************)
(* lonejson_spooled_write_to_sink: a private cursor is rewound and read    *)
(* until it reports the end.                                               *)
(***************************************************************************)
SinkOutput_NotRewound ==
  SubSeq(memory \o spill, readOffset + 1, Len(memory) + Len(spill))

\* The bytes handed to the sink.
SinkOutput ==
  IF Len(memory) # 0 /\ Len(memory) = size THEN memory
  ELSE IF open THEN memory \o spill ELSE memory

(***************************************************************************)
(* lonejson_spooled_cleanup and lonejson_spooled_reset.                    *)
(***************************************************************************)

CloseTemp_KeepsFile ==
  /\ open' = FALSE
  /\ tempPath' = "empty"
  /\ UNCHANGED onDisk

\* spooled_close_temp: the file is closed and the path, if any, unlinked.
CloseTemp ==
  /\ open' = FALSE
  /\ tempPath' = "empty"
  /\ onDisk' = (onDisk /\ tempPath # "ours")

Clear_SizeNotReset ==
  /\ memory' = <<>> /\ spill' = <<>>
  /\ size' = size - Len(memory) /\ readOffset' = 0 /\ eof' = FALSE
  /\ CloseTemp
  /\ accepted' = <<>> /\ failed' = FALSE /\ delivered' = <<>>

\* What cleanup and reset have in common.
Clear ==
  /\ memory' = <<>> /\ spill' = <<>>
  /\ size' = 0 /\ readOffset' = 0 /\ eof' = FALSE
  /\ CloseTemp
  /\ accepted' = <<>> /\ failed' = FALSE /\ delivered' = <<>>

\* The limits and the temporary directory are kept.
Reset == Clear /\ UNCHANGED tempDir

\* The temporary directory is released too.
Cleanup == Clear /\ tempDir' = FALSE

-----------------------------------------------------------------------------

\* lonejson_spooled_init_with_allocator.
Init ==
  /\ memory = <<>> /\ spill = <<>>
  /\ open = FALSE
  /\ tempDir \in BOOLEAN
  /\ tempPath = "empty" /\ onDisk = FALSE
  /\ size = 0 /\ readOffset = 0 /\ eof = FALSE
  /\ accepted = <<>> /\ failed = FALSE /\ delivered = <<>>

AppendData ==
  \E data \in Chunks :
    \/ AppendStores(data)
    \/ AppendOpenFails(data)
    \/ \E written \in 0..Len(data) : AppendSpillFails(data, written)

Read ==
  \E capacity \in Capacities :
    \/ ReadMemory(capacity)
    \/ \E got \in 0..capacity : ReadSpill(capacity, got)

Next == AppendData \/ Read \/ PreadFails \/ ReadEnd \/ Rewind \/ Reset \/ Cleanup

Spec == Init /\ [][Next]_vars

-----------------------------------------------------------------------------

\* The types of the handle.
TypeOK ==
  /\ memory \in Seq(Byte) /\ spill \in Seq(Byte)
  /\ open \in BOOLEAN /\ tempDir \in BOOLEAN /\ onDisk \in BOOLEAN
  /\ tempPath \in {"empty", "ours", "stray"}
  /\ size \in Nat /\ readOffset \in Nat
  /\ eof \in BOOLEAN /\ failed \in BOOLEAN
  /\ accepted \in Seq(Byte) /\ delivered \in Seq(Byte)

\* Sequential reads return the appended bytes in order, none lost and none
\* twice, across the boundary between memory and file, with short reads and
\* with appends in between.
ReadsReturnAppended ==
  ~failed => /\ readOffset <= Len(accepted)
             /\ delivered = SubSeq(accepted, 1, readOffset)

\* A read reports the end exactly when it has handed out the last byte, so a
\* loop that stops at eof neither truncates the value nor runs past it.
EofMeansAllRead ==
  [][ (Read \/ ReadEnd) /\ ~failed => (eof' <=> readOffset' = Len(accepted)) ]_vars

\* Streaming to a sink passes on exactly the appended bytes, wherever the
\* read cursor is.
SinkStreamsAppended == ~failed => SinkOutput = accepted

\* The memory prefix and the whole value respect their limits, also when
\* appends fail half way.
LimitsRespected ==
  /\ Len(memory) <= MemoryLimit
  /\ MaxBytes # 0 => size <= MaxBytes
  /\ size = Len(accepted)

\* A temporary file on disk is one that cleanup will remove.
NoFileLeaked == onDisk => open /\ tempPath = "ours"

=============================================================================
