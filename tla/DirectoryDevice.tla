--------------------------- MODULE DirectoryDevice ---------------------------
(***************************************************************************)
(* The POSIX side of DirectoryDevice (src/device/Directory.cpp): every     *)
(* function as the system calls it makes, each of which may fail, on disk  *)
(* trees that other processes use too.  The processing thread runs one     *)
(* function at a time.                                                     *)
(***************************************************************************)
EXTENDS Integers, Sequences, FiniteSets, SequencesExt, FiniteSetsExt

CONSTANTS
  Devices,    \* the devices, as numbers
  Paths,      \* paths on a device, as sequences of components
  Bytes,      \* contents of a byte, with Zero among them
  Zero,
  Width,      \* bits of a size, 64 in the code
  Errors,     \* values of errno a system call may fail with on any path
  Null

ASSUME DeviceAssumption ==
  /\ Devices \subseteq Nat /\ IsFiniteSet(Devices)
  /\ Paths \subseteq Seq(STRING)
  /\ \A p \in Paths : p # <<>> /\ (Len(p) > 1 => Front(p) \in Paths)
  /\ Zero \in Bytes
  /\ "ENOENT" \notin Errors
  /\ Null \notin Nat \cup STRING

\* A size has a bit more than the positive values of an off_t.
ASSUME WidthAssumption ==
  /\ Width \in Nat \ {0}
  /\ 2 ^ (Width - 1) \in Nat \ {0} /\ 2 ^ Width = 2 * 2 ^ (Width - 1)

VARIABLES
  disk,      \* the entries of each device
  item,      \* the parameters of the function
  dev,       \* its device
  dpc,       \* where the thread is in it, "none" outside
  size, pos, \* fileSize, and the position of the open file
  buffer,    \* the bytes allocated for *buffer, or Null
  data,      \* history: what was read into it
  bytes,     \* bytesRead, bytesWritten or the size of the file
  result,    \* *outError or the return code
  changed    \* another process changed what the function is concerned with

deviceVars == <<disk, dev, dpc, size, pos, buffer, data, bytes, result, changed>>

Absent == [kind |-> "none", data |-> <<>>]
Directory == [kind |-> "dir", data |-> <<>>]
File(content) == [kind |-> "file", data |-> content]

Entry == disk[dev][item.path]
SetEntry(e) == disk' = [disk EXCEPT ![dev][item.path] = e]

\* The paths at and below p that exist.
Subtree(d, p) == {q \in Paths : IsPrefix(p, q) /\ disk[d][q].kind # "none"}

\* The errno of a path that does not exist.
LookupError ==
  IF \E p \in Paths : IsStrictPrefix(p, item.path) /\ disk[dev][p].kind = "file"
  THEN "ENOTDIR" ELSE "ENOENT"

ParentExists == Len(item.path) > 1 => disk[dev][Front(item.path)].kind = "dir"

ConvertError(errno) ==
  CASE errno = "EEXIST" -> "ALREADY_EXISTS"
    [] errno \in {"EPERM", "EACCES"} -> "PERMISSIONS_ERROR"
    [] errno = "EROFS" -> "UNSUPPORTED"
    [] errno = "ENOENT" -> "NOT_FOUND"
    [] errno = "ENOSPC" -> "OUT_OF_SPACE"
    [] OTHER -> "GENERIC_ERROR"

\* The function returns; bytes is its return value where it has one.
Return(code, count) ==
  /\ dpc' = "returned"
  /\ result' = code /\ bytes' = count
  /\ UNCHANGED <<item, dev>>

Fail(errno) == Return(ConvertError(errno), 0)

\* It returns without a word about the result.
ReturnSilently == dpc' = "returned" /\ bytes' = 0 /\ UNCHANGED <<item, dev, result>>

Go(from, to) == dpc = from /\ dpc' = to /\ UNCHANGED <<item, dev, result, bytes>>

\* create(), given what is at the path of the device.
Created(kind) == IF kind = "dir" THEN "OK" ELSE "NOT_FOUND"

-----------------------------------------------------------------------------
(* fileExists() and fileSize(): stat().                                    *)

FileExists ==
  /\ dpc = "EXISTS"
  /\ \/ Return(IF Entry.kind = "file" THEN "OK" ELSE "NOT_FOUND", bytes)
     \/ Errors # {} /\ Return("NOT_FOUND", bytes)
  /\ UNCHANGED <<disk, size, pos, buffer, data>>

FileSize ==
  /\ dpc = "SIZE"
  /\ CASE Entry.kind = "file" -> Return("OK", Len(Entry.data))
       [] Entry.kind = "dir" -> Return("UNSUPPORTED", 0)
       [] OTHER -> Fail(LookupError)
  /\ UNCHANGED <<disk, size, pos, buffer, data>>

FileSizeFails ==
  /\ dpc = "SIZE"
  /\ \E e \in Errors : Fail(e)
  /\ UNCHANGED <<disk, size, pos, buffer, data>>

-----------------------------------------------------------------------------
(* readFile().                                                             *)

OpenRead ==
  /\ dpc = "READ"
  /\ \/ Entry.kind # "none" /\ Go("READ", "seek_end")
     \/ Entry.kind = "none" /\ Fail(LookupError)
     \/ \E e \in Errors : Fail(e)
  /\ UNCHANGED <<disk, size, pos, buffer, data>>

\* The size of the file is where its end is.  Of a file of zero bytes nothing
\* is read and nothing said.
SeekEnd ==
  /\ dpc = "seek_end" /\ Entry.kind = "file"
  /\ IF Entry.data = <<>> THEN ReturnSilently ELSE Go("seek_end", "seek_set")
  /\ size' = Len(Entry.data) /\ pos' = Len(Entry.data)
  /\ UNCHANGED <<disk, buffer, data>>

\* What the end of a directory is depends on the file system.
SeekEndDirectory ==
  /\ dpc = "seek_end" /\ Entry.kind = "dir"
  /\ \/ Fail("EINVAL") /\ UNCHANGED <<size, pos>>
     \/ ReturnSilently /\ UNCHANGED <<size, pos>>
     \/ Go("seek_end", "seek_set") /\ size' = 1 /\ pos' = 1
  /\ UNCHANGED <<disk, buffer, data>>

Least(a, b) == IF a < b THEN a ELSE b

\* The size of the part to read, in unsigned arithmetic.
Part == Least((size - item.offset) % (2 ^ Width), item.max)

\* Mistake: the position stays where the size was measured.
SeekSetForgotten ==
  /\ Go("seek_set", "alloc")
  /\ size' = Part
  /\ UNCHANGED <<disk, pos, buffer, data>>

\* An offset that is negative as an off_t cannot be sought; the test of the
\* result does not see it, and the position stays at the end.
SeekSet ==
  /\ Go("seek_set", "alloc")
  /\ pos' = IF item.offset < 2 ^ (Width - 1) THEN item.offset ELSE pos
  /\ size' = Part
  /\ UNCHANGED <<disk, buffer, data>>

\* Mistake: no room is allocated for the terminator.
RoomForBytes == size

Room == (size + (IF item.terminate THEN 1 ELSE 0)) % (2 ^ Width)

\* Without memory the read ends well and empty.
AllocBuffer ==
  /\ dpc = "alloc"
  /\ \/ buffer' = Room /\ Go("alloc", "read")
     \/ buffer' = Null /\ Return("OK", 0)
  /\ UNCHANGED <<disk, size, pos, data>>

\* What there is to read of the part.
Rest == SubSeq(Entry.data, pos + 1, Least(pos + size, Len(Entry.data)))

\* One read() may transfer less than there is, and what it transfers is taken
\* for the part.  It transfers nothing only where there is nothing.
ReadBytes ==
  /\ dpc = "read" /\ Entry.kind = "file" /\ size < 2 ^ (Width - 1)
  /\ \E k \in Least(1, Len(Rest)) .. Len(Rest) : data' = SubSeq(Rest, 1, k)
  /\ Return("OK", Len(data'))
  /\ UNCHANGED <<disk, size, pos, buffer>>

\* A directory cannot be read, nor a size that is negative as an ssize_t.
ReadErrors ==
  IF Entry.kind = "dir" THEN {"EISDIR"}
  ELSE IF size >= 2 ^ (Width - 1) THEN {"EINVAL"} ELSE Errors

\* Mistake: the buffer is not freed when the read fails.
ReadFailsKeeps ==
  /\ dpc = "read"
  /\ \E e \in ReadErrors : Fail(e)
  /\ UNCHANGED <<disk, size, pos, buffer, data>>

\* The buffer is freed when the read fails.
ReadFails ==
  /\ dpc = "read"
  /\ \E e \in ReadErrors : Fail(e)
  /\ buffer' = Null
  /\ UNCHANGED <<disk, size, pos, data>>

-----------------------------------------------------------------------------
(* writeFile().                                                            *)

\* Mistake: every write truncates the file.
TruncatesAlways == TRUE

Truncates == item.mode = "TRUNCATE"

\* The file is created when there is none, whatever the mode.
OpenWrite ==
  /\ dpc = "WRITE"
  /\ \/ /\ ParentExists /\ Entry.kind # "dir"
        /\ SetEntry(File(IF Truncates THEN <<>> ELSE Entry.data))
        /\ Go("WRITE", "seek_write")
     \/ ~ParentExists /\ Fail(LookupError) /\ UNCHANGED disk
     \/ Entry.kind = "dir" /\ Fail("EISDIR") /\ UNCHANGED disk
     \/ \E e \in Errors : Fail(e) /\ UNCHANGED disk
  /\ UNCHANGED <<size, pos, buffer, data>>

SeekWrite ==
  /\ dpc = "seek_write"
  /\ \/ item.offset < 2 ^ (Width - 1) /\ Go("seek_write", "write") /\ pos' = item.offset
     \/ item.offset >= 2 ^ (Width - 1) /\ Fail("EINVAL") /\ UNCHANGED pos
  /\ UNCHANGED <<disk, size, buffer, data>>

\* A file after the first k bytes of the item's are written at offset at; a
\* gap behind its end is filled with zeros, unless nothing is written.
Overwritten(content, at, k) ==
  [i \in 1 .. (IF k = 0 \/ at + k < Len(content) THEN Len(content) ELSE at + k) |->
     IF i \in at + 1 .. at + k THEN item.data[i - at]
     ELSE IF i <= Len(content) THEN content[i] ELSE Zero]

\* The largest file an off_t can measure.
LargestFile == 2 ^ (Width - 1) - 1

WritePosition == IF item.mode = "APPEND" THEN Len(Entry.data) ELSE pos

\* write() may take a part of the bytes only, and that is the result.
WriteBytes ==
  /\ dpc = "write"
  /\ \E k \in IF item.data = <<>> THEN {0} ELSE 1 .. Len(item.data) :
       /\ WritePosition + k <= LargestFile
       /\ SetEntry(File(Overwritten(Entry.data, WritePosition, k)))
       /\ Return("OK", k)
  /\ UNCHANGED <<size, pos, buffer, data>>

WriteFails ==
  /\ dpc = "write"
  /\ \E e \in Errors \cup (IF WritePosition = LargestFile THEN {"EFBIG"} ELSE {}) : Fail(e)
  /\ UNCHANGED <<disk, size, pos, buffer, data>>

-----------------------------------------------------------------------------
(* deleteFile(), createDir() and deleteDir().                              *)

DeleteFile ==
  /\ dpc = "DELETE"
  /\ \/ Entry.kind = "file" /\ SetEntry(Absent) /\ Return("OK", bytes)
     \/ Entry.kind = "dir" /\ Return(ConvertError("EISDIR"), bytes) /\ UNCHANGED disk
     \/ Entry.kind = "none" /\ Return(ConvertError(LookupError), bytes) /\ UNCHANGED disk
     \/ \E e \in Errors : Return(ConvertError(e), bytes) /\ UNCHANGED disk
  /\ UNCHANGED <<size, pos, buffer, data>>

CreateDir ==
  /\ dpc = "CREATE_DIR"
  /\ \/ Entry.kind = "none" /\ ParentExists /\ SetEntry(Directory) /\ Return("OK", bytes)
     \/ Entry.kind = "none" /\ ~ParentExists /\ Return(ConvertError(LookupError), bytes)
        /\ UNCHANGED disk
     \/ Entry.kind # "none" /\ Return(ConvertError("EEXIST"), bytes) /\ UNCHANGED disk
     \/ \E e \in Errors : Return(ConvertError(e), bytes) /\ UNCHANGED disk
  /\ UNCHANGED <<size, pos, buffer, data>>

\* The tree is walked, or fts_open() fails, which nobody is told.
OpenTree ==
  /\ dpc = "DELETE_DIR"
  /\ \/ Entry.kind # "none" /\ Go("DELETE_DIR", "remove")
     \/ Entry.kind = "none" /\ Return(ConvertError(LookupError), bytes)
     \/ Return("OK", bytes)
  /\ UNCHANGED <<disk, size, pos, buffer, data>>

\* Mistake: directories are removed before what they contain.
NextRemoved(p) == p \in Subtree(dev, item.path)

\* An entry is removed after everything below it.
Removable(p) == Subtree(dev, p) = {p} /\ IsPrefix(item.path, p)

\* The walk removes one entry after the other, the directory itself last.
RemoveEntry ==
  /\ dpc = "remove"
  /\ \E p \in Paths :
       /\ Removable(p)
       /\ disk' = [disk EXCEPT ![dev][p] = Absent]
       /\ IF p = item.path THEN Return("OK", bytes) ELSE Go("remove", "remove")
  /\ UNCHANGED <<size, pos, buffer, data>>

\* Mistake: an entry that cannot be removed is passed over in silence.
RemoveFailsSilently ==
  /\ dpc = "remove"
  /\ Errors # {} /\ Return("OK", bytes)
  /\ UNCHANGED <<disk, size, pos, buffer, data>>

\* The first entry that cannot be removed ends the walk: one that is gone
\* since its directory was read, or has got entries the walk has not seen.
RemoveFails ==
  /\ dpc = "remove"
  /\ \E e \in Errors \cup (IF changed THEN {"ENOENT", "ENOTEMPTY"} ELSE {}) :
       Return(ConvertError(e), bytes)
  /\ UNCHANGED <<disk, size, pos, buffer, data>>

DeviceStep ==
  \/ FileExists \/ FileSize \/ FileSizeFails
  \/ OpenRead \/ SeekEnd \/ SeekEndDirectory \/ SeekSet \/ AllocBuffer
  \/ ReadBytes \/ ReadFails
  \/ OpenWrite \/ SeekWrite \/ WriteBytes \/ WriteFails
  \/ DeleteFile \/ CreateDir \/ OpenTree \/ RemoveEntry \/ RemoveFails
=============================================================================
