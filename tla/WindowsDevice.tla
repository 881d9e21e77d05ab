---------------------------- MODULE WindowsDevice ----------------------------
(***************************************************************************)
(* The Windows side of DirectoryDevice (src/device/Directory.cpp), on the  *)
(* same disk trees.  A DWORD has half the bits of a size.  A file cannot   *)
(* be removed while it is open, and an error of the system may meet every  *)
(* call but the ones that move the file pointer.                           *)
(***************************************************************************)
EXTENDS DirectoryDevice

CONSTANTS
  DwordWidth,    \* bits of a DWORD, 32 in the code
  WindowsErrors  \* values of GetLastError() a call may fail with on any path

ASSUME DwordAssumption ==
  /\ DwordWidth \in 1 .. Width /\ 2 ^ DwordWidth \in Nat \ {0}
  /\ WindowsErrors \cap {"ERROR_FILE_NOT_FOUND", "ERROR_PATH_NOT_FOUND"} = {}

Dword(n) == n % (2 ^ DwordWidth)

ConvertWindowsError(error) ==
  CASE error \in {"ERROR_FILE_NOT_FOUND", "ERROR_PATH_NOT_FOUND"} -> "NOT_FOUND"
    [] error = "ERROR_ACCESS_DENIED" -> "PERMISSIONS_ERROR"
    [] error = "ERROR_ALREADY_EXISTS" -> "ALREADY_EXISTS"
    [] error = "ERROR_DISK_FULL" -> "OUT_OF_SPACE"
    [] OTHER -> "GENERIC_ERROR"

\* A function without a count returns with the error of a call.
ErrorReturned(error) == Return(ConvertWindowsError(error), bytes)

\* What CreateFileW() says of an entry it cannot open.
OpenErrors ==
  (CASE Entry.kind = "dir" -> {"ERROR_ACCESS_DENIED"}
     [] Entry.kind = "none" -> {"ERROR_FILE_NOT_FOUND"}
     [] OTHER -> {}) \cup WindowsErrors

\* SetFilePointer() fails for a negative position, and a position whose lower
\* half is INVALID_SET_FILE_POINTER is taken for a failure.
SeekRefused(position) ==
  position >= 2 ^ (Width - 1) \/ Dword(position) = 2 ^ DwordWidth - 1

-----------------------------------------------------------------------------
(* fileSize() and readFile().                                              *)

SizeOfOpened ==
  /\ dpc = "SIZE"
  /\ \/ Entry.kind = "file" /\ Return("OK", Len(Entry.data))
     \/ \E e \in OpenErrors : Return(ConvertWindowsError(e), 0)
  /\ UNCHANGED <<disk, size, pos, buffer, data>>

\* A file that cannot be opened is not found, whatever the error.
OpenToRead ==
  /\ dpc = "READ"
  /\ \/ Entry.kind = "file" /\ Go("READ", "measure")
     \/ OpenErrors # {} /\ Return("NOT_FOUND", 0)
  /\ UNCHANGED <<disk, size, pos, buffer, data>>

Measure ==
  /\ dpc = "measure"
  /\ \/ /\ size' = Len(Entry.data)
        /\ IF size' = 0 THEN Return("OK", 0) ELSE Go("measure", "set_pointer")
     \/ /\ \E e \in WindowsErrors : Return(ConvertWindowsError(e), 0)
        /\ UNCHANGED size
  /\ UNCHANGED <<disk, pos, buffer, data>>

SetPointer ==
  /\ dpc = "set_pointer"
  /\ IF SeekRefused(item.offset)
     THEN ReturnSilently /\ UNCHANGED <<size, pos, buffer>>
     ELSE /\ Go("set_pointer", "read_file")
          /\ pos' = item.offset
          /\ size' = Part
          /\ buffer' = (Part + (IF item.terminate THEN 1 ELSE 0)) % (2 ^ Width)
  /\ UNCHANGED <<disk, data>>

\* A read that fails is reported as one that read nothing.
ReadOpened ==
  /\ dpc = "read_file"
  /\ \/ data' = SubSeq(Entry.data, pos + 1, Least(pos + Dword(size), Len(Entry.data)))
     \/ WindowsErrors # {} /\ UNCHANGED data
  /\ Return("OK", Len(data'))
  /\ UNCHANGED <<disk, size, pos, buffer>>

-----------------------------------------------------------------------------
(* writeFile().                                                            *)

\* CREATE_ALWAYS, OPEN_ALWAYS or OPEN_EXISTING: a segment is not written to a
\* file that does not exist.
OpenToWrite ==
  /\ dpc = "WRITE"
  /\ \/ /\ ParentExists
        /\ Entry.kind \in (IF item.mode = "SEGMENT" THEN {"file"} ELSE {"file", "none"})
        /\ SetEntry(File(IF Truncates THEN <<>> ELSE Entry.data))
        /\ Go("WRITE", "set_write_pointer")
     \/ /\ \E e \in OpenErrors \cup (IF ParentExists THEN {} ELSE {"ERROR_PATH_NOT_FOUND"}) :
             /\ e = "ERROR_FILE_NOT_FOUND" => item.mode = "SEGMENT"
             /\ Return(ConvertWindowsError(e), 0)
        /\ UNCHANGED disk
  /\ UNCHANGED <<size, pos, buffer, data>>

SetWritePointer ==
  /\ dpc = "set_write_pointer"
  /\ pos' = (CASE item.mode = "TRUNCATE" -> 0
               [] item.mode = "APPEND" -> Len(Entry.data)
               [] item.mode = "SEGMENT" -> item.offset)
  /\ IF item.mode # "TRUNCATE" /\ SeekRefused(pos')
     THEN Return("GENERIC_ERROR", 0) ELSE Go("set_write_pointer", "write_file")
  /\ UNCHANGED <<disk, size, buffer, data>>

WriteOpened ==
  /\ dpc = "write_file"
  /\ LET k == Dword(Len(item.data))
     IN  \/ /\ pos + k <= LargestFile
            /\ SetEntry(File(Overwritten(Entry.data, pos, k))) /\ Return("OK", k)
         \/ /\ WindowsErrors # {} \/ pos + k > LargestFile
            /\ Return("GENERIC_ERROR", 0) /\ UNCHANGED disk
  /\ UNCHANGED <<size, pos, buffer, data>>

-----------------------------------------------------------------------------
(* deleteFile(), createDir() and deleteDir().                              *)

DeleteFileW ==
  /\ dpc = "DELETE"
  /\ \/ Entry.kind = "file" /\ SetEntry(Absent) /\ Return("OK", bytes)
     \/ (\E e \in OpenErrors : ErrorReturned(e)) /\ UNCHANGED disk
  /\ UNCHANGED <<size, pos, buffer, data>>

CreateDirectoryW ==
  /\ dpc = "CREATE_DIR"
  /\ \/ Entry.kind = "none" /\ ParentExists /\ SetEntry(Directory) /\ Return("OK", bytes)
     \/ Entry.kind = "none" /\ ~ParentExists /\ ErrorReturned("ERROR_PATH_NOT_FOUND")
        /\ UNCHANGED disk
     \/ Entry.kind # "none" /\ ErrorReturned("ERROR_ALREADY_EXISTS") /\ UNCHANGED disk
     \/ (\E e \in WindowsErrors : ErrorReturned(e)) /\ UNCHANGED disk
  /\ UNCHANGED <<size, pos, buffer, data>>

\* SHFileOperationW() finds the tree and removes it (RemoveEntry), or finds
\* nothing, which it says with one of several codes.
ShellDelete ==
  /\ dpc = "DELETE_DIR"
  /\ \/ Entry.kind # "none" /\ Go("DELETE_DIR", "remove")
     \/ /\ Entry.kind = "none"
        /\ \E code \in {"NOT_FOUND", "GENERIC_ERROR"} : Return(code, bytes)
  /\ UNCHANGED <<disk, size, pos, buffer, data>>

ShellDeleteFails ==
  /\ dpc = "remove"
  /\ WindowsErrors # {} \/ changed
  /\ \E code \in {"PERMISSIONS_ERROR", "GENERIC_ERROR"} \cup (IF changed THEN {"NOT_FOUND"} ELSE {}) :
       Return(code, bytes)
  /\ UNCHANGED <<disk, size, pos, buffer, data>>

WindowsStep ==
  \/ FileExists \/ SizeOfOpened
  \/ OpenToRead \/ Measure \/ SetPointer \/ ReadOpened
  \/ OpenToWrite \/ SetWritePointer \/ WriteOpened
  \/ DeleteFileW \/ CreateDirectoryW \/ ShellDelete \/ RemoveEntry \/ ShellDeleteFails
=============================================================================
