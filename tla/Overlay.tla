------------------------------- MODULE Overlay -------------------------------
(***************************************************************************)
(* The processing thread over directory devices mounted one over the other *)
(* at the root: a read operation asks the devices, the newest first, until *)
(* one has something to say (FileContext.cpp:663-705), and a mutating one  *)
(* goes to the newest device it may change.  MountTable models how these   *)
(* devices are found, DirectoryDevice and WindowsDevice what each does on  *)
(* the platform the library was built for.                                 *)
(***************************************************************************)
EXTENDS WindowsDevice

CONSTANTS
  Writable,    \* the devices mounted with the permissions to change them
  Platforms,   \* "posix", "windows" or both
  Operations,  \* the operations items ask for
  Reads,       \* parameters of READ items: offset, max, terminate
  Writes,      \* parameters of WRITE items: mode, offset, data
  Contents,    \* contents of files that are there, or that others write
  MaxItems,    \* bound of the model: items processed
  MaxForeign   \* bound of the model: changes by other processes

ReadOps == {"EXISTS", "SIZE", "READ"}
Sizes == 0 .. 2 ^ Width - 1

ASSUME OverlayAssumption ==
  /\ Devices # {} /\ Writable \subseteq Devices /\ Writable # {}
  /\ Platforms \subseteq {"posix", "windows"}
  /\ Operations \subseteq ReadOps \cup {"WRITE", "DELETE", "CREATE_DIR", "DELETE_DIR"}
  /\ Reads \subseteq [offset : Sizes, max : Sizes, terminate : BOOLEAN]
  /\ Writes \subseteq [mode : {"TRUNCATE", "APPEND", "SEGMENT"}, offset : Sizes, data : Seq(Bytes)]
  /\ \A w \in Writes : w.mode # "SEGMENT" => w.offset = 0
  /\ Contents \subseteq Seq(Bytes) /\ \A c \in Contents : Len(c) <= LargestFile
  /\ MaxItems \in Nat /\ MaxForeign \in Nat

VARIABLES
  platform, \* what the library was built for
  mounted,  \* the devices created and mounted
  tpc,      \* "idle", "item" while an item is processed, "finish"
  items,    \* history: items processed
  foreign,  \* history: changes by other processes
  before    \* history: the device to be changed, before the item

itemVars == <<tpc, items, before>>
mountVars == <<platform, mounted>>
vars == <<deviceVars, item, mountVars, itemVars, foreign>>

\* Entries that form trees.
Trees ==
  {tree \in [Paths -> {Absent, Directory} \cup {File(c) : c \in Contents}] :
     \A p \in Paths : Len(p) > 1 /\ tree[p] # Absent => tree[Front(p)].kind = "dir"}

NoItem == [op |-> Null]

Init ==
  /\ disk \in [Devices -> Trees]
  /\ platform \in Platforms /\ mounted = {}
  /\ item = NoItem /\ dev = Null /\ dpc = "none"
  /\ size = 0 /\ pos = 0 /\ buffer = Null /\ data = <<>> /\ bytes = 0 /\ result = Null
  /\ tpc = "idle" /\ items = 0 /\ foreign = 0 /\ changed = FALSE /\ before = Null

-----------------------------------------------------------------------------
(* createMount() and releaseMount() between two items.                     *)

Newer(d) == {e \in Devices : e > d}

\* A device is created and mounted over the ones there are, unless there is
\* no directory at its path.
CreateDevice ==
  /\ tpc = "idle"
  /\ \E d \in Devices \ mounted, kind \in {"none", "dir", "file"} :
       /\ mounted \cap Newer(d) = {}
       /\ mounted' = IF Created(kind) = "OK" THEN mounted \cup {d} ELSE mounted
  /\ UNCHANGED <<deviceVars, item, platform, itemVars, foreign>>

\* A device is destroyed when its mount is released; what is on the disk stays.
DestroyDevice ==
  /\ tpc = "idle"
  /\ \E d \in mounted : mounted' = mounted \ {d}
  /\ UNCHANGED <<deviceVars, item, platform, itemVars, foreign>>

-----------------------------------------------------------------------------
\* The parameters of an item, for each operation.
Items(op) ==
  CASE op = "READ" ->
         {[op |-> op, path |-> p, offset |-> r.offset, max |-> r.max,
           terminate |-> r.terminate] : p \in Paths, r \in Reads}
    [] op = "WRITE" ->
         {[op |-> op, path |-> p, mode |-> w.mode, offset |-> w.offset,
           data |-> w.data] : p \in Paths, w \in Writes}
    [] OTHER -> {[op |-> op, path |-> p] : p \in Paths}

StartItem ==
  /\ tpc = "idle" /\ tpc' = "item"
  /\ items < MaxItems /\ items' = items + 1
  /\ \E op \in Operations :
       /\ item' \in Items(op)
       /\ LET found == IF op \in ReadOps THEN mounted ELSE mounted \cap Writable
          IN  /\ dev' = IF found = {} THEN Null ELSE Max(found)
              /\ dpc' = IF found = {} THEN "returned" ELSE op
              /\ result' = IF op \in ReadOps THEN "NOT_FOUND"
                           ELSE IF found = {} THEN "UNSUPPORTED" ELSE Null
  /\ bytes' = 0
  /\ before' = IF dev' = Null THEN Null ELSE disk[dev']
  /\ UNCHANGED <<disk, size, pos, buffer, data, changed, mountVars, foreign>>

\* Mistake: an error of a newer device makes the search go on.
GoesOnAnyway == result # "OK"

\* "Not found" makes the search of a read operation go on.
GoesOn == result = "NOT_FOUND"

Older == {d \in mounted : d < dev}

AskOlder ==
  /\ tpc = "item" /\ dpc = "returned"
  /\ item.op \in ReadOps /\ dev # Null
  /\ GoesOn /\ Older # {}
  /\ dev' = Max(Older)
  /\ dpc' = item.op
  /\ UNCHANGED <<disk, item, size, pos, buffer, data, bytes, result, changed, itemVars, mountVars, foreign>>

Finish ==
  /\ tpc = "item" /\ tpc' = "finish"
  /\ dpc = "returned" /\ dpc' = "none"
  /\ item.op \in ReadOps /\ dev # Null => ~GoesOn \/ Older = {}
  /\ UNCHANGED <<disk, item, dev, size, pos, buffer, data, bytes, result,
                 items, changed, before, mountVars, foreign>>

\* The item is handed back, and its buffer with it.
HandBack ==
  /\ tpc = "finish" /\ tpc' = "idle"
  /\ item' = NoItem /\ dev' = Null /\ result' = Null /\ before' = Null
  /\ size' = 0 /\ pos' = 0 /\ buffer' = Null /\ data' = <<>> /\ bytes' = 0
  /\ changed' = FALSE
  /\ UNCHANGED <<disk, dpc, items, mountVars, foreign>>

\* Another process writes or removes a file that the device has not open.
Open(d, p) == tpc = "item" /\ d = dev /\ p = item.path

Foreign ==
  /\ foreign < MaxForeign /\ foreign' = foreign + 1
  /\ \E d \in Devices, p \in Paths :
       /\ disk[d][p].kind # "dir"
       /\ Len(p) > 1 => disk[d][Front(p)].kind = "dir"
       /\ \E e \in (IF Open(d, p) THEN {disk[d][p]} ELSE {Absent}) \cup {File(c) : c \in Contents} :
            /\ Open(d, p) => e.kind = disk[d][p].kind
            /\ e # disk[d][p]
            /\ disk' = [disk EXCEPT ![d][p] = e]
       /\ changed' = (changed \/ (tpc # "idle" /\ (IsPrefix(item.path, p) \/ IsPrefix(p, item.path))))
  /\ UNCHANGED <<item, dev, dpc, size, pos, buffer, data, bytes, result, mountVars,
                 tpc, items, before>>

Step ==
  /\ IF platform = "posix" THEN DeviceStep ELSE WindowsStep
  /\ UNCHANGED <<changed, mountVars, itemVars, foreign>>

\* Every item was processed.
Quiescent == tpc = "idle" /\ items = MaxItems /\ UNCHANGED vars

Next ==
  \/ CreateDevice \/ DestroyDevice
  \/ StartItem \/ Step \/ AskOlder \/ Finish \/ HandBack \/ Foreign \/ Quiescent

Spec == Init /\ [][Next]_vars
-----------------------------------------------------------------------------
\* Every variable has its type, and whatever is done to them, the entries of
\* a device form trees.
TypeOK ==
  /\ disk \in [Devices -> [Paths -> [kind : {"none", "dir", "file"}, data : Seq(Bytes)]]]
  /\ \A d \in Devices, p \in Paths :
       Len(p) > 1 /\ disk[d][p].kind # "none" => disk[d][Front(p)].kind = "dir"
  /\ item.op \in Operations \cup {Null}
  /\ dev \in Devices \cup {Null}
  /\ platform \in Platforms /\ mounted \subseteq Devices
  /\ dpc \in {"none", "returned", "seek_end", "seek_set", "alloc", "read", "seek_write",
              "write", "remove", "measure", "set_pointer", "read_file", "set_write_pointer",
              "write_file"} \cup Operations
  /\ size \in Sizes /\ pos \in Nat
  /\ buffer \in Sizes \cup {Null} /\ data \in Seq(Bytes) /\ bytes \in Nat
  /\ result \in {"OK", "NOT_FOUND", "GENERIC_ERROR", "PERMISSIONS_ERROR", "OUT_OF_SPACE",
                 "UNSUPPORTED", "ALREADY_EXISTS", Null}
  /\ tpc \in {"idle", "item", "finish"} /\ changed \in BOOLEAN

Finished(op) == tpc = "finish" /\ item.op = op

\* The devices a read operation has passed over.
Passed == {d \in mounted : result = "NOT_FOUND" \/ d > dev}

\* A device is passed over only when it has no such file, or has one without
\* a byte, or a directory: an error never uncovers an older version of a file
\* (FileContext.cpp:684-687, 699-702; Directory.cpp:219-246, 299-350).  On
\* Windows readFile() answers a failed open with LFS_NOT_FOUND whatever the
\* error (Directory.cpp:294).
PassesOnlyEmpty ==
  ~changed =>
    /\ Finished("SIZE") => \A d \in Passed : disk[d][item.path].kind = "none"
    /\ Finished("READ") /\ platform = "posix" =>
         \A d \in Passed : disk[d][item.path].data = <<>>

\* "Due to the physical path resolution order, the most recent files will
\* always be accessed first" (README.asciidoc:18-19).
NewestWins ==
  ~changed /\ Finished("READ") =>
    \A d \in Passed : disk[d][item.path].kind # "file"

\* What was read fits into the buffer with its terminator, although the file
\* may grow or shrink between the system calls that measure and read it; and
\* a read that failed leaves no buffer behind (Directory.cpp:257-335).  Only
\* on Windows, where the system reads parts of any size, one read escapes: the
\* room of the largest part wraps to zero with the terminator.
BufferFits ==
  Finished("READ") /\ (platform = "windows" /\ item.terminate => size # 2 ^ Width - 1) =>
    IF result = "OK" /\ buffer # Null
    THEN bytes = Len(data) /\ bytes + (IF item.terminate THEN 1 ELSE 0) <= buffer
    ELSE buffer = Null /\ bytes = 0

\* A read that ends well has read the first bytes of the part of the file it
\* was asked for, as far as the file goes, wherever that part begins, and at
\* least one when the part has one.  It need not be the whole part: one read()
\* is all there is, and when it comes back short so does readFile(), with
\* LFS_OK (Directory.cpp:315-331).  On Windows ReadFile() gets the whole part;
\* but one that fails ends well too, with nothing read (lines 274-281), and of
\* the size of the part only the lower half counts (line 274).
ReadsPart ==
  Finished("READ") /\ result = "OK" /\ buffer # Null /\ ~changed
  /\ (platform = "windows" => data # <<>> /\ size < 2 ^ DwordWidth) =>
    LET content == disk[dev][item.path].data
        part == SubSeq(content, item.offset + 1, Least(item.offset + item.max, Len(content)))
    IN  /\ IsPrefix(data, part)
        /\ data = <<>> => part = <<>>
        /\ platform = "windows" => data = part

\* A write that ends well has put the bytes it reports where it was told to
\* and left all others, and one that fails has at most created or truncated
\* the file (Directory.cpp:360-444).
WriteReported ==
  Finished("WRITE") /\ dev # Null /\ ~changed =>
    LET old == before[item.path]
        new == disk[dev][item.path]
        written == SubSeq(item.data, 1, bytes)
    IN  IF result = "OK"
        THEN new = File(CASE item.mode = "TRUNCATE" -> written
                          [] item.mode = "APPEND" -> old.data \o written
                          [] item.mode = "SEGMENT" -> Overwritten(old.data, item.offset, bytes))
        ELSE \/ new = old
             \/ new = File(<<>>) /\ (item.mode = "TRUNCATE" \/ old = Absent)

\* deleteDir() reports a tree it has removed a part of: when it ends well the
\* tree is gone or untouched, and when it fails the directory is still there
\* to try again (Directory.cpp:499-583).
DeleteDirReported ==
  Finished("DELETE_DIR") /\ dev # Null /\ ~changed =>
    LET gone == Subtree(dev, item.path) = {}
        untouched == \A q \in Paths : IsPrefix(item.path, q) => disk[dev][q] = before[q]
    IN  CASE result = "OK" -> gone \/ untouched
          [] result = "NOT_FOUND" -> gone
          [] OTHER -> ~gone \/ untouched
=============================================================================
