----------------------------- MODULE MountTable -----------------------------
(***************************************************************************)
(* The mounts of a FileContext: registerDeviceInterface(), createMount(),  *)
(* releaseMount(), the destructor, and the searches with which the         *)
(* processing thread resolves the path of an item to a mount, one mount    *)
(* after the other.  A path is the sequence of its components, "/" the     *)
(* empty one, and devices answer as they like.  The queue is not shown: the *)
(* thread finds it empty or takes any item.                                *)
(***************************************************************************)
EXTENDS Integers, Sequences, FiniteSets, SequencesExt, ThreadControl

CONSTANTS
  Releasers,    \* the clients that release mounts; all of them may create some
  Operations,   \* the operations items ask for
  MountPoints,  \* the virtual paths mounted on
  Paths,        \* normalized paths of items
  Interfaces,   \* optional functions of the interfaces clients register
  Requests,     \* the values of mountPermissions passed to createMount()
  MaxInterfaces,\* bound of the model: interfaces registered
  MaxMounts,    \* bound of the model: calls of createMount() that get a device
  MaxItems,     \* bound of the model: items processed
  Null

\* The functions an interface may lack, and the permissions of a mount.
Optional == {"write_file", "delete_file", "create_dir", "delete_dir"}
Permissions == Optional \cup {"read"}
Default == {}   \* LFS_MOUNT_DEFAULT

ReadOps == {"EXISTS", "SIZE", "READ"}
MutableOps == {"WRITE", "APPEND", "WRITE_SEGMENT", "DELETE", "CREATE_DIR", "DELETE_DIR"}

ASSUME InputAssumption ==
  /\ Releasers \subseteq Clients
  /\ Operations \subseteq ReadOps \cup MutableOps
  /\ \A i \in Interfaces : i \subseteq Optional
  /\ \A r \in Requests : r \subseteq Permissions
  /\ MaxInterfaces \in Nat /\ MaxMounts \in Nat /\ MaxItems \in Nat

\* A MountInfo; its device, a number of its own, stands for its address too.
Mount == [device : 1 .. MaxMounts, prefix : MountPoints, functions : Interfaces \cup {Optional},
          permissions : (SUBSET Permissions) \ {{}}]

ASSUME NullAssumption == Null \notin Mount \cup {"UNSUPPORTED"}

VARIABLES
  interfaces,  \* _interfaces, each by the optional functions it has
  mounts,      \* _mounts, oldest first
  room,        \* the capacity of the vector _mounts
  made,        \* devices created so far
  devices,     \* devices created and not destroyed
  cpc,         \* where each client is in createMount()
  hand,        \* the mount it creates or releases
  op, path,    \* the operation and the path of the item
  at,          \* the iterator of the search, as a position in mounts
  after,       \* onlyAfter
  mount,       \* the mount found
  answer,      \* _resultCode
  known,       \* history: how many mounts there were when the search began
  asked,       \* history: the positions of the mounts asked
  items,       \* history: items processed
  fault        \* undefined behaviour that has ended the process

mountVars == <<interfaces, mounts, room, made, devices>>
clientVars == <<cpc, hand>>
itemVars == <<op, path, answer, items>>
searchVars == <<at, after, mount, known, asked>>
vars == <<mountVars, clientVars, tpc, controlVars, itemVars, searchVars, fault>>

\* The constructor registers the directory device, which has every function.
Init ==
  /\ interfaces = <<Optional>> /\ mounts = <<>> /\ room = 0 /\ made = 0 /\ devices = {}
  /\ cpc = [c \in Clients |-> "idle"] /\ hand = [c \in Clients |-> Null]
  /\ ControlInit
  /\ op = Null /\ path = Null /\ answer = Null /\ items = 0
  /\ at = 0 /\ after = Null /\ mount = Null /\ known = 0 /\ asked = {}
  /\ fault = "none"

-----------------------------------------------------------------------------
(* Clients.                                                                *)

GoClient(c, from, to) == cpc[c] = from /\ cpc' = [cpc EXCEPT ![c] = to]

\* The client is free to make a call.
Calling(c) == alive /\ cpc[c] = "idle" /\ rel[c] = "none"

\* An interface with its required functions is registered for good.
RegisterDeviceInterface(c, i) ==
  /\ Calling(c)
  /\ Len(interfaces) < MaxInterfaces
  /\ interfaces' = Append(interfaces, i)
  /\ UNCHANGED <<mounts, room, made, devices, clientVars, tpc, controlVars, itemVars, searchVars, fault>>

\* Mistake: the request is not limited to what the device supports.
GrantedUnchecked(request, functions) ==
  IF request = Default THEN functions \cup {"read"} ELSE request

\* What createMount() grants of a request, given the functions of the device.
Granted(request, functions) ==
  IF request = Default THEN functions \cup {"read"}
                       ELSE request \cap (functions \cup {"read"})

\* Mistake: a mount with no permission at all is created.
AcceptedAlways(permissions) == TRUE

\* LFS_PERMISSIONS_ERROR
Accepted(permissions) == permissions # {}

\* createMount() up to the publication of the mount.  A device type that is
\* not registered, no permission, or a device that cannot be created leave
\* everything as it was.
CreateMount(c, type, prefix, request) ==
  /\ made < MaxMounts
  /\ Calling(c)
  /\ type \in DOMAIN interfaces
  /\ Accepted(Granted(request, interfaces[type]))
  /\ GoClient(c, "idle", "publish")
  /\ made' = made + 1
  /\ devices' = devices \cup {made'}
  /\ hand' = [hand EXCEPT ![c] =
       [device |-> made', prefix |-> prefix, functions |-> interfaces[type],
        permissions |-> Granted(request, interfaces[type])]]
  /\ UNCHANGED <<interfaces, mounts, room, tpc, controlVars, itemVars, searchVars, fault>>

\* The search of a mutating operation holds _mountLock, shared; that of a
\* reading one holds no lock.
Locked == tpc = "scan" /\ op \in MutableOps

\* The mount is appended under _mountLock.  Where the vector grows, a search
\* without the lock is left with a dead iterator.
PublishMount(c) ==
  /\ ~Locked
  /\ GoClient(c, "publish", "idle")
  /\ mounts' = Append(mounts, hand[c])
  /\ room' = IF Len(mounts) < room THEN room ELSE IF room = 0 THEN 1 ELSE 2 * room
  /\ fault' = IF tpc = "scan" /\ Len(mounts) = room THEN "dead iterator" ELSE fault
  /\ hand' = [hand EXCEPT ![c] = Null]
  /\ UNCHANGED <<interfaces, made, devices, tpc, controlVars, itemVars, searchVars>>

\* releaseMount(m), m a mount or no mount of the context, begins.
BeginRelease(c, m) ==
  /\ c \in Releasers /\ Calling(c)
  /\ StopCheck(c)
  /\ hand' = [hand EXCEPT ![c] = m]
  /\ UNCHANGED <<mountVars, cpc, itemVars, searchVars, fault>>

\* It stops the thread, and starts it again in the end.
StopOrStart(c) == ReleaseStep(c) /\ UNCHANGED <<mountVars, clientVars, itemVars, searchVars, fault>>

\* Mistake: the device of the mount stays behind.
DestroyedNot(m) == {}

Destroyed(m) == {m.device}

\* Under _mountLock the mount is looked up, destroyed and erased.  A search
\* without the lock, which another client let begin, is left with a dead
\* iterator.
EraseMount(c) ==
  /\ ~Locked
  /\ Erase(c)
  /\ \/ /\ hand[c] \notin ToSet(mounts)
        /\ UNCHANGED <<mounts, devices, fault>>
     \/ \E i \in DOMAIN mounts :
          /\ mounts[i] = hand[c]
          /\ mounts' = RemoveAt(mounts, i)
          /\ devices' = devices \ Destroyed(hand[c])
          /\ fault' = IF tpc = "scan" THEN "dead iterator" ELSE fault
  /\ hand' = [hand EXCEPT ![c] = Null]
  /\ UNCHANGED <<interfaces, room, made, cpc, itemVars, searchVars>>

\* ~FileContext(): the thread is stopped, then every device destroyed.
DestroyContext ==
  \/ /\ \A c \in Clients : cpc[c] = "idle"
     /\ DestroyClear
     /\ UNCHANGED <<mountVars, clientVars, itemVars, searchVars, fault>>
  \/ /\ DestroyJoin
     /\ devices' = devices \ {m.device : m \in ToSet(mounts)}
     /\ UNCHANGED <<interfaces, mounts, room, made, clientVars, itemVars, searchVars, fault>>

-----------------------------------------------------------------------------
(* The processing thread.                                                  *)

\* The thread tests _processing, or finds its queue empty.
Idle == (Test \/ PopEmpty) /\ UNCHANGED <<mountVars, clientVars, itemVars, searchVars, fault>>

\* The thread takes an item from its queue.
StartItem(o, p) ==
  /\ items < MaxItems
  /\ GoThread("pop", "search")
  /\ op' = o /\ path' = p
  /\ answer' = IF o \in ReadOps THEN "NOT_FOUND" ELSE Null
  /\ items' = items + 1
  /\ UNCHANGED <<mountVars, clientVars, controlVars, searchVars, fault>>

\* Mistake: the search starts over instead of going on behind the last mount.
ResumeAnew == Null

\* searchStart is the mount asked last; the mutable search has none.
Resume == mount

\* findNextMountAndPath() or findMutableMountAndPath() is called.
BeginSearch ==
  /\ GoThread("search", "scan")
  /\ at' = Len(mounts)
  /\ after' = Resume
  /\ known' = IF asked = {} THEN Len(mounts) ELSE known
  /\ UNCHANGED <<mountVars, clientVars, controlVars, itemVars, mount, asked, fault>>

\* The prefix starts the path and a component follows; "/" fits any path.
Matches(p, m) ==
  m.prefix = <<>> \/ IsStrictPrefix(m.prefix, p)

\* The function of the interface an operation calls.
FunctionOf(o) ==
  CASE o \in ReadOps -> {"read"}
    [] o \in {"WRITE", "APPEND", "WRITE_SEGMENT"} -> {"write_file"}
    [] o = "DELETE" -> {"delete_file"}
    [] o = "CREATE_DIR" -> {"create_dir"}
    [] o = "DELETE_DIR" -> {"delete_dir"}

\* Mistake: nothing but reads and writes needs a permission.
NeededToWrite(o) ==
  IF o \in ReadOps \cup {"WRITE", "APPEND"} THEN FunctionOf(o) ELSE {}

\* The permission a search asks for; a segment write needs none.
Needed(o) == IF o = "WRITE_SEGMENT" THEN {} ELSE FunctionOf(o)

Permits(m) == Needed(op) \subseteq m.permissions

\* The loop goes on to the next older mount.
SkipMount ==
  /\ tpc = "scan" /\ at > 0
  /\ ~ (after = Null /\ Permits(mounts[at]) /\ Matches(path, mounts[at]))
  /\ after' = IF Permits(mounts[at]) /\ mounts[at] = after THEN Null ELSE after
  /\ at' = at - 1
  /\ UNCHANGED <<mountVars, clientVars, tpc, controlVars, itemVars, mount, known, asked, fault>>

TakeMount ==
  /\ GoThread("scan", IF op \in ReadOps THEN "ask" ELSE "mutate")
  /\ at > 0
  /\ after = Null /\ Permits(mounts[at]) /\ Matches(path, mounts[at])
  /\ mount' = mounts[at]
  /\ UNCHANGED <<mountVars, clientVars, controlVars, itemVars, at, after, known, asked, fault>>

\* No mount is left.
NoMount ==
  /\ GoThread("scan", "finish")
  /\ at = 0
  /\ mount' = Null
  /\ answer' = IF op \in ReadOps THEN answer ELSE "UNSUPPORTED"
  /\ UNCHANGED <<mountVars, clientVars, controlVars, op, path, items, at, after, known, asked, fault>>

\* The device answers; "not found" makes the thread search on.
AskDevice ==
  /\ answer' \in IF op = "EXISTS" THEN {"OK", "NOT_FOUND"} ELSE {"OK", "NOT_FOUND", "ERROR"}
  /\ GoThread("ask", IF answer' = "NOT_FOUND" THEN "search" ELSE "finish")
  /\ asked' = asked \cup {at}
  /\ UNCHANGED <<mountVars, clientVars, controlVars, op, path, items, at, after, mount, known, fault>>

\* The device carries out the operation; a missing function is a null call.
MutateDevice ==
  /\ GoThread("mutate", "finish")
  /\ fault' = IF FunctionOf(op) \subseteq mount.functions THEN fault ELSE "null call"
  /\ answer' \in {"OK", "ERROR"}
  /\ asked' = asked \cup {at}
  /\ UNCHANGED <<mountVars, clientVars, controlVars, op, path, items, at, after, mount, known>>

FinishItem ==
  /\ GoThread("finish", "loop")
  /\ op' = Null /\ path' = Null /\ answer' = Null
  /\ at' = 0 /\ after' = Null /\ mount' = Null /\ known' = 0 /\ asked' = {}
  /\ UNCHANGED <<mountVars, clientVars, controlVars, items, fault>>

-----------------------------------------------------------------------------
ClientStep(c) ==
  \/ \E i \in Interfaces : RegisterDeviceInterface(c, i)
  \/ \E t \in DOMAIN interfaces, f \in MountPoints, r \in Requests : CreateMount(c, t, f, r)
  \/ PublishMount(c)
  \/ \E m \in ToSet(mounts) \cup {Null} : BeginRelease(c, m)
  \/ StopOrStart(c)
  \/ EraseMount(c)

ItemStep ==
  BeginSearch \/ SkipMount \/ TakeMount \/ NoMount \/ AskDevice \/ MutateDevice \/ FinishItem

ThreadStep == Idle \/ (\E o \in Operations, p \in Paths : StartItem(o, p)) \/ ItemStep

\* The destructor has destroyed the devices.
Dead == ~alive /\ tpc = "joined"

Running == fault = "none" /\ ~aborted /\ ~Dead

Ended == ~Running /\ UNCHANGED vars

Next ==
  \/ Running /\ ((\E c \in Clients : ClientStep(c)) \/ ThreadStep \/ DestroyContext)
  \/ Ended

Spec == Init /\ [][Next]_vars

\* The processing thread is scheduled; what clients do is up to them.
FairSpec == Spec /\ WF_vars(Running /\ ItemStep)
-----------------------------------------------------------------------------
\* Every variable has its type.
TypeOK ==
  /\ interfaces \in Seq(Interfaces \cup {Optional})
  /\ mounts \in Seq(Mount) /\ room \in Nat
  /\ made \in 0 .. MaxMounts /\ devices \subseteq 1 .. MaxMounts
  /\ cpc \in [Clients -> {"idle", "publish"}]
  /\ hand \in [Clients -> Mount \cup {Null}]
  /\ tpc \in {"loop", "pop", "search", "scan", "ask", "mutate", "finish", "exited", "joined"}
  /\ processing \in BOOLEAN /\ alive \in BOOLEAN /\ aborted \in BOOLEAN
  /\ rel \in [Clients -> ReleasePC]
  /\ op \in Operations \cup {Null} /\ path \in Paths \cup {Null}
  /\ answer \in {"OK", "NOT_FOUND", "ERROR", "UNSUPPORTED", Null}
  /\ at \in Nat /\ after \in Mount \cup {Null} /\ mount \in Mount \cup {Null}
  /\ known \in Nat /\ asked \subseteq Nat
  /\ items \in 0 .. MaxItems /\ fault \in {"none", "dead iterator", "null call"}

\* The mounts, among those there were when the search began, that match the
\* path and permit the operation.
Matching ==
  {i \in 1 .. known : /\ i \in DOMAIN mounts
                      /\ FunctionOf(op) \subseteq mounts[i].permissions
                      /\ Matches(path, mounts[i])}

\* A read operation asks every readable mount that matches, the newest first
\* and none twice, until one answers, although the search starts over for each
\* and other mounts are created while it goes on: "matching in reverse mount
\* order (newest mounts first) and against mount capabilities"
\* (README.asciidoc:11-12).
ReadsOverlay ==
  op \in ReadOps =>
    /\ tpc = "ask" => at \in Matching /\ asked = {i \in Matching : i > at}
    /\ tpc = "finish" =>
         asked = IF answer = "NOT_FOUND" THEN Matching ELSE {i \in Matching : i >= at}

\* A mutating operation goes to the newest matching mount that permits it, and
\* is refused only when there is none (FileContext.cpp:316-345).
WritesToPermitted ==
  op \in MutableOps /\ tpc \in {"mutate", "finish"} =>
    IF answer = "UNSUPPORTED" THEN Matching = {}
    ELSE at \in Matching /\ mount = mounts[at] /\ \A j \in Matching : j <= at

\* While one client at a time releases mounts, a device is not asked after it
\* was destroyed: releaseMount() waits for the item in hand, and restarts the
\* thread behind the destruction (FileContext.cpp:269-289).  Of two clients the
\* one that finds _processing cleared waits for nothing (line 196).
AsksLiveDevices == tpc \in {"ask", "mutate"} => mount.device \in devices

\* Every device created is destroyed once: it is in the table, or on its way
\* there, for as long as it lives.
DevicesOwned ==
  ~Dead =>
    /\ devices = {m.device : m \in ToSet(mounts)}
                   \cup {hand[c].device : c \in {d \in Clients : cpc[d] = "publish"}}
    /\ \A i, j \in DOMAIN mounts : mounts[i].device = mounts[j].device => i = j

\* No mount lets an operation through to a function its device lacks
\* (FileContext.cpp:229-235, 331-334, 728).
NoNullCall == fault # "null call"

\* The search for an item ends, although it starts over for every mount asked
\* and meets the mounts created meanwhile (FileContext.cpp:668-703).
ItemEnds == tpc = "search" ~> tpc = "loop" \/ ~Running
=============================================================================
