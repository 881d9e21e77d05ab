--------------------------- MODULE MountTableProofs ---------------------------
(***************************************************************************)
(* For any number of clients, mounts, paths and interfaces: types, the     *)
(* ownership of devices, and what the two searches find.                   *)
(***************************************************************************)
EXTENDS MountTable, SequenceFacts, TLAPS

\* A search whose iterator is not dead is inside the table, and a client that
\* creates a mount, which it holds, releases none.
TableInv ==
  /\ TypeOK
  /\ tpc = "scan" /\ fault = "none" => at <= Len(mounts)
  /\ \A c \in Clients : cpc[c] = "publish" => hand[c] \in Mount /\ rel[c] = "none"

-----------------------------------------------------------------------------
LEMMA AppendFacts ==
  ASSUME NEW S, NEW s \in Seq(S), NEW m \in S
  PROVE  /\ DOMAIN Append(s, m) = DOMAIN s \cup {Len(s) + 1} /\ Len(s) + 1 \notin DOMAIN s
         /\ Append(s, m)[Len(s) + 1] = m
         /\ \A i \in DOMAIN s : Append(s, m)[i] = s[i]
OBVIOUS

\* What createMount() grants lies within the permissions there are and within
\* the functions of the device.
LEMMA GrantedFacts ==
  ASSUME NEW r \in SUBSET Permissions, NEW f \in SUBSET Optional
  PROVE  Granted(r, f) \subseteq Permissions /\ Granted(r, f) \subseteq f \cup {"read"}
BY DEF Granted, Permissions

\* The mount a client has made.
LEMMA MadeMount ==
  ASSUME TypeOK, NEW c \in Clients, NEW t \in DOMAIN interfaces, NEW f \in MountPoints,
         NEW r \in Requests, CreateMount(c, t, f, r)
  PROVE  /\ hand'[c] \in Mount /\ hand'[c].device = made + 1
         /\ hand'[c].permissions \subseteq hand'[c].functions \cup {"read"}
         /\ made + 1 \in 1 .. MaxMounts
<1>1. interfaces \in Seq(Interfaces \cup {Optional}) /\ made \in 0 .. MaxMounts
      /\ hand \in [Clients -> Mount \cup {Null}]
  BY DEF TypeOK
<1>2. interfaces[t] \in Interfaces \cup {Optional}
  BY <1>1
<1>3. interfaces[t] \in SUBSET Optional /\ r \in SUBSET Permissions
  BY <1>2, InputAssumption
<1>4. /\ Granted(r, interfaces[t]) \subseteq Permissions
      /\ Granted(r, interfaces[t]) \subseteq interfaces[t] \cup {"read"}
  BY <1>3, GrantedFacts
<1>5. /\ made < MaxMounts /\ made' = made + 1
      /\ Granted(r, interfaces[t]) # {}
      /\ hand' = [hand EXCEPT ![c] =
           [device |-> made', prefix |-> f, functions |-> interfaces[t],
            permissions |-> Granted(r, interfaces[t])]]
  BY DEF CreateMount, Accepted
<1>6. made + 1 \in 1 .. MaxMounts
  BY <1>1, <1>5, InputAssumption
<1>7. hand'[c] = [device |-> made + 1, prefix |-> f, functions |-> interfaces[t],
                  permissions |-> Granted(r, interfaces[t])]
  BY <1>1, <1>5
<1>8. /\ Granted(r, interfaces[t]) \in (SUBSET Permissions) \ {{}}
      /\ interfaces[t] \in Interfaces \cup {Optional}
      /\ f \in MountPoints
  BY <1>2, <1>4, <1>5
<1>9. hand'[c] \in Mount
  BY <1>6, <1>7, <1>8 DEF Mount
<1>10. QED
  BY <1>4, <1>6, <1>7, <1>9

-----------------------------------------------------------------------------
(* Stops and starts.                                                       *)

\* The part of TypeOK about the thread and its control.
Controlled ==
  /\ tpc \in {"loop", "pop", "search", "scan", "ask", "mutate", "finish", "exited", "joined"}
  /\ processing \in BOOLEAN /\ alive \in BOOLEAN /\ aborted \in BOOLEAN
  /\ rel \in [Clients -> ReleasePC]

\* The places of the thread outside an item.
Resting == {"loop", "pop", "exited", "joined"}

\* What releaseMount() does to the thread on the way of a client, it does
\* outside items.
LEMMA ReleaseFacts ==
  ASSUME TypeOK, NEW c \in Clients, StopCheck(c) \/ ReleaseStep(c) \/ Erase(c)
  PROVE  /\ Controlled' /\ alive' = alive
         /\ tpc' = tpc \/ {tpc, tpc'} \subseteq Resting
         /\ \A d \in Clients \ {c} : rel'[d] = rel[d]
<1>1. Controlled
  BY DEF TypeOK, Controlled
<1>2. PICK from \in ReleasePC, to \in ReleasePC : GoRelease(c, from, to)
  BY DEF StopCheck, ReleaseStep, StopClear, StopJoin, Erase, StartCheck, StartSet, StartSpawn, ReleasePC
<1>3. rel' = [rel EXCEPT ![c] = to]
  BY <1>2 DEF GoRelease
<1>4. rel' \in [Clients -> ReleasePC] /\ \A d \in Clients \ {c} : rel'[d] = rel[d]
  BY <1>1, <1>3 DEF Controlled
<1>5. /\ processing' \in BOOLEAN /\ aborted' \in BOOLEAN /\ alive' = alive
      /\ tpc' = tpc \/ {tpc, tpc'} \subseteq Resting
  BY <1>1
  DEF StopCheck, ReleaseStep, StopClear, StopJoin, Erase, StartCheck, StartSet, StartSpawn,
      Controlled, Resting
<1>6. QED
  BY <1>1, <1>4, <1>5 DEF Controlled, Resting

LEMMA ControlKept ==
  ASSUME TypeOK, UNCHANGED <<tpc, controlVars>>
  PROVE  Controlled'
<1>1. Controlled
  BY DEF TypeOK, Controlled
<1>2. UNCHANGED <<tpc, processing, alive, rel, aborted>>
  BY DEF controlVars
<1>3. QED
  BY <1>1, <1>2 DEF Controlled

LEMMA InRelease ==
  ASSUME NEW c \in Clients, ReleaseStep(c) \/ Erase(c)
  PROVE  rel[c] # "none"
BY DEF ReleaseStep, StopClear, StopJoin, Erase, StartCheck, StartSet, StartSpawn, GoRelease

LEMMA ThreadFacts ==
  ASSUME TypeOK, DestroyClear \/ DestroyJoin \/ Test \/ PopEmpty
  PROVE  Controlled' /\ rel' = rel /\ (tpc' = tpc \/ {tpc, tpc'} \subseteq Resting)
BY DEF TypeOK, Controlled, DestroyClear, DestroyJoin, Test, PopEmpty, GoThread, controlVars, Resting

-----------------------------------------------------------------------------
(* Types, and who is where.                                                *)

LEMMA TableInit == Init => TableInv
<1> SUFFICES ASSUME Init PROVE TableInv
  OBVIOUS
<1>1. 0 \in 0 .. MaxMounts /\ 0 \in 0 .. MaxItems
  BY InputAssumption
<1>2. interfaces \in Seq(Interfaces \cup {Optional}) /\ mounts \in Seq(Mount)
  BY DEF Init
<1>3. TypeOK
  BY <1>1, <1>2 DEF Init, ControlInit, ReleasePC, TypeOK
<1>4. QED
  BY <1>3 DEF Init, TableInv

LEMMA TableStep == TableInv /\ [Next]_vars => TableInv'
<1> SUFFICES ASSUME TableInv, [Next]_vars PROVE TableInv'
  OBVIOUS
<1> DEFINE Hands == \A c \in Clients : cpc[c] = "publish" => hand[c] \in Mount /\ rel[c] = "none"
<1>0. TypeOK /\ Hands /\ (tpc = "scan" /\ fault = "none" => at <= Len(mounts))
  BY DEF TableInv
<1>a. /\ interfaces \in Seq(Interfaces \cup {Optional}) /\ mounts \in Seq(Mount) /\ room \in Nat
      /\ made \in 0 .. MaxMounts /\ devices \subseteq 1 .. MaxMounts
      /\ cpc \in [Clients -> {"idle", "publish"}]
      /\ rel \in [Clients -> ReleasePC]
      /\ hand \in [Clients -> Mount \cup {Null}] /\ at \in Nat /\ items \in 0 .. MaxItems
  BY <1>0 DEF TypeOK
<1>1. ASSUME NEW c \in Clients, NEW i \in Interfaces, RegisterDeviceInterface(c, i)
      PROVE  TableInv'
  <2>1. Append(interfaces, i) \in Seq(Interfaces \cup {Optional})
    BY <1>a
  <2>2. Controlled'
    BY <1>0, <1>1, ControlKept DEF RegisterDeviceInterface
  <2>3. TypeOK'
    BY <1>0, <1>1, <2>1, <2>2
    DEF TypeOK, Controlled, RegisterDeviceInterface, clientVars, itemVars, searchVars
  <2>4. QED
    BY <1>0, <1>1, <2>3
    DEF TableInv, RegisterDeviceInterface, clientVars, itemVars, searchVars, controlVars
<1>2. ASSUME NEW c \in Clients, NEW t \in DOMAIN interfaces, NEW f \in MountPoints,
             NEW r \in Requests, CreateMount(c, t, f, r)
      PROVE  TableInv'
  <2>1. hand'[c] \in Mount /\ made + 1 \in 1 .. MaxMounts
    BY <1>0, <1>2, MadeMount
  <2>2. /\ cpc[c] = "idle" /\ cpc' = [cpc EXCEPT ![c] = "publish"]
        /\ made' = made + 1 /\ devices' = devices \cup {made + 1}
        /\ \A d \in Clients \ {c} : hand'[d] = hand[d]
        /\ hand' \in [Clients -> Mount \cup {Null}]
    BY <1>2, <1>a, <2>1 DEF CreateMount, GoClient
  <2>3. made + 1 \in 0 .. MaxMounts
    BY <2>1
  <2>4. Controlled'
    BY <1>0, <1>2, ControlKept DEF CreateMount
  <2>5. TypeOK'
    BY <1>0, <1>2, <2>1, <2>2, <2>3, <2>4 DEF TypeOK, Controlled, CreateMount, itemVars, searchVars
  <2>6. /\ tpc' = tpc /\ fault' = fault /\ at' = at /\ mounts' = mounts
        /\ rel' = rel /\ rel[c] = "none"
    BY <1>2 DEF CreateMount, Calling, searchVars, controlVars
  <2>7. \A d \in Clients : cpc'[d] = IF d = c THEN "publish" ELSE cpc[d]
    BY <1>a, <2>2
  <2>8. Hands'
    BY <1>0, <2>1, <2>2, <2>6, <2>7
  <2>9. QED
    BY <1>0, <2>5, <2>6, <2>8 DEF TableInv
<1>3. ASSUME NEW c \in Clients, PublishMount(c) PROVE TableInv'
  <2>1. /\ cpc[c] = "publish" /\ cpc' = [cpc EXCEPT ![c] = "idle"]
        /\ mounts' = Append(mounts, hand[c]) /\ hand' = [hand EXCEPT ![c] = Null]
        /\ tpc' = tpc /\ at' = at /\ rel' = rel
        /\ fault' = "none" => fault = "none"
    BY <1>3 DEF PublishMount, GoClient, searchVars, controlVars
  <2>2. mounts' \in Seq(Mount) /\ Len(mounts') = Len(mounts) + 1
    BY <1>0, <1>a, <2>1
  <2>3. room' \in Nat
    <3>1. room' = IF Len(mounts) < room THEN room ELSE IF room = 0 THEN 1 ELSE 2 * room
      BY <1>3 DEF PublishMount
    <3>2. QED
      BY <1>a, <3>1
  <2>4. fault' \in {"none", "dead iterator", "null call"}
    BY <1>0, <1>3 DEF PublishMount, TypeOK
  <2>5. cpc' \in [Clients -> {"idle", "publish"}] /\ hand' \in [Clients -> Mount \cup {Null}]
    BY <1>a, <2>1
  <2>6. Controlled'
    BY <1>0, <1>3, ControlKept DEF PublishMount
  <2>7. TypeOK'
    BY <1>0, <1>3, <2>2, <2>3, <2>4, <2>5, <2>6
    DEF TypeOK, Controlled, PublishMount, itemVars, searchVars
  <2>8. \A d \in Clients : /\ cpc'[d] = IF d = c THEN "idle" ELSE cpc[d]
                           /\ hand'[d] = IF d = c THEN Null ELSE hand[d]
    BY <1>a, <2>1
  <2>9. Hands'
    BY <1>0, <2>1, <2>8
  <2>10. tpc' = "scan" /\ fault' = "none" => at' <= Len(mounts')
    BY <1>0, <1>a, <2>1, <2>2
  <2>11. QED
    BY <2>7, <2>9, <2>10 DEF TableInv
<1>4. ASSUME NEW c \in Clients, NEW m \in ToSet(mounts) \cup {Null}, BeginRelease(c, m)
      PROVE  TableInv'
  <2>1. /\ hand' = [hand EXCEPT ![c] = m] /\ cpc' = cpc /\ cpc[c] = "idle"
        /\ fault' = fault /\ mounts' = mounts /\ at' = at
    BY <1>4 DEF BeginRelease, Calling, mountVars, searchVars
  <2>2. m \in Mount \cup {Null}
    BY <1>a DEF ToSet
  <2>3. hand' \in [Clients -> Mount \cup {Null}]
    BY <1>a, <2>1, <2>2
  <2>4. /\ Controlled' /\ (tpc' = tpc \/ tpc' \in Resting)
        /\ \A d \in Clients \ {c} : rel'[d] = rel[d]
    BY <1>0, <1>4, ReleaseFacts DEF BeginRelease
  <2>5. TypeOK'
    BY <1>0, <1>4, <2>1, <2>3, <2>4
    DEF TypeOK, Controlled, BeginRelease, mountVars, itemVars, searchVars
  <2>6. Hands'
    BY <1>0, <1>a, <2>1, <2>4
  <2>7. QED
    BY <1>0, <2>1, <2>4, <2>5, <2>6 DEF TableInv, Resting
<1>5. ASSUME NEW c \in Clients, StopOrStart(c) PROVE TableInv'
  <2>1. hand' = hand /\ cpc' = cpc /\ fault' = fault /\ mounts' = mounts /\ at' = at
    BY <1>5 DEF StopOrStart, mountVars, clientVars, searchVars, controlVars
  <2>2. /\ Controlled' /\ (tpc' = tpc \/ tpc' \in Resting) /\ rel[c] # "none"
        /\ \A d \in Clients \ {c} : rel'[d] = rel[d]
    BY <1>0, <1>5, ReleaseFacts, InRelease DEF StopOrStart
  <2>3. TypeOK'
    BY <1>0, <1>5, <2>2
    DEF TypeOK, Controlled, StopOrStart, mountVars, clientVars, itemVars, searchVars
  <2>4. Hands'
    BY <1>0, <2>1, <2>2
  <2>5. QED
    BY <1>0, <2>1, <2>2, <2>3, <2>4 DEF TableInv, Resting
<1>6. ASSUME NEW c \in Clients, EraseMount(c) PROVE TableInv'
  <2>1. /\ hand' = [hand EXCEPT ![c] = Null] /\ cpc' = cpc /\ at' = at /\ tpc' = tpc
        /\ (tpc = "scan" /\ fault' = "none" => mounts' = mounts /\ fault = "none")
    BY <1>6 DEF EraseMount, Erase, searchVars
  <2>2. mounts' \in Seq(Mount) /\ devices' \subseteq 1 .. MaxMounts
    <3>1. CASE UNCHANGED <<mounts, devices>>
      BY <1>a, <3>1
    <3>2. ASSUME NEW i \in DOMAIN mounts, mounts' = RemoveAt(mounts, i),
                 devices' = devices \ Destroyed(hand[c])
          PROVE  mounts' \in Seq(Mount) /\ devices' \subseteq 1 .. MaxMounts
      <4>1. i \in 1 .. Len(mounts)
        BY <1>a
      <4>2. QED
        BY <1>a, <3>2, <4>1, RemoveAtFacts
    <3>3. QED
      BY <1>6, <3>1, <3>2 DEF EraseMount
  <2>3. hand' \in [Clients -> Mount \cup {Null}]
    BY <1>a, <2>1
  <2>4. /\ Controlled' /\ rel[c] # "none"
        /\ \A d \in Clients \ {c} : rel'[d] = rel[d]
    BY <1>0, <1>6, ReleaseFacts, InRelease DEF EraseMount
  <2>5. fault' \in {"none", "dead iterator", "null call"}
    BY <1>0, <1>6 DEF EraseMount, TypeOK
  <2>6. TypeOK'
    BY <1>0, <1>6, <2>1, <2>2, <2>3, <2>4, <2>5 DEF TypeOK, Controlled, EraseMount, itemVars, searchVars
  <2>7. Hands'
    BY <1>0, <1>a, <2>1, <2>4
  <2>8. QED
    BY <1>0, <2>1, <2>6, <2>7 DEF TableInv
<1>7. CASE DestroyContext \/ Idle
  <2>1. /\ hand' = hand /\ cpc' = cpc /\ fault' = fault /\ mounts' = mounts /\ at' = at
        /\ devices' \subseteq 1 .. MaxMounts
    BY <1>a, <1>7 DEF DestroyContext, Idle, mountVars, clientVars, searchVars, controlVars
  <2>2. Controlled' /\ (tpc' = tpc \/ tpc' \in Resting) /\ rel' = rel
    BY <1>0, <1>7, ThreadFacts DEF DestroyContext, Idle
  <2>3. TypeOK'
    BY <1>0, <1>7, <2>1, <2>2
    DEF TypeOK, Controlled, DestroyContext, Idle, mountVars, clientVars, itemVars, searchVars
  <2>4. QED
    BY <1>0, <2>1, <2>2, <2>3 DEF TableInv, Resting
<1>8. ASSUME NEW o \in Operations, NEW p \in Paths, StartItem(o, p) PROVE TableInv'
  <2>1. items' \in 0 .. MaxItems
    BY <1>8, <1>a, InputAssumption DEF StartItem
  <2>2. TypeOK'
    BY <1>0, <1>8, <2>1
    DEF TypeOK, StartItem, GoThread, mountVars, clientVars, searchVars, controlVars
  <2>3. QED
    BY <1>0, <1>8, <2>2 DEF TableInv, StartItem, GoThread, clientVars, controlVars
<1>9. CASE BeginSearch
  <2>1. at' = Len(mounts) /\ at' \in Nat /\ known' \in Nat /\ mounts' = mounts
    <3>1. /\ at' = Len(mounts) /\ known' = IF asked = {} THEN Len(mounts) ELSE known
          /\ mounts' = mounts
      BY <1>9 DEF BeginSearch, mountVars
    <3>2. known \in Nat /\ Len(mounts) \in Nat
      <4>1. known \in Nat
        BY <1>0 DEF TypeOK
      <4>2. QED
        BY <1>a, <4>1
    <3>3. QED
      BY <3>1, <3>2
  <2>2. TypeOK'
    BY <1>0, <1>9, <2>1
    DEF TypeOK, BeginSearch, Resume, GoThread, mountVars, clientVars, itemVars, controlVars
  <2>3. tpc' = "scan" /\ fault' = "none" => at' <= Len(mounts')
    BY <1>a, <2>1
  <2>4. QED
    BY <1>0, <1>9, <2>2, <2>3 DEF TableInv, BeginSearch, GoThread, clientVars, controlVars
<1>10. CASE Running /\ SkipMount
  <2>1. at' \in Nat /\ at' <= Len(mounts) /\ mounts' = mounts /\ tpc' = tpc
    BY <1>0, <1>10, <1>a DEF Running, SkipMount, mountVars
  <2>2. TypeOK'
    BY <1>0, <1>10, <2>1 DEF TypeOK, SkipMount, mountVars, clientVars, itemVars, controlVars
  <2>3. QED
    BY <1>0, <1>10, <2>1, <2>2 DEF TableInv, SkipMount, clientVars, controlVars
<1>11. CASE Running /\ TakeMount
  <2>1. at \in 1 .. Len(mounts)
    BY <1>0, <1>11, <1>a DEF Running, TakeMount, GoThread
  <2>2. mount' \in Mount
    BY <1>11, <1>a, <2>1 DEF TakeMount
  <2>3. tpc' \in {"ask", "mutate"}
    BY <1>11 DEF TakeMount, GoThread
  <2>4. TypeOK'
    BY <1>0, <1>11, <2>2, <2>3, ZenonT(30)
    DEF TypeOK, TakeMount, mountVars, clientVars, itemVars, controlVars
  <2>5. QED
    BY <1>0, <1>11, <2>3, <2>4 DEF TableInv, TakeMount, GoThread, clientVars, controlVars
<1>12. CASE NoMount
  <2>1. TypeOK'
    BY <1>0, <1>12 DEF TypeOK, NoMount, GoThread, mountVars, clientVars, controlVars
  <2>2. QED
    BY <1>0, <1>12, <2>1 DEF TableInv, NoMount, GoThread, clientVars, controlVars
<1>13. CASE AskDevice
  <2>1. asked' \subseteq Nat /\ answer' \in {"OK", "NOT_FOUND", "ERROR", "UNSUPPORTED", Null}
    BY <1>0, <1>13 DEF TypeOK, AskDevice
  <2>2. tpc' \in {"search", "finish"}
    BY <1>13 DEF AskDevice, GoThread
  <2>3. TypeOK'
    BY <1>0, <1>13, <2>1, <2>2 DEF TypeOK, AskDevice, mountVars, clientVars, controlVars
  <2>4. QED
    BY <1>0, <1>13, <2>2, <2>3 DEF TableInv, AskDevice, GoThread, clientVars, controlVars
<1>14. CASE MutateDevice
  <2>1. asked' \subseteq Nat /\ fault' \in {"none", "dead iterator", "null call"}
    BY <1>0, <1>14 DEF TypeOK, MutateDevice
  <2>2. TypeOK'
    BY <1>0, <1>14, <2>1 DEF TypeOK, MutateDevice, GoThread, mountVars, clientVars, controlVars
  <2>3. QED
    BY <1>0, <1>14, <2>2 DEF TableInv, MutateDevice, GoThread, clientVars, controlVars
<1>15. CASE FinishItem
  <2>1. TypeOK'
    BY <1>0, <1>15 DEF TypeOK, FinishItem, GoThread, mountVars, clientVars, controlVars
  <2>2. QED
    BY <1>0, <1>15, <2>1 DEF TableInv, FinishItem, GoThread, clientVars, controlVars
<1>16. CASE UNCHANGED vars
  <2>1. Controlled'
    BY <1>0, <1>16, ControlKept DEF vars
  <2>2. TypeOK'
    BY <1>0, <1>16, <2>1 DEF TypeOK, Controlled, vars, mountVars, clientVars, itemVars, searchVars
  <2>3. QED
    BY <1>0, <1>16, <2>2 DEF TableInv, vars, mountVars, clientVars, searchVars, controlVars
<1>17. QED
  BY <1>1, <1>2, <1>3, <1>4, <1>5, <1>6, <1>8, <1>9, <1>10, <1>11, <1>12, <1>13, <1>14, <1>15, <1>16,
     <1>7
  DEF Next, ClientStep, ThreadStep, ItemStep, Ended

LEMMA TableAlways == Spec => []TableInv
<1>1. QED
  BY TableInit, TableStep, PTL DEF Spec

\* The type invariant of the mount table, for any number of clients and mounts.
THEOREM TypesHold == Spec => []TypeOK
<1>1. TableInv => TypeOK
  BY DEF TableInv
<1>2. QED
  BY <1>1, TableAlways, PTL


-----------------------------------------------------------------------------
(* Devices.                                                                *)

\* Every device that lives is owned by one mount of the table or by one client
\* about to publish its mount; devices to come are new.
OwnInv ==
  ~Dead =>
    /\ \A d \in devices : d <= made
    /\ \A i \in DOMAIN mounts : mounts[i].device \in devices
    /\ \A c \in Clients : cpc[c] = "publish" => hand[c].device \in devices
    /\ \A d \in devices : \/ \E i \in DOMAIN mounts : d = mounts[i].device
                          \/ \E c \in Clients : cpc[c] = "publish" /\ d = hand[c].device
    /\ \A i, j \in DOMAIN mounts : mounts[i].device = mounts[j].device => i = j
    /\ \A i \in DOMAIN mounts, c \in Clients :
         cpc[c] = "publish" => mounts[i].device # hand[c].device
    /\ \A c, d \in Clients :
         cpc[c] = "publish" /\ cpc[d] = "publish" /\ hand[c].device = hand[d].device => c = d

\* A step that touches neither the table nor the clients keeps the devices.
LEMMA OwnUnchanged ==
  ASSUME OwnInv, UNCHANGED <<mounts, made, devices, cpc, hand>>, Dead => Dead'
  PROVE  OwnInv'
BY DEF OwnInv

LEMMA OwnStep == TableInv /\ OwnInv /\ [Next]_vars => OwnInv'
<1> SUFFICES ASSUME TableInv, OwnInv, Running, Next, ~Dead' PROVE OwnInv'
  <2>1. CASE UNCHANGED vars
    BY <2>1, OwnUnchanged DEF vars, mountVars, clientVars, controlVars, Dead
  <2>2. QED
    BY <2>1 DEF Next, Ended, OwnInv
<1>r. ~Dead
  BY DEF Running
<1>a. /\ mounts \in Seq(Mount) /\ made \in 0 .. MaxMounts /\ devices \subseteq 1 .. MaxMounts
      /\ cpc \in [Clients -> {"idle", "publish"}]
      /\ hand \in [Clients -> Mount \cup {Null}] /\ TypeOK
  BY DEF TableInv, TypeOK
<1>1. ASSUME NEW c \in Clients, NEW i \in Interfaces, RegisterDeviceInterface(c, i)
      PROVE  OwnInv'
  BY <1>1, <1>r, OwnUnchanged DEF RegisterDeviceInterface, clientVars
<1>2. ASSUME NEW c \in Clients, NEW t \in DOMAIN interfaces, NEW f \in MountPoints,
             NEW r \in Requests, CreateMount(c, t, f, r)
      PROVE  OwnInv'
  <2>1. hand'[c].device = made + 1
    BY <1>a, <1>2, MadeMount
  <2>2. /\ cpc[c] = "idle" /\ made' = made + 1 /\ devices' = devices \cup {made + 1}
        /\ mounts' = mounts /\ tpc' = tpc
        /\ \A d \in Clients : cpc'[d] = IF d = c THEN "publish" ELSE cpc[d]
        /\ \A d \in Clients \ {c} : hand'[d] = hand[d]
    BY <1>2, <1>a DEF CreateMount, GoClient
  <2>3. made + 1 \notin devices /\ \A d \in devices' : d <= made'
    <3>1. \A d \in devices : d <= made /\ d \in Int
      BY <1>a, <1>r, <2>2 DEF OwnInv
    <3>2. made \in Int
      BY <1>a
    <3>3. QED
      BY <2>2, <3>1, <3>2
  <2>4. QED
    BY <1>r, <2>1, <2>2, <2>3 DEF OwnInv
<1>3. ASSUME NEW c \in Clients, PublishMount(c) PROVE OwnInv'
  <2>1. /\ cpc[c] = "publish" /\ mounts' = Append(mounts, hand[c])
        /\ tpc' = tpc /\ made' = made /\ devices' = devices
        /\ \A d \in Clients : cpc'[d] = IF d = c THEN "idle" ELSE cpc[d]
        /\ \A d \in Clients \ {c} : hand'[d] = hand[d]
    BY <1>3, <1>a DEF PublishMount, GoClient
  <2>2. /\ DOMAIN mounts' = DOMAIN mounts \cup {Len(mounts) + 1}
        /\ Len(mounts) + 1 \notin DOMAIN mounts
        /\ mounts'[Len(mounts) + 1] = hand[c]
        /\ \A i \in DOMAIN mounts : mounts'[i] = mounts[i]
    <3>1. hand[c] \in Mount
      BY <2>1 DEF TableInv
    <3>2. QED
      BY <1>a, <2>1, <3>1, AppendFacts
  <2>3. QED
    BY <1>r, <2>1, <2>2 DEF OwnInv
<1>4. ASSUME NEW c \in Clients, NEW m \in ToSet(mounts) \cup {Null}, BeginRelease(c, m)
      PROVE  OwnInv'
  <2>1. /\ cpc[c] = "idle" /\ cpc' = cpc
        /\ mounts' = mounts /\ made' = made /\ devices' = devices
        /\ \A d \in Clients \ {c} : hand'[d] = hand[d]
    BY <1>4, <1>a DEF BeginRelease, Calling, mountVars
  <2>2. QED
    BY <1>r, <2>1 DEF OwnInv
<1>5. ASSUME NEW c \in Clients, StopOrStart(c) PROVE OwnInv'
  BY <1>5, <1>r, OwnUnchanged DEF StopOrStart, mountVars, clientVars
<1>6. ASSUME NEW c \in Clients, EraseMount(c) PROVE OwnInv'
  <2>1. /\ cpc[c] = "idle" /\ made' = made /\ cpc' = cpc
        /\ \A d \in Clients \ {c} : hand'[d] = hand[d]
    <3>1. rel[c] # "none"
      BY <1>6, InRelease DEF EraseMount
    <3>2. cpc[c] # "publish"
      BY <3>1 DEF TableInv
    <3>3. QED
      BY <1>6, <1>a, <3>2 DEF EraseMount
  <2>2. CASE UNCHANGED <<mounts, devices>>
    BY <1>r, <2>1, <2>2 DEF OwnInv
  <2>3. ASSUME NEW i \in DOMAIN mounts, mounts[i] = hand[c],
               mounts' = RemoveAt(mounts, i), devices' = devices \ {mounts[i].device}
        PROVE  OwnInv'
    <3> DEFINE Old(j) == IF j < i THEN j ELSE j + 1
    <3>1. DOMAIN mounts = 1 .. Len(mounts) /\ Len(mounts) \in Nat
      BY <1>a
    <3>2. /\ mounts' \in Seq(Mount) /\ Len(mounts') = Len(mounts) - 1
          /\ \A j \in 1 .. Len(mounts) - 1 :
               mounts'[j] = IF j < i THEN mounts[j] ELSE mounts[j + 1]
      BY <1>a, <2>3, <3>1, RemoveAtFacts
    <3>3. DOMAIN mounts' = 1 .. Len(mounts) - 1
      BY <3>2
    <3>4. \A j \in DOMAIN mounts' : /\ Old(j) \in DOMAIN mounts /\ Old(j) # i
                                    /\ mounts'[j] = mounts[Old(j)]
      BY <3>1, <3>2, <3>3
    <3>5. \A j, k \in DOMAIN mounts' : Old(j) = Old(k) => j = k
      BY <3>1, <3>3
    <3>6. \A k \in DOMAIN mounts : k # i => \E j \in DOMAIN mounts' : Old(j) = k
      <4>1. TAKE k \in DOMAIN mounts
      <4>2. HAVE k # i
      <4>3. CASE k < i
        BY <3>1, <3>3, <4>3
      <4>4. CASE k > i
        <5>1. k - 1 \in DOMAIN mounts' /\ Old(k - 1) = k
          BY <3>1, <3>3, <4>4
        <5>2. QED
          BY <5>1
      <4>5. QED
        BY <3>1, <4>2, <4>3, <4>4
    <3> HIDE DEF Old
    <3>7. QED
      BY <1>r, <2>1, <2>3, <3>4, <3>5, <3>6 DEF OwnInv
  <2>4. QED
    BY <1>6, <2>2, <2>3 DEF EraseMount, Destroyed
<1>7. CASE DestroyContext
  <2>1. CASE DestroyClear /\ UNCHANGED <<mountVars, clientVars>>
    BY <1>r, <2>1, OwnUnchanged DEF mountVars, clientVars
  <2>2. CASE DestroyJoin
    BY <2>2 DEF DestroyJoin, GoThread, controlVars, Dead
  <2>3. QED
    BY <1>7, <2>1, <2>2 DEF DestroyContext
<1>8. CASE ThreadStep
  <2>1. UNCHANGED <<mounts, made, devices, cpc, hand>>
    BY <1>8
    DEF ThreadStep, Idle, ItemStep, StartItem, BeginSearch, SkipMount, TakeMount, NoMount,
        AskDevice, MutateDevice, FinishItem, mountVars, clientVars
  <2>2. QED
    BY <1>r, <2>1, OwnUnchanged
<1>9. QED
  BY <1>1, <1>2, <1>3, <1>4, <1>6, <1>7, <1>8, <1>5 DEF Next, ClientStep, Ended

LEMMA OwnAlways == Spec => [](TableInv /\ OwnInv)
<1>1. Init => OwnInv
  BY DEF Init, OwnInv
<1>2. QED
  BY <1>1, TableInit, TableStep, OwnStep, PTL DEF Spec

\* Every device created is destroyed once (createMount, releaseMount,
\* ~FileContext).
THEOREM DevicesAreOwned == Spec => []DevicesOwned
<1>1. TableInv /\ OwnInv => DevicesOwned
  BY DEF OwnInv, DevicesOwned, ToSet
<1>2. QED
  BY <1>1, OwnAlways, PTL


-----------------------------------------------------------------------------
(* One client releases mounts.                                             *)

OneReleaser == \A c, d \in Releasers : c = d

\* Who erases a mount has stopped the thread, and the thread starts again behind
\* that: _processing is as the client in releaseMount() left it.
StopInv ==
  /\ \A c \in Clients :
       /\ rel[c] # "none" => c \in Releasers /\ alive
       /\ rel[c] \in {"clear", "spawn"} => processing
       /\ rel[c] \in {"join", "erase", "start", "set"} => ~processing
       /\ rel[c] \in {"erase", "start", "set", "spawn"} => tpc = "joined"
  /\ alive /\ (\A c \in Clients : rel[c] = "none") => processing

\* Where nobody is in releaseMount(), or a thread that is joined stays so.
LEMMA StopKept ==
  ASSUME StopInv, UNCHANGED <<processing, alive, rel>>, tpc = "joined" => tpc' = "joined"
  PROVE  StopInv'
BY DEF StopInv

\* A step of the client in releaseMount().
LEMMA StopMoves ==
  ASSUME OneReleaser, TypeOK, StopInv, NEW c \in Releasers, StopCheck(c) \/ ReleaseStep(c) \/ Erase(c)
  PROVE  StopInv'
<1>a. rel \in [Clients -> ReleasePC] /\ c \in Clients
  BY InputAssumption DEF TypeOK
<1>b. \A d \in Clients : d # c => rel[d] = "none"
  BY DEF OneReleaser, StopInv
<1>c. alive /\ (rel[c] = "none" => processing)
  <2>1. CASE rel[c] = "none"
    <3>1. alive
      BY <2>1
      DEF StopCheck, ReleaseStep, StopClear, StopJoin, Erase, StartCheck, StartSet, StartSpawn, GoRelease
    <3>2. QED
      BY <1>b, <2>1, <3>1 DEF StopInv
  <2>2. CASE rel[c] # "none"
    BY <1>a, <2>2 DEF StopInv
  <2>3. QED
    BY <2>1, <2>2
<1>d. ASSUME NEW to \in ReleasePC, rel' = [rel EXCEPT ![c] = to], alive',
             to \in {"none", "clear", "spawn"} => processing',
             to \in {"join", "erase", "start", "set"} => ~processing',
             to \in {"erase", "start", "set", "spawn"} => tpc' = "joined"
      PROVE  StopInv'
  <2>1. \A d \in Clients : rel'[d] = IF d = c THEN to ELSE "none"
    BY <1>a, <1>b, <1>d
  <2>2. QED
    BY <1>a, <1>d, <2>1 DEF StopInv
<1>1. CASE StopCheck(c)
  BY <1>1, <1>c, <1>d DEF StopCheck, GoRelease, ReleasePC
<1>2. CASE StopClear(c)
  BY <1>2, <1>c, <1>d DEF StopClear, GoRelease, ReleasePC
<1>3. CASE StopJoin(c)
  BY <1>3, <1>a, <1>c, <1>d DEF StopJoin, GoRelease, ReleasePC, StopInv
<1>4. CASE Erase(c)
  BY <1>4, <1>a, <1>c, <1>d DEF Erase, GoRelease, ReleasePC, StopInv
<1>5. CASE StartCheck(c)
  BY <1>5, <1>a, <1>c, <1>d DEF StartCheck, GoRelease, ReleasePC, StopInv
<1>6. CASE StartSet(c)
  BY <1>6, <1>a, <1>c, <1>d DEF StartSet, GoRelease, ReleasePC, StopInv
<1>7. CASE StartSpawn(c)
  BY <1>7, <1>a, <1>c, <1>d DEF StartSpawn, GoRelease, ReleasePC, StopInv
<1>8. QED
  BY <1>1, <1>2, <1>3, <1>4, <1>5, <1>6, <1>7 DEF ReleaseStep

LEMMA StopStep ==
  ASSUME OneReleaser PROVE TableInv /\ StopInv /\ [Next]_vars => StopInv'
<1> SUFFICES ASSUME TableInv, StopInv, [Next]_vars PROVE StopInv'
  OBVIOUS
<1>t. TypeOK
  BY DEF TableInv
<1>1. ASSUME NEW c \in Clients, ClientStep(c) PROVE StopInv'
  <2>1. CASE \/ \E i \in Interfaces : RegisterDeviceInterface(c, i)
             \/ \E t \in DOMAIN interfaces, f \in MountPoints, r \in Requests : CreateMount(c, t, f, r)
             \/ PublishMount(c)
    BY <2>1, StopKept DEF RegisterDeviceInterface, CreateMount, PublishMount, controlVars
  <2>2. CASE \E m \in ToSet(mounts) \cup {Null} : BeginRelease(c, m)
    BY <1>t, <2>2, StopMoves DEF BeginRelease
  <2>3. CASE StopOrStart(c) \/ EraseMount(c)
    <3>1. ReleaseStep(c) \/ Erase(c)
      BY <2>3 DEF StopOrStart, EraseMount
    <3>2. c \in Releasers
      BY <3>1, InRelease DEF StopInv
    <3>3. QED
      BY <1>t, <3>1, <3>2, StopMoves
  <2>4. QED
    BY <1>1, <2>1, <2>2, <2>3 DEF ClientStep
<1>2. CASE DestroyContext
  <2>1. CASE DestroyClear
    BY <2>1 DEF DestroyClear, StopInv
  <2>2. CASE DestroyJoin
    BY <2>2, StopKept DEF DestroyJoin, controlVars
  <2>3. QED
    BY <1>2, <2>1, <2>2 DEF DestroyContext
<1>3. CASE ThreadStep
  <2>1. UNCHANGED controlVars /\ tpc # "joined"
    BY <1>3
    DEF ThreadStep, Idle, Test, PopEmpty, ItemStep, StartItem, BeginSearch, SkipMount, TakeMount,
        NoMount, AskDevice, MutateDevice, FinishItem, GoThread
  <2>2. QED
    BY <2>1, StopKept DEF controlVars
<1>4. CASE UNCHANGED vars
  BY <1>4, StopKept DEF vars, controlVars
<1>5. QED
  BY <1>1, <1>2, <1>3, <1>4 DEF Next, Ended

-----------------------------------------------------------------------------
(* Searches.  FindInv speaks of every operation but a segment write, which *)
(* asks for no permission.                                                 *)

Searching == op # "WRITE_SEGMENT" /\ tpc \in {"search", "scan", "ask", "mutate", "finish"}

\* The search stands between the mounts it has asked and those it has left: it
\* has asked those behind `at`, or it is on its way back to the one asked last.
FindInv ==
  /\ tpc \in Resting => asked = {} /\ mount = Null
  /\ tpc \in {"ask", "mutate"} => at \in DOMAIN mounts /\ mount = mounts[at]
  /\ tpc \in {"search", "scan", "ask", "mutate", "finish"} =>
       op \in Operations \cap (ReadOps \cup MutableOps)
  /\ Searching =>
       /\ (tpc = "search" /\ asked = {}) \/ known <= Len(mounts)
       /\ tpc = "search" =>
            \/ asked = {} /\ mount = Null
            \/ /\ op \in ReadOps /\ at \in Matching
               /\ mount = mounts[at] /\ asked = {i \in Matching : i >= at}
       /\ tpc = "scan" =>
            \/ after = Null /\ at <= known /\ asked = {i \in Matching : i > at}
            \/ \E i \in Matching : /\ mounts[i] = after /\ i <= at /\ op \in ReadOps
                                   /\ asked = {j \in Matching : j >= i}
       /\ tpc \in {"ask", "mutate"} =>
            at \in Matching /\ mount = mounts[at] /\ asked = {i \in Matching : i > at}
       /\ tpc \in {"search", "scan"} /\ op \in ReadOps => answer = "NOT_FOUND"
       /\ tpc = "ask" => op \in ReadOps
       /\ tpc = "mutate" => op \in MutableOps
       /\ op \in MutableOps =>
            /\ tpc \in {"search", "scan", "mutate"} => asked = {}
            /\ tpc \in {"search", "scan", "mutate"} => answer = Null
       /\ tpc = "finish" =>
            IF answer = (IF op \in ReadOps THEN "NOT_FOUND" ELSE "UNSUPPORTED")
            THEN asked = Matching /\ (op \in MutableOps => asked = {})
            ELSE /\ at \in Matching /\ asked = {i \in Matching : i >= at}
                 /\ op \in MutableOps => mount = mounts[at] /\ asked = {at}

\* The search of the operation of the item finds what Matching says.
LEMMA MatchingFacts ==
  ASSUME TableInv, op # "WRITE_SEGMENT", NEW i \in DOMAIN mounts, i <= known
  PROVE  i \in Matching <=> Permits(mounts[i]) /\ Matches(path, mounts[i])
<1>1. mounts \in Seq(Mount) /\ known \in Nat
  BY DEF TableInv, TypeOK
<1>2. i \in 1 .. known
  BY <1>1
<1>3. QED
  BY <1>2 DEF Matching, Permits, Needed

\* A mount published while the search goes on does not match: it is too new.
LEMMA MatchingKept ==
  ASSUME TableInv, TableInv', UNCHANGED <<op, path, known>>, known <= Len(mounts),
         mounts' = mounts \/ \E m \in Mount : mounts' = Append(mounts, m)
  PROVE  Matching' = Matching
<1>1. mounts \in Seq(Mount) /\ known \in Nat
  BY DEF TableInv, TypeOK
<1>2. 1 .. known \subseteq DOMAIN mounts
  BY <1>1
<1>3. 1 .. known \subseteq DOMAIN mounts' /\ \A i \in 1 .. known : mounts'[i] = mounts[i]
  <2>1. CASE mounts' = mounts
    BY <1>2, <2>1
  <2>2. ASSUME NEW m \in Mount, mounts' = Append(mounts, m)
        PROVE  1 .. known \subseteq DOMAIN mounts' /\ \A i \in 1 .. known : mounts'[i] = mounts[i]
    BY <1>1, <1>2, <2>2
  <2>3. QED
    BY <2>1, <2>2
<1>4. \A i \in 1 .. known :
        /\ i \in DOMAIN mounts /\ i \in DOMAIN mounts'
        /\ mounts'[i] = mounts[i]
  BY <1>2, <1>3
<1>5. QED
  BY <1>4 DEF Matching

\* Clients that create mounts do not disturb a search.
LEMMA FindKept ==
  ASSUME TableInv, TableInv', FindInv, UNCHANGED <<tpc, itemVars, searchVars>>,
         mounts' = mounts \/ \E m \in Mount : mounts' = Append(mounts, m)
  PROVE  FindInv'
<1>1. /\ mounts \in Seq(Mount)
      /\ UNCHANGED <<tpc, op, path, answer, at, after, mount, known, asked>>
  BY DEF TableInv, TypeOK, itemVars, searchVars
<1>2. /\ Len(mounts') >= Len(mounts) /\ Len(mounts') \in Nat /\ Len(mounts) \in Nat
      /\ \A i \in DOMAIN mounts : i \in DOMAIN mounts' /\ mounts'[i] = mounts[i]
  <2>1. CASE mounts' = mounts
    BY <1>1, <2>1
  <2>2. ASSUME NEW m \in Mount, mounts' = Append(mounts, m)
        PROVE  /\ Len(mounts') >= Len(mounts) /\ Len(mounts') \in Nat /\ Len(mounts) \in Nat
               /\ \A i \in DOMAIN mounts : i \in DOMAIN mounts' /\ mounts'[i] = mounts[i]
    BY <1>1, <2>2
  <2>3. QED
    BY <2>1, <2>2
<1>3. known <= Len(mounts) => Matching' = Matching /\ known <= Len(mounts')
  <2>1. known \in Nat
    BY DEF TableInv, TypeOK
  <2>2. known <= Len(mounts) => known <= Len(mounts')
    BY <1>2, <2>1
  <2>3. QED
    BY <1>1, <2>2, MatchingKept
<1>4. \A i \in Matching : i \in DOMAIN mounts
  BY DEF Matching
<1>5. Searching' <=> Searching
  BY <1>1 DEF Searching
<1>6. CASE Searching /\ known <= Len(mounts)
  <2>1. /\ Matching' = Matching /\ known' <= Len(mounts')
        /\ \A i \in Matching : mounts'[i] = mounts[i]
    BY <1>1, <1>2, <1>3, <1>4, <1>6
  <2>2. tpc \in {"ask", "mutate"} => at \in DOMAIN mounts' /\ mount = mounts'[at]
    BY <1>2 DEF FindInv
  <2>3. QED
    BY <1>1, <1>5, <1>6, <2>1, <2>2 DEF FindInv
<1>7. CASE Searching /\ ~(known <= Len(mounts))
  <2>1. tpc = "search" /\ asked = {}
    BY <1>7 DEF FindInv
  <2>2. at >= at
    <3>1. at \in Nat
      BY DEF TableInv, TypeOK
    <3>2. QED
      BY <3>1
  <2>3. mount = Null
    BY <1>7, <2>1, <2>2 DEF FindInv
  <2>4. QED
    BY <1>1, <1>5, <1>7, <2>1, <2>3 DEF FindInv
<1>8. CASE ~Searching
  BY <1>1, <1>2, <1>5, <1>8 DEF FindInv
<1>9. QED
  BY <1>6, <1>7, <1>8

\* Who releases a mount or destroys the context has stopped the thread.
LEMMA FindResting ==
  ASSUME FindInv, UNCHANGED <<mount, asked>>, tpc \in Resting, tpc' \in Resting
  PROVE  FindInv'
BY DEF FindInv, Searching, Resting

LEMMA FindStep ==
  TableInv /\ TableInv' /\ StopInv /\ OwnInv /\ FindInv /\ [Next]_vars => FindInv'
<1> SUFFICES ASSUME TableInv, TableInv', StopInv, OwnInv, FindInv, Running, Next PROVE FindInv'
  <2>1. CASE UNCHANGED vars
    BY <2>1, FindKept DEF vars, mountVars
  <2>2. QED
    BY <2>1 DEF Next, Ended
<1>r. fault = "none" /\ ~Dead
  BY DEF Running
<1>a. /\ mounts \in Seq(Mount) /\ at \in Nat /\ known \in Nat /\ Len(mounts) \in Nat
      /\ mount \in Mount \cup {Null} /\ after \in Mount \cup {Null}
      /\ Null \notin Mount /\ ReadOps \cap MutableOps = {}
      /\ DOMAIN mounts = 1 .. Len(mounts)
  <2>1. /\ mounts \in Seq(Mount) /\ at \in Nat /\ known \in Nat
        /\ mount \in Mount \cup {Null} /\ after \in Mount \cup {Null}
    BY DEF TableInv, TypeOK
  <2>2. Null \notin Mount /\ ReadOps \cap MutableOps = {}
    BY NullAssumption DEF ReadOps, MutableOps
  <2>3. QED
    BY <2>1, <2>2
<1>b. \A i \in Matching : i \in 1 .. known /\ i \in Int /\ i \in DOMAIN mounts
  <2>1. \A i \in Matching : i \in 1 .. known /\ i \in DOMAIN mounts
    BY DEF Matching
  <2>2. QED
    BY <1>a, <2>1
<1>1. ASSUME NEW c \in Clients, ClientStep(c) PROVE FindInv'
  <2>1. ASSUME NEW i \in Interfaces, RegisterDeviceInterface(c, i) PROVE FindInv'
    BY <2>1, FindKept DEF RegisterDeviceInterface
  <2>2. ASSUME NEW t \in DOMAIN interfaces, NEW f \in MountPoints, NEW r \in Requests,
               CreateMount(c, t, f, r)
        PROVE  FindInv'
    BY <2>2, FindKept DEF CreateMount
  <2>3. CASE PublishMount(c)
    <3>1. hand[c] \in Mount
      BY <2>3 DEF PublishMount, GoClient, TableInv
    <3>2. QED
      BY <2>3, <3>1, FindKept DEF PublishMount
  <2>4. ASSUME NEW m, BeginRelease(c, m) PROVE FindInv'
    BY <2>4, FindKept DEF BeginRelease, StopCheck, mountVars
  <2>5. CASE StopOrStart(c)
    <3>1. tpc' = tpc \/ {tpc, tpc'} \subseteq Resting
      BY <2>5, ReleaseFacts DEF StopOrStart, TableInv
    <3>2. QED
      BY <2>5, <3>1, FindKept, FindResting DEF StopOrStart, mountVars, searchVars
  <2>6. CASE EraseMount(c)
    <3>1. tpc = "joined" /\ tpc' = "joined"
      BY <2>6 DEF EraseMount, Erase, GoRelease, StopInv
    <3>2. QED
      BY <2>6, <3>1, FindResting DEF EraseMount, searchVars, Resting
  <2>7. QED
    BY <1>1, <2>1, <2>2, <2>3, <2>4, <2>5, <2>6 DEF ClientStep
<1>2. CASE DestroyContext \/ Idle
  <2>1. tpc' = tpc \/ {tpc, tpc'} \subseteq Resting
    BY <1>2, ThreadFacts DEF DestroyContext, Idle, TableInv
  <2>2. QED
    BY <1>2, <2>1, FindKept, FindResting DEF DestroyContext, Idle, mountVars, searchVars
<1>3. ASSUME NEW o \in Operations, NEW p \in Paths, StartItem(o, p) PROVE FindInv'
  <2>1. o \in ReadOps \cup MutableOps
    BY InputAssumption
  <2>2. /\ tpc = "pop" /\ tpc' = "search" /\ op' = o /\ asked' = asked /\ mount' = mount
        /\ answer' = IF o \in ReadOps THEN "NOT_FOUND" ELSE Null
    BY <1>3 DEF StartItem, GoThread, searchVars
  <2>3. asked' = {} /\ mount' = Null
    BY <2>2 DEF FindInv, Resting
  <2>4. QED
    BY <1>a, <2>1, <2>2, <2>3 DEF FindInv, Searching, Resting
<1>4. CASE BeginSearch
  <2>1. /\ tpc = "search" /\ tpc' = "scan" /\ at' = Len(mounts) /\ after' = mount
        /\ known' = IF asked = {} THEN Len(mounts) ELSE known
        /\ mounts' = mounts /\ op' = op /\ path' = path /\ answer' = answer
        /\ mount' = mount /\ asked' = asked
    BY <1>4 DEF BeginSearch, Resume, GoThread, mountVars, itemVars
  <2>2. CASE op = "WRITE_SEGMENT"
    BY <2>1, <2>2 DEF FindInv, Searching, Resting
  <2>3. CASE op # "WRITE_SEGMENT" /\ asked = {}
    <3>1. mount = Null
      BY <1>b, <2>1, <2>3, <1>a DEF FindInv, Searching, Resting
    <3>2. known' = Len(mounts) /\ {i \in Matching' : i > at'} = {}
      BY <1>a, <2>1, <2>3 DEF Matching
    <3>3. known' <= Len(mounts') /\ at' <= known'
      BY <1>a, <2>1, <3>2
    <3>4. QED
      BY <2>1, <2>3, <3>1, <3>2, <3>3 DEF FindInv, Searching, Resting
  <2>4. CASE op # "WRITE_SEGMENT" /\ asked # {}
    <3>1. Matching' = Matching /\ known' = known
      BY <2>1, <2>4 DEF Matching
    <3>2. /\ op \in ReadOps /\ at \in Matching /\ mount = mounts[at] /\ known <= Len(mounts)
          /\ asked = {i \in Matching : i >= at}
      BY <2>1, <2>4 DEF FindInv, Searching, Resting
    <3>3. at <= at'
      BY <1>a, <1>b, <2>1, <3>2
    <3>4. QED
      BY <1>a, <2>1, <2>4, <3>1, <3>2, <3>3 DEF FindInv, Searching, Resting
  <2>5. QED
    BY <2>2, <2>3, <2>4
<1>5. CASE SkipMount
  <2>1. /\ tpc = "scan" /\ at \in DOMAIN mounts /\ tpc' = "scan"
        /\ ~ (after = Null /\ Permits(mounts[at]) /\ Matches(path, mounts[at]))
        /\ after' = IF Permits(mounts[at]) /\ mounts[at] = after THEN Null ELSE after
        /\ at' = at - 1
        /\ mounts' = mounts /\ op' = op /\ path' = path /\ answer' = answer
        /\ mount' = mount /\ asked' = asked /\ known' = known
    BY <1>5, <1>a, <1>r DEF SkipMount, TableInv, mountVars, itemVars
  <2>2. Matching' = Matching
    BY <2>1 DEF Matching
  <2>3. CASE op = "WRITE_SEGMENT"
    BY <2>1, <2>3 DEF FindInv, Searching, Resting
  <2>4. CASE op # "WRITE_SEGMENT" /\ after = Null
    <3>1. at <= known /\ known <= Len(mounts) /\ asked = {i \in Matching : i > at}
      <4>1. \A i \in Matching : mounts[i] \in Mount
        BY <1>a, <1>b
      <4>2. QED
        BY <1>a, <2>1, <2>4, <4>1 DEF FindInv, Searching, Resting
    <3>2. at \notin Matching
      BY <2>1, <2>4, <3>1, MatchingFacts
    <3>3. {i \in Matching : i > at} = {i \in Matching : i > at - 1}
      BY <1>a, <1>b, <3>2
    <3>4. after' = Null /\ at' <= known'
      BY <1>a, <2>1, <2>4, <3>1
    <3>5. QED
      BY <2>1, <2>2, <2>4, <3>1, <3>3, <3>4 DEF FindInv, Searching, Resting
  <2>5. CASE op # "WRITE_SEGMENT" /\ after # Null
    <3>1. PICK i \in Matching : /\ mounts[i] = after /\ i <= at /\ op \in ReadOps
                                /\ asked = {j \in Matching : j >= i}
      BY <2>1, <2>5 DEF FindInv, Searching, Resting
    <3>2. known <= Len(mounts)
      BY <2>1, <2>5 DEF FindInv, Searching, Resting
    <3>3. CASE mounts[at] = after
      <4>1. at = i
        BY <1>b, <1>r, <2>1, <3>1, <3>3 DEF OwnInv
      <4>2. Permits(mounts[at]) /\ at <= known
        BY <1>a, <1>b, <2>1, <2>5, <3>1, <4>1, MatchingFacts
      <4>3. {j \in Matching : j >= i} = {j \in Matching : j > at - 1}
        <5>1. \A j \in Matching : j >= i <=> j > at - 1
          BY <1>a, <1>b, <4>1
        <5>2. QED
          BY <5>1
      <4>4. after' = Null /\ at' <= known'
        BY <1>a, <2>1, <3>3, <4>2
      <4>5. QED
        BY <1>a, <2>1, <2>2, <2>5, <3>1, <3>2, <4>3, <4>4 DEF FindInv, Searching, Resting
    <3>4. CASE mounts[at] # after
      <4>1. i <= at' /\ after' = after
        BY <1>a, <1>b, <2>1, <3>1, <3>4
      <4>2. QED
        BY <1>a, <2>1, <2>2, <2>5, <3>1, <3>2, <4>1 DEF FindInv, Searching, Resting
    <3>5. QED
      BY <3>3, <3>4
  <2>6. QED
    BY <2>3, <2>4, <2>5
<1>6. CASE TakeMount
  <2>1. /\ tpc = "scan" /\ at \in DOMAIN mounts
        /\ tpc' = IF op \in ReadOps THEN "ask" ELSE "mutate"
        /\ after = Null /\ Permits(mounts[at]) /\ Matches(path, mounts[at])
        /\ mount' = mounts[at]
        /\ mounts' = mounts /\ op' = op /\ path' = path /\ answer' = answer
        /\ at' = at /\ asked' = asked /\ known' = known
    BY <1>6, <1>a, <1>r DEF TakeMount, GoThread, TableInv, mountVars, itemVars
  <2>2. Matching' = Matching
    BY <2>1 DEF Matching
  <2>3. CASE op = "WRITE_SEGMENT"
    BY <2>1, <2>3 DEF FindInv, Searching, Resting
  <2>4. CASE op # "WRITE_SEGMENT"
    <3>1. at <= known /\ known <= Len(mounts) /\ asked = {i \in Matching : i > at}
      <4>1. \A i \in Matching : mounts[i] \in Mount
        BY <1>a, <1>b
      <4>2. QED
        BY <1>a, <2>1, <2>4, <4>1 DEF FindInv, Searching, Resting
    <3>2. at \in Matching
      BY <2>1, <2>4, <3>1, MatchingFacts
    <3>3. QED
      BY <1>a, <2>1, <2>2, <2>4, <3>1, <3>2 DEF FindInv, Searching, Resting
  <2>5. QED
    BY <2>3, <2>4
<1>7. CASE NoMount
  <2>1. /\ tpc = "scan" /\ tpc' = "finish" /\ at = 0
        /\ answer' = IF op \in ReadOps THEN answer ELSE "UNSUPPORTED"
        /\ mounts' = mounts /\ op' = op /\ path' = path
        /\ asked' = asked /\ known' = known
    BY <1>7 DEF NoMount, GoThread, mountVars
  <2>2. Matching' = Matching
    BY <2>1 DEF Matching
  <2>3. CASE op = "WRITE_SEGMENT"
    BY <2>1, <2>3 DEF FindInv, Searching, Resting
  <2>4. CASE op # "WRITE_SEGMENT"
    <3>1. asked = {i \in Matching : i > at} /\ known <= Len(mounts)
      BY <1>a, <1>b, <2>1, <2>4 DEF FindInv, Searching, Resting
    <3>2. asked = Matching
      BY <1>b, <2>1, <3>1
    <3>3. QED
      BY <1>a, <2>1, <2>2, <2>4, <3>1, <3>2 DEF FindInv, Searching, Resting
  <2>5. QED
    BY <2>3, <2>4
<1>8. CASE AskDevice
  <2>1. /\ tpc = "ask" /\ tpc' = IF answer' = "NOT_FOUND" THEN "search" ELSE "finish"
        /\ asked' = asked \cup {at}
        /\ mounts' = mounts /\ op' = op /\ path' = path /\ at' = at
        /\ mount' = mount /\ known' = known
    BY <1>8 DEF AskDevice, GoThread, mountVars
  <2>2. Matching' = Matching
    BY <2>1 DEF Matching
  <2>3. CASE op = "WRITE_SEGMENT"
    BY <2>1, <2>3 DEF FindInv, Searching, Resting
  <2>4. CASE op # "WRITE_SEGMENT"
    <3>1. /\ at \in Matching /\ mount = mounts[at] /\ asked = {i \in Matching : i > at}
          /\ op \in ReadOps /\ known <= Len(mounts)
      BY <2>1, <2>4 DEF FindInv, Searching, Resting
    <3>2. asked' = {i \in Matching : i >= at}
      <4>1. \A i \in Matching : i >= at <=> i > at \/ i = at
        BY <1>a, <1>b
      <4>2. QED
        BY <2>1, <3>1, <4>1
    <3>3. QED
      BY <1>a, <2>1, <2>2, <2>4, <3>1, <3>2 DEF FindInv, Searching, Resting
  <2>5. QED
    BY <2>3, <2>4
<1>9. CASE MutateDevice
  <2>1. /\ tpc = "mutate" /\ tpc' = "finish" /\ asked' = asked \cup {at}
        /\ answer' \in {"OK", "ERROR"}
        /\ mounts' = mounts /\ op' = op /\ path' = path /\ at' = at
        /\ mount' = mount /\ known' = known
    BY <1>9 DEF MutateDevice, GoThread, mountVars
  <2>2. Matching' = Matching
    BY <2>1 DEF Matching
  <2>3. CASE op = "WRITE_SEGMENT"
    BY <2>1, <2>3 DEF FindInv, Searching, Resting
  <2>4. CASE op # "WRITE_SEGMENT"
    <3>1. /\ at \in Matching /\ mount = mounts[at] /\ asked = {i \in Matching : i > at}
          /\ known <= Len(mounts) /\ (op \in MutableOps => asked = {})
      BY <2>1, <2>4 DEF FindInv, Searching, Resting
    <3>2. asked' = {i \in Matching : i >= at}
      <4>1. \A i \in Matching : i >= at <=> i > at \/ i = at
        BY <1>a, <1>b
      <4>2. QED
        BY <2>1, <3>1, <4>1
    <3>3. op \in MutableOps => asked' = {at}
      BY <2>1, <3>1
    <3>4. answer' \notin {"NOT_FOUND", "UNSUPPORTED"}
      BY <2>1
    <3>5. QED
      BY <1>a, <2>1, <2>2, <2>4, <3>1, <3>2, <3>3, <3>4 DEF FindInv, Searching, Resting
  <2>5. QED
    BY <2>3, <2>4
<1>10. CASE FinishItem
  BY <1>10 DEF FinishItem, GoThread, FindInv, Searching, Resting
<1>11. QED
  BY <1>1, <1>2, <1>3, <1>4, <1>5, <1>6, <1>7, <1>8, <1>9, <1>10
  DEF Next, ThreadStep, ItemStep, Ended


LEMMA FindAlways ==
  ASSUME OneReleaser PROVE Spec => [](TableInv /\ OwnInv /\ FindInv)
<1>1. Init => FindInv /\ StopInv
  BY DEF Init, ControlInit, FindInv, Searching, Resting, StopInv
<1>2. TableInv /\ StopInv /\ [Next]_vars => StopInv'
  BY StopStep
<1>3. QED
  BY <1>1, <1>2, OwnAlways, TableStep, FindStep, PTL DEF Spec

\* Where one client releases mounts, while any number creates some, a device is
\* not asked after it was destroyed (releaseMount).
THEOREM DevicesAskedLive ==
  ASSUME OneReleaser PROVE Spec => []AsksLiveDevices
<1>1. TableInv /\ OwnInv /\ FindInv => AsksLiveDevices
  BY DEF OwnInv, FindInv, AsksLiveDevices, Dead
<1>2. QED
  BY <1>1, FindAlways, PTL

\* Where one client releases mounts, a read operation asks the readable mounts
\* that match, newest first and none twice, however the table grows meanwhile.
THEOREM ReadsGoThroughOverlay ==
  ASSUME OneReleaser PROVE Spec => []ReadsOverlay
<1>1. ASSUME TableInv, FindInv PROVE ReadsOverlay
  <2>1. "WRITE_SEGMENT" \notin ReadOps
    BY DEF ReadOps
  <2>2. QED
    BY <1>1, <2>1 DEF FindInv, Searching, ReadsOverlay
<1>2. QED
  BY <1>1, FindAlways, PTL

\* Where one client releases mounts, a mutating operation that asks for a
\* permission goes to the newest mount that grants it.
THEOREM WritesGoToPermitted ==
  ASSUME OneReleaser PROVE Spec => [](op # "WRITE_SEGMENT" => WritesToPermitted)
<1>1. ASSUME TableInv, FindInv, op # "WRITE_SEGMENT" PROVE WritesToPermitted
  <2>1. Null # "UNSUPPORTED" /\ ReadOps \cap MutableOps = {}
    BY NullAssumption DEF ReadOps, MutableOps
  <2>2. \A j \in Matching : (j > at => j >= at /\ j # at) /\ (~(j > at) => j <= at)
    <3>1. at \in Nat /\ known \in Nat
      BY <1>1 DEF TableInv, TypeOK
    <3>2. \A j \in Matching : j \in 1 .. known
      BY DEF Matching
    <3>3. QED
      BY <3>1, <3>2
  <2>3. ASSUME op \in MutableOps, tpc = "mutate"
        PROVE  answer = Null /\ at \in Matching /\ mount = mounts[at] /\ \A j \in Matching : j <= at
    <3>1. /\ answer = Null /\ at \in Matching /\ mount = mounts[at]
          /\ asked = {} /\ asked = {i \in Matching : i > at}
      BY <1>1, <2>3 DEF FindInv, Searching
    <3>2. QED
      BY <2>2, <3>1
  <2>4. ASSUME op \in MutableOps, tpc = "finish", answer # "UNSUPPORTED"
        PROVE  at \in Matching /\ mount = mounts[at] /\ \A j \in Matching : j <= at
    <3>1. /\ at \in Matching /\ mount = mounts[at]
          /\ asked = {at} /\ asked = {i \in Matching : i >= at}
      BY <1>1, <2>1, <2>4 DEF FindInv, Searching
    <3>2. \A j \in Matching : j >= at => j = at
      BY <3>1
    <3>3. QED
      BY <2>2, <3>1, <3>2
  <2>5. ASSUME op \in MutableOps, tpc = "finish", answer = "UNSUPPORTED" PROVE Matching = {}
    BY <1>1, <2>1, <2>5 DEF FindInv, Searching
  <2>6. QED
    BY <2>1, <2>3, <2>4, <2>5 DEF WritesToPermitted
<1>2. QED
  BY <1>1, FindAlways, PTL

-----------------------------------------------------------------------------
(* Permissions.                                                            *)

\* A mount grants nothing its device has no function for.
GrantInv ==
  /\ \A i \in DOMAIN mounts : mounts[i].permissions \subseteq mounts[i].functions \cup {"read"}
  /\ \A c \in Clients :
       cpc[c] = "publish" => hand[c].permissions \subseteq hand[c].functions \cup {"read"}
  /\ fault # "null call"

LEMMA GrantStep ==
  ASSUME "WRITE_SEGMENT" \notin Operations
  PROVE  TableInv /\ FindInv /\ GrantInv /\ [Next]_vars => GrantInv'
<1> SUFFICES ASSUME TableInv, FindInv, GrantInv, [Next]_vars PROVE GrantInv'
  OBVIOUS
<1>a. /\ mounts \in Seq(Mount) /\ hand \in [Clients -> Mount \cup {Null}] /\ TypeOK
      /\ cpc \in [Clients -> {"idle", "publish"}]
  BY DEF TableInv, TypeOK
<1>1. ASSUME NEW c \in Clients, NEW i \in Interfaces, RegisterDeviceInterface(c, i)
      PROVE  GrantInv'
  BY <1>1 DEF RegisterDeviceInterface, clientVars, GrantInv
<1>2. ASSUME NEW c \in Clients, NEW t \in DOMAIN interfaces, NEW f \in MountPoints,
             NEW r \in Requests, CreateMount(c, t, f, r)
      PROVE  GrantInv'
  <2>1. hand'[c].permissions \subseteq hand'[c].functions \cup {"read"}
    BY <1>a, <1>2, MadeMount
  <2>2. /\ mounts' = mounts /\ fault' = fault
        /\ \A d \in Clients \ {c} : cpc'[d] = cpc[d] /\ hand'[d] = hand[d]
    BY <1>2, <1>a DEF CreateMount, GoClient
  <2>3. QED
    BY <2>1, <2>2 DEF GrantInv
<1>3. ASSUME NEW c \in Clients, PublishMount(c) PROVE GrantInv'
  <2>1. /\ cpc[c] = "publish" /\ mounts' = Append(mounts, hand[c])
        /\ fault' \in {fault, "dead iterator"}
        /\ \A d \in Clients \ {c} : cpc'[d] = cpc[d] /\ hand'[d] = hand[d]
        /\ cpc'[c] = "idle"
    BY <1>3, <1>a DEF PublishMount, GoClient
  <2>2. /\ DOMAIN mounts' = DOMAIN mounts \cup {Len(mounts) + 1}
        /\ mounts'[Len(mounts) + 1] = hand[c]
        /\ \A i \in DOMAIN mounts : mounts'[i] = mounts[i]
    <3>1. hand[c] \in Mount
      BY <2>1 DEF TableInv
    <3>2. /\ DOMAIN Append(mounts, hand[c]) = DOMAIN mounts \cup {Len(mounts) + 1}
          /\ Append(mounts, hand[c])[Len(mounts) + 1] = hand[c]
          /\ \A i \in DOMAIN mounts : Append(mounts, hand[c])[i] = mounts[i]
      BY <1>a, <3>1, AppendFacts
    <3>3. QED
      BY <2>1, <3>2
  <2>3. QED
    BY <2>1, <2>2 DEF GrantInv
<1>4. ASSUME NEW c \in Clients, NEW m, BeginRelease(c, m) PROVE GrantInv'
  <2>1. /\ mounts' = mounts /\ fault' = fault /\ cpc' = cpc /\ cpc[c] = "idle"
        /\ \A d \in Clients \ {c} : hand'[d] = hand[d]
    BY <1>4, <1>a DEF BeginRelease, Calling, mountVars
  <2>2. QED
    BY <2>1 DEF GrantInv
<1>5. ASSUME NEW c \in Clients, EraseMount(c) PROVE GrantInv'
  <2>1. /\ fault' \in {fault, "dead iterator"} /\ cpc' = cpc /\ cpc[c] # "publish"
        /\ \A d \in Clients \ {c} : hand'[d] = hand[d]
    <3>1. rel[c] # "none"
      BY <1>5, InRelease DEF EraseMount
    <3>2. QED
      BY <1>5, <1>a, <3>1 DEF EraseMount, TableInv
  <2>2. CASE mounts' = mounts
    BY <2>1, <2>2 DEF GrantInv
  <2>3. ASSUME NEW i \in DOMAIN mounts, mounts' = RemoveAt(mounts, i)
        PROVE  \A j \in DOMAIN mounts' : \E k \in DOMAIN mounts : mounts'[j] = mounts[k]
    <3>1. DOMAIN mounts = 1 .. Len(mounts) /\ Len(mounts) \in Nat
      BY <1>a
    <3>2. /\ mounts' \in Seq(Mount) /\ Len(mounts') = Len(mounts) - 1
          /\ \A j \in 1 .. Len(mounts) - 1 :
               mounts'[j] = IF j < i THEN mounts[j] ELSE mounts[j + 1]
      BY <1>a, <2>3, <3>1, RemoveAtFacts
    <3>3. \A j \in DOMAIN mounts' : j \in 1 .. Len(mounts) - 1 /\ j \in DOMAIN mounts /\ j + 1 \in DOMAIN mounts
      BY <3>1, <3>2
    <3>4. QED
      BY <3>2, <3>3
  <2>4. QED
    BY <1>5, <2>1, <2>2, <2>3 DEF EraseMount, GrantInv
<1>6. CASE MutateDevice
  <2>1. /\ mounts' = mounts /\ cpc' = cpc /\ hand' = hand /\ tpc = "mutate"
        /\ fault' = IF FunctionOf(op) \subseteq mount.functions THEN fault ELSE "null call"
    BY <1>6 DEF MutateDevice, GoThread, mountVars, clientVars
  <2>2. op \in Operations /\ op # "WRITE_SEGMENT"
    BY <2>1 DEF FindInv
  <2>3. op \in MutableOps /\ at \in DOMAIN mounts /\ mount = mounts[at] /\ at \in Matching
    BY <2>1, <2>2 DEF FindInv, Searching
  <2>4. FunctionOf(op) \subseteq mount.permissions
    BY <2>3 DEF Matching
  <2>5. "read" \notin FunctionOf(op)
    BY <2>2, <2>3 DEF FunctionOf, MutableOps, ReadOps
  <2>6. FunctionOf(op) \subseteq mount.functions
    BY <2>3, <2>4, <2>5 DEF GrantInv
  <2>7. QED
    BY <2>1, <2>6 DEF GrantInv
<1>7. CASE DestroyContext \/ \E c \in Clients : StopOrStart(c)
  BY <1>7 DEF DestroyContext, StopOrStart, mountVars, clientVars, GrantInv
<1>8. CASE Idle \/ (\E o \in Operations, p \in Paths : StartItem(o, p)) \/ BeginSearch \/ SkipMount
           \/ TakeMount \/ NoMount \/ AskDevice \/ FinishItem
  BY <1>8 DEF Idle, StartItem, BeginSearch, SkipMount, TakeMount, NoMount, AskDevice, FinishItem,
      mountVars, clientVars, GrantInv
<1>9. CASE UNCHANGED vars
  BY <1>9 DEF vars, mountVars, clientVars, GrantInv
<1>10. QED
  BY <1>1, <1>2, <1>3, <1>4, <1>5, <1>6, <1>7, <1>8, <1>9
  DEF Next, ClientStep, ThreadStep, ItemStep, Ended

\* Where one client releases mounts, none of them lets an operation that asks for
\* a permission through to a function its device lacks (createMount,
\* findMutableMountAndPath).
THEOREM NoFunctionMissing ==
  ASSUME OneReleaser, "WRITE_SEGMENT" \notin Operations
  PROVE  Spec => []NoNullCall
<1>1. Init => GrantInv
  BY DEF Init, GrantInv
<1>2. TableInv /\ FindInv /\ GrantInv /\ [Next]_vars => GrantInv'
  BY GrantStep
<1>3. GrantInv => NoNullCall
  BY DEF GrantInv, NoNullCall
<1>4. QED
  BY <1>1, <1>2, <1>3, FindAlways, PTL DEF Spec
=============================================================================
