----------------------------- MODULE FileProofs -----------------------------
(***************************************************************************)
(* Proofs about the virtual file system (VfsInv: the places of the tables  *)
(* are taken by the handles that hold them, and a path is one mount's) and *)
(* about the job history the web server keeps (WebInv: no list in memory,  *)
(* in the file or in a thread's hands says what is not so).                *)
(***************************************************************************)
EXTENDS Vfs, WebJobs, ListsProofs

-----------------------------------------------------------------------------
(* The mounts and the open files.                                          *)

OpenHandle == [open : {TRUE}, ops : Backends, kind : HandleKinds, slot : Nat,
               volume : Volumes \cup {NULL}]
MountRecord == [prefix : MountPoints, ops : Backends]

VfsTypes ==
    /\ g_mounts \in Seq(MountRecord)
    /\ ctx \in [Backends -> Volumes \cup {NULL}]
    /\ DOMAIN in_use = HandleKinds
    /\ \A k \in HandleKinds : in_use[k] \in [1..TableSize(k) -> BOOLEAN]
    /\ vfs_handle \in [VfsHandles -> OpenHandle \cup {NoHandle}]
    /\ vfs_fault \in BOOLEAN /\ vfs_strict \in BOOLEAN

\* The handle holds the place i of the table of its kind.
HoldsPlace(h, k, i) ==
    /\ vfs_handle[h].open /\ vfs_handle[h].ops = "littlefs"
    /\ vfs_handle[h].kind = k /\ vfs_handle[h].slot = i

Places ==
    /\ \A h \in VfsHandles : vfs_handle[h].open /\ vfs_handle[h].ops = "littlefs" =>
         /\ vfs_handle[h].slot \in 1..TableSize(vfs_handle[h].kind)
         /\ vfs_handle[h].volume # NULL
    /\ \A k \in HandleKinds : \A i \in 1..TableSize(k) :
         /\ in_use[k][i] <=> \E h \in VfsHandles : HoldsPlace(h, k, i)
         /\ \A g, h \in VfsHandles : HoldsPlace(g, k, i) /\ HoldsPlace(h, k, i) => g = h

\* While it is used one mount at a time, a back end has one mount, and its context.
OneMount ==
    vfs_strict =>
        /\ ~vfs_fault
        /\ \A i \in DOMAIN g_mounts : ctx[g_mounts[i].ops] # NULL
        /\ \A i, j \in DOMAIN g_mounts : g_mounts[i].ops = g_mounts[j].ops => i = j
        /\ \A h \in VfsHandles : vfs_handle[h].open /\ vfs_handle[h].ops = "littlefs"
                                => ctx["littlefs"] = vfs_handle[h].volume

\* No two mounts have one prefix.
PrefixesDiffer ==
    \A i, j \in DOMAIN g_mounts : g_mounts[i].prefix = g_mounts[j].prefix => i = j

VfsInv == VfsTypes /\ Places /\ OneMount /\ PrefixesDiffer

\* A mount point that is found is one of the list.
LEMMA MountedIsListed ==
    ASSUME VfsTypes, NEW prefix, Mounted(prefix) # 0
    PROVE  Mounted(prefix) \in 1..Len(g_mounts)
<1> DEFINE I == {i \in DOMAIN g_mounts : g_mounts[i].prefix = prefix}
<1>1. Mounted(prefix) = IF I = {} THEN 0 ELSE First(I)
  BY Zenon DEF Mounted, FirstOrNone
<1>2. I \subseteq Nat /\ DOMAIN g_mounts = 1..Len(g_mounts)
  BY DEF VfsTypes
<1>3. I # {}
  BY <1>1, Zenon
<1> QED
  BY <1>1, <1>2, <1>3, FirstIsFirst, Zenon

\* Places hold through every step that leaves the tables and the handles alone.
LEMMA PlacesQuiet ==
    ASSUME Places, in_use' = in_use, vfs_handle' = vfs_handle
    PROVE  Places'
BY DEF Places, HoldsPlace

\* Nothing mounted, nothing open.
LEMMA VfsInitInv == vfs_init => VfsInv
<1> SUFFICES ASSUME vfs_init PROVE VfsInv
  BY Zenon
<1>1. \A h \in VfsHandles : vfs_handle[h] = NoHandle /\ ~vfs_handle[h].open
  BY Zenon DEF vfs_init, NoHandle
<1>2. \A k \in HandleKinds : in_use[k] = [i \in 1..TableSize(k) |-> FALSE]
  BY Zenon DEF vfs_init
<1>3. VfsTypes
  <2>1. g_mounts \in Seq(MountRecord) /\ ctx \in [Backends -> Volumes \cup {NULL}]
    BY DEF vfs_init
  <2>2. /\ DOMAIN in_use = HandleKinds /\ vfs_handle \in [VfsHandles -> OpenHandle \cup {NoHandle}]
        /\ vfs_fault \in BOOLEAN /\ vfs_strict \in BOOLEAN
    BY Zenon DEF vfs_init
  <2>3. \A k \in HandleKinds : in_use[k] \in [1..TableSize(k) -> BOOLEAN]
    BY <1>2, Zenon
  <2> QED
    BY <2>1, <2>2, <2>3, Zenon DEF VfsTypes
<1>4. Places
  BY <1>1, <1>2, Zenon DEF Places, HoldsPlace
<1>5. OneMount
  BY <1>1 DEF vfs_init, OneMount
<1>6. PrefixesDiffer
  BY DEF vfs_init, PrefixesDiffer
<1> QED
  BY <1>3, <1>4, <1>5, <1>6, Zenon DEF VfsInv

\* A new mount goes in front of the list, or the list stays.
LEMMA MountedList ==
    ASSUME VfsTypes, NEW prefix \in MountPoints, NEW ops \in Backends
    PROVE  \/ vfs_mount(prefix, ops) = g_mounts
           \/ /\ vfs_mount(prefix, ops) \in Seq(MountRecord)
              /\ Len(vfs_mount(prefix, ops)) = Len(g_mounts) + 1
              /\ vfs_mount(prefix, ops)[1].ops = ops
              /\ vfs_mount(prefix, ops)[1].prefix = prefix
              /\ \A i \in DOMAIN g_mounts : g_mounts[i].prefix # prefix
              /\ \A i \in 1..Len(g_mounts) : vfs_mount(prefix, ops)[i + 1] = g_mounts[i]
<1> DEFINE r == [prefix |-> prefix, ops |-> ops]
<1>1. r \in MountRecord /\ r.ops = ops /\ r.prefix = prefix
  BY Zenon DEF MountRecord
<1>2. g_mounts \in Seq(MountRecord)
  BY Zenon DEF VfsTypes
<1>3. \/ vfs_mount(prefix, ops) = g_mounts
      \/ /\ vfs_mount(prefix, ops) = <<r>> \o g_mounts
         /\ \A i \in DOMAIN g_mounts : g_mounts[i].prefix # prefix
  BY Zenon DEF vfs_mount
<1> HIDE DEF r
<1>4. <<r>> \in Seq(MountRecord) /\ Len(<<r>>) = 1 /\ <<r>>[1] = r
  BY <1>1
<1> DEFINE n == <<r>>
<1> HIDE DEF n
<1>5. n \in Seq(MountRecord) /\ Len(n) = 1 /\ n[1] = r
  BY <1>4, Zenon DEF n
<1>6. /\ n \o g_mounts \in Seq(MountRecord) /\ Len(n \o g_mounts) = 1 + Len(g_mounts)
      /\ \A i \in 1..(1 + Len(g_mounts)) :
           (n \o g_mounts)[i] = IF i <= 1 THEN n[i] ELSE g_mounts[i - 1]
  <2>1. /\ n \o g_mounts \in Seq(MountRecord) /\ Len(n \o g_mounts) = Len(n) + Len(g_mounts)
        /\ \A i \in 1..(Len(n) + Len(g_mounts)) :
             (n \o g_mounts)[i] = IF i <= Len(n) THEN n[i] ELSE g_mounts[i - Len(n)]
    BY ONLY <1>2, <1>5, ConcatProperties, Zenon
  <2> QED
    BY <1>5, <2>1, Zenon
<1>7. (n \o g_mounts)[1] = r
  BY <1>2, <1>5, <1>6
<1>8. ASSUME NEW i \in 1..Len(g_mounts) PROVE (n \o g_mounts)[i + 1] = g_mounts[i]
  <2>1. i + 1 \in 1..(1 + Len(g_mounts)) /\ ~(i + 1 <= 1) /\ (i + 1) - 1 = i
    BY <1>2
  <2> QED
    BY <1>6, <2>1, Zenon
<1>9. \/ vfs_mount(prefix, ops) = g_mounts
      \/ /\ vfs_mount(prefix, ops) = n \o g_mounts
         /\ \A i \in DOMAIN g_mounts : g_mounts[i].prefix # prefix
  BY <1>3, Zenon DEF n
<1>10. Len(n \o g_mounts) = Len(g_mounts) + 1
  BY <1>2, <1>6
<1> HIDE DEF n
<1> QED
  BY <1>1, <1>6, <1>7, <1>8, <1>9, <1>10, Zenon

\* A mount on a back end without a context is its only one.
LEMMA MountKeeps ==
    ASSUME VfsInv, NEW prefix \in MountPoints, NEW ops \in Backends, NEW v \in Volumes,
           vfs_strict' = (vfs_strict /\ ctx[ops] = NULL),
           \/ ctx' = [ctx EXCEPT ![ops] = NULL] /\ g_mounts' = g_mounts
           \/ ctx' = [ctx EXCEPT ![ops] = v] /\ g_mounts' = vfs_mount(prefix, ops),
           UNCHANGED <<in_use, vfs_handle, vfs_fault>>
    PROVE  VfsInv'
<1>1. ctx' \in [Backends -> Volumes \cup {NULL}] /\ \A b \in Backends : b # ops => ctx'[b] = ctx[b]
  BY Zenon DEF VfsInv, VfsTypes
<1>2. \/ g_mounts' = g_mounts
      \/ /\ g_mounts' \in Seq(MountRecord) /\ Len(g_mounts') = Len(g_mounts) + 1
         /\ g_mounts'[1].ops = ops /\ \A i \in 1..Len(g_mounts) : g_mounts'[i + 1] = g_mounts[i]
         /\ g_mounts'[1].prefix = prefix /\ \A i \in DOMAIN g_mounts : g_mounts[i].prefix # prefix
         /\ ctx'[ops] = v
  BY MountedList DEF VfsInv, VfsTypes
<1>3. VfsTypes'
  <2>1. vfs_strict' \in BOOLEAN
    BY Zenon
  <2>2. g_mounts' \in Seq(MountRecord)
    BY <1>2, Zenon DEF VfsInv, VfsTypes
  <2> QED
    BY <1>1, <2>1, <2>2, Zenon DEF VfsInv, VfsTypes
<1>4. Places'
  BY PlacesQuiet, Zenon DEF VfsInv
<1>5. ASSUME vfs_strict' PROVE OneMount'
  <2>1. vfs_strict /\ ctx[ops] = NULL
    BY <1>5, Zenon
  <2>2. /\ ~vfs_fault /\ g_mounts \in Seq(MountRecord)
        /\ \A i \in DOMAIN g_mounts : ctx[g_mounts[i].ops] # NULL /\ g_mounts[i].ops # ops
        /\ \A i, j \in DOMAIN g_mounts : g_mounts[i].ops = g_mounts[j].ops => i = j
    BY <2>1, Zenon DEF VfsInv, VfsTypes, OneMount
  <2>3. \A i \in DOMAIN g_mounts : g_mounts[i].ops \in Backends
    <3> SUFFICES ASSUME NEW i \in DOMAIN g_mounts PROVE g_mounts[i].ops \in Backends
      BY Zenon
    <3>1. g_mounts[i] \in MountRecord
      BY <2>2
    <3> QED
      BY <3>1, Zenon DEF MountRecord
  <2>4. \A h \in VfsHandles : vfs_handle[h].open /\ vfs_handle[h].ops = "littlefs"
                                => ctx'["littlefs"] = vfs_handle[h].volume
    <3>1. ASSUME NEW h \in VfsHandles, vfs_handle[h].open, vfs_handle[h].ops = "littlefs"
          PROVE  ctx["littlefs"] = vfs_handle[h].volume /\ ctx["littlefs"] # NULL
      BY <2>1, <3>1 DEF VfsInv, OneMount, Places
    <3> QED
      BY <1>1, <2>1, <3>1, Zenon DEF Backends
  <2>5. CASE g_mounts' = g_mounts
    BY <1>1, <2>2, <2>3, <2>4, <2>5, Zenon DEF OneMount
  <2>6. CASE /\ g_mounts' \in Seq(MountRecord) /\ Len(g_mounts') = Len(g_mounts) + 1
             /\ g_mounts'[1].ops = ops
             /\ \A i \in 1..Len(g_mounts) : g_mounts'[i + 1] = g_mounts[i]
             /\ ctx'[ops] = v
    <3>1. DOMAIN g_mounts = 1..Len(g_mounts) /\ DOMAIN g_mounts' = 1..Len(g_mounts')
          /\ Len(g_mounts) \in Nat
      BY <2>2, <2>6
    <3>2. ASSUME NEW i \in DOMAIN g_mounts', i # 1
          PROVE  i - 1 \in DOMAIN g_mounts /\ g_mounts'[i] = g_mounts[i - 1]
      <4>1. i - 1 \in 1..Len(g_mounts) /\ (i - 1) + 1 = i
        BY <2>6, <3>1, <3>2
      <4> QED
        BY <2>6, <3>1, <4>1, Zenon
    <3>3. \A i \in DOMAIN g_mounts' : i # 1 => g_mounts'[i].ops # ops
      BY <2>2, <3>2
    <3>4. \A i \in DOMAIN g_mounts' : ctx'[g_mounts'[i].ops] # NULL
      <4>1. v # NULL
        BY VfsAssumption, Zenon DEF NULL
      <4> QED
        BY <1>1, <2>2, <2>3, <2>6, <3>2, <4>1
    <3>5. \A i, j \in DOMAIN g_mounts' : g_mounts'[i].ops = g_mounts'[j].ops => i = j
      <4> SUFFICES ASSUME NEW i \in DOMAIN g_mounts', NEW j \in DOMAIN g_mounts',
                          g_mounts'[i].ops = g_mounts'[j].ops
                   PROVE  i = j
        BY Zenon
      <4>1. CASE i = 1 \/ j = 1
        BY <2>6, <3>3, <4>1, Zenon
      <4>2. CASE i # 1 /\ j # 1
        <5>1. i - 1 = j - 1
          BY <2>2, <3>2, <4>2
        <5> QED
          BY <3>1, <5>1
      <4> QED
        BY <4>1, <4>2, Zenon
    <3> QED
      BY <2>2, <2>4, <3>4, <3>5, Zenon DEF OneMount
  <2> QED
    BY <1>2, <2>5, <2>6, Zenon
<1>6. PrefixesDiffer'
  <2>1. CASE g_mounts' = g_mounts
    BY <2>1, Zenon DEF VfsInv, PrefixesDiffer
  <2>2. CASE /\ g_mounts' \in Seq(MountRecord) /\ Len(g_mounts') = Len(g_mounts) + 1
             /\ \A i \in 1..Len(g_mounts) : g_mounts'[i + 1] = g_mounts[i]
             /\ g_mounts'[1].prefix = prefix
             /\ \A i \in DOMAIN g_mounts : g_mounts[i].prefix # prefix
    <3>1. /\ DOMAIN g_mounts = 1..Len(g_mounts) /\ DOMAIN g_mounts' = 1..Len(g_mounts')
          /\ Len(g_mounts) \in Nat
      BY <2>2 DEF VfsInv, VfsTypes
    <3>2. ASSUME NEW i \in DOMAIN g_mounts', i # 1
          PROVE  i - 1 \in DOMAIN g_mounts /\ g_mounts'[i] = g_mounts[i - 1]
      <4>1. i - 1 \in 1..Len(g_mounts) /\ (i - 1) + 1 = i
        BY <2>2, <3>1, <3>2
      <4> QED
        BY <2>2, <3>1, <4>1, Zenon
    <3> SUFFICES ASSUME NEW i \in DOMAIN g_mounts', NEW j \in DOMAIN g_mounts',
                        g_mounts'[i].prefix = g_mounts'[j].prefix
                 PROVE  i = j
      BY Zenon DEF PrefixesDiffer
    <3>3. CASE i = 1 \/ j = 1
      BY <2>2, <3>2, <3>3
    <3>4. CASE i # 1 /\ j # 1
      <4>1. i - 1 = j - 1
        BY <3>2, <3>4 DEF VfsInv, PrefixesDiffer
      <4> QED
        BY <3>1, <4>1
    <3> QED
      BY <3>3, <3>4, Zenon
  <2> QED
    BY <1>2, <2>1, <2>2, Zenon
<1> QED
  BY <1>3, <1>4, <1>5, <1>6, Zenon DEF VfsInv, OneMount

\* The only mount of a back end leaves the list when no file of it is open.
LEMMA UnmountKeeps ==
    ASSUME VfsInv, NEW prefix \in MountPoints, NEW ops \in Backends, unmount(prefix, ops)
    PROVE  VfsInv'
<1> DEFINE m == Mounted(prefix)
<1>1. /\ m \in 1..Len(g_mounts) /\ g_mounts \in Seq(MountRecord)
      /\ g_mounts' = Without(g_mounts, m) /\ ctx' = [ctx EXCEPT ![ops] = NULL]
      /\ UNCHANGED <<in_use, vfs_handle, vfs_fault>>
      /\ vfs_strict' = (vfs_strict /\ ~InBackend(ops) /\ g_mounts[m].ops = ops)
  BY MountedIsListed, Zenon DEF unmount, VfsInv, VfsTypes
<1> HIDE DEF m
<1>2. /\ g_mounts' \in Seq(MountRecord) /\ Len(g_mounts') = Len(g_mounts) - 1
      /\ \A i \in 1..(Len(g_mounts) - 1) :
           g_mounts'[i] = IF i < m THEN g_mounts[i] ELSE g_mounts[i + 1]
  BY <1>1, RemovedAt, Zenon
<1>3. ctx' \in [Backends -> Volumes \cup {NULL}] /\ \A b \in Backends : b # ops => ctx'[b] = ctx[b]
  BY <1>1, Zenon DEF VfsInv, VfsTypes
<1>7. /\ DOMAIN g_mounts = 1..Len(g_mounts) /\ DOMAIN g_mounts' = 1..(Len(g_mounts) - 1)
      /\ Len(g_mounts) \in Nat /\ m \in Nat
  BY <1>1, <1>2
<1> DEFINE was(i) == IF i < m THEN i ELSE i + 1
<1>8. ASSUME NEW i \in DOMAIN g_mounts'
      PROVE  /\ was(i) \in DOMAIN g_mounts /\ was(i) # m
             /\ g_mounts'[i] = g_mounts[was(i)]
  BY <1>1, <1>2, <1>7
<1>9. \A i, j \in DOMAIN g_mounts' : was(i) = was(j) => i = j
  BY <1>7, SMTT(30)
<1> HIDE DEF was
<1>4. VfsTypes'
  <2>1. vfs_strict' \in BOOLEAN
    BY <1>1, Zenon
  <2> QED
    BY <1>1, <1>2, <1>3, <2>1, Zenon DEF VfsInv, VfsTypes
<1>5. Places'
  BY <1>1, PlacesQuiet, Zenon DEF VfsInv
<1>6. ASSUME vfs_strict' PROVE OneMount'
  <2>1. vfs_strict /\ ~InBackend(ops) /\ g_mounts[m].ops = ops
    BY <1>1, <1>6, Zenon
  <2>2. /\ ~vfs_fault
        /\ \A i \in DOMAIN g_mounts : ctx[g_mounts[i].ops] # NULL
        /\ \A i, j \in DOMAIN g_mounts : g_mounts[i].ops = g_mounts[j].ops => i = j
    BY <2>1, Zenon DEF VfsInv, OneMount
  <2>6. ASSUME NEW i \in DOMAIN g_mounts'
        PROVE  g_mounts'[i].ops # ops /\ g_mounts'[i].ops \in Backends
    <3>1. g_mounts'[i] \in MountRecord
      BY <1>2, SMTT(30)
    <3> QED
      BY <1>1, <2>1, <2>2, <1>7, <1>8, <3>1, Zenon DEF MountRecord
  <2>7. \A i \in DOMAIN g_mounts' : ctx'[g_mounts'[i].ops] # NULL
    BY <1>3, <2>2, <1>8, <2>6
  <2>8. \A i, j \in DOMAIN g_mounts' : g_mounts'[i].ops = g_mounts'[j].ops => i = j
    BY <2>2, <1>8, <1>9
  <2>9. \A h \in VfsHandles : vfs_handle[h].open /\ vfs_handle[h].ops = "littlefs"
                                => ctx'["littlefs"] = vfs_handle[h].volume
    BY <1>3, <2>1, Zenon DEF VfsInv, OneMount, InBackend, Backends
  <2> QED
    BY <1>1, <2>2, <2>7, <2>8, <2>9, Zenon DEF OneMount
<1>10. PrefixesDiffer'
  BY <1>8, <1>9 DEF VfsInv, PrefixesDiffer
<1> QED
  BY <1>4, <1>5, <1>6, <1>10, Zenon DEF VfsInv, OneMount

\* A back end without a context has nothing that formatting could take from it.
LEMMA FormatKeeps ==
    ASSUME VfsInv, NEW v \in Volumes, littlefs_format(v)
    PROVE  VfsInv'
<1>1. /\ ctx' = [ctx EXCEPT !["littlefs"] = NULL] /\ g_mounts' = g_mounts
      /\ vfs_strict' = (vfs_strict /\ ctx["littlefs"] = NULL)
      /\ UNCHANGED <<in_use, vfs_handle, vfs_fault>>
  BY Zenon DEF littlefs_format
<1>2. VfsTypes'
  <2>1. vfs_strict' \in BOOLEAN
    BY <1>1, Zenon
  <2> QED
    BY <1>1, <2>1, Zenon DEF VfsInv, VfsTypes
<1>3. Places'
  BY <1>1, PlacesQuiet, Zenon DEF VfsInv
<1>4. ASSUME vfs_strict' PROVE OneMount'
  <2>1. vfs_strict /\ ctx["littlefs"] = NULL /\ ctx' = ctx
    BY <1>1, <1>4, Zenon DEF VfsInv, VfsTypes
  <2> QED
    BY <1>1, <2>1, Zenon DEF VfsInv, OneMount
<1>5. PrefixesDiffer'
  BY <1>1, Zenon DEF VfsInv, PrefixesDiffer
<1> QED
  BY <1>2, <1>3, <1>4, <1>5, Zenon DEF VfsInv, OneMount

\* A call through no context ends in the fault; one used as it should be has one.
LEMMA FaultKeeps ==
    ASSUME VfsInv, NEW h \in VfsHandles, vfs_handle[h].open, vfs_handle[h].ops = "littlefs",
           ctx["littlefs"] = NULL, vfs_fault' = TRUE,
           UNCHANGED <<g_mounts, ctx, in_use, vfs_handle, vfs_strict>>
    PROVE  VfsInv'
<1>1. VfsTypes'
  BY Zenon DEF VfsInv, VfsTypes
<1>2. Places'
  BY PlacesQuiet, Zenon DEF VfsInv
<1>3. ~vfs_strict
  BY Zenon DEF VfsInv, OneMount, Places
<1> QED
  BY <1>1, <1>2, <1>3, Zenon DEF VfsInv, OneMount, PrefixesDiffer

\* An open handle is a file or a directory of a back end.
LEMMA OpenIsHandle ==
    ASSUME VfsTypes, NEW h \in VfsHandles, vfs_handle[h].open
    PROVE  /\ vfs_handle[h] \in OpenHandle /\ vfs_handle[h].kind \in HandleKinds
           /\ vfs_handle[h].ops \in Backends
<1>1. vfs_handle[h] \in OpenHandle \cup {NoHandle} /\ vfs_handle[h] # NoHandle
  BY DEF VfsTypes, NoHandle
<1>2. vfs_handle[h] \in OpenHandle
  BY <1>1, Zenon
<1> QED
  BY <1>2, Zenon DEF OpenHandle

\* A close gives back the place of its handle and no other.
LEMMA CloseKeepsPlaces ==
    ASSUME VfsInv, NEW h \in VfsHandles, vfs_handle[h].open,
           vfs_handle' = [vfs_handle EXCEPT ![h] = NoHandle],
           in_use' = IF vfs_handle[h].ops = "littlefs"
                     THEN [in_use EXCEPT ![vfs_handle[h].kind][vfs_handle[h].slot] = FALSE]
                     ELSE in_use,
           UNCHANGED <<g_mounts, ctx, vfs_strict, vfs_fault>>
    PROVE  VfsInv'
<1> DEFINE f == vfs_handle[h]
           kd == f.kind
           sl == f.slot
<1>1. f \in OpenHandle /\ kd \in HandleKinds
  BY OpenIsHandle, Zenon DEF VfsInv
<1>2. /\ vfs_handle' \in [VfsHandles -> OpenHandle \cup {NoHandle}]
      /\ \A g \in VfsHandles : g # h => vfs_handle'[g] = vfs_handle[g]
      /\ ~vfs_handle'[h].open
  BY Zenon DEF VfsInv, VfsTypes, NoHandle
<1>3. f.ops = "littlefs" => sl \in 1..TableSize(kd)
  BY Zenon DEF VfsInv, Places
<1>4. /\ DOMAIN in_use' = HandleKinds
      /\ \A k \in HandleKinds : in_use'[k] \in [1..TableSize(k) -> BOOLEAN]
      /\ f.ops = "littlefs" => ~in_use'[kd][sl]
      /\ \A k \in HandleKinds : \A i \in 1..TableSize(k) :
           ~(f.ops = "littlefs" /\ k = kd /\ i = sl) => in_use'[k][i] = in_use[k][i]
  <2>1. CASE f.ops = "littlefs"
    <3>1. in_use' = [in_use EXCEPT ![kd] = [in_use[kd] EXCEPT ![sl] = FALSE]]
      BY <2>1, Zenon
    <3>2. /\ DOMAIN in_use = HandleKinds
          /\ \A k \in HandleKinds : in_use[k] \in [1..TableSize(k) -> BOOLEAN]
      BY Zenon DEF VfsInv, VfsTypes
    <3>3. /\ [in_use[kd] EXCEPT ![sl] = FALSE] \in [1..TableSize(kd) -> BOOLEAN]
          /\ ~[in_use[kd] EXCEPT ![sl] = FALSE][sl]
          /\ \A i \in 1..TableSize(kd) :
               i # sl => [in_use[kd] EXCEPT ![sl] = FALSE][i] = in_use[kd][i]
      BY <1>1, <1>3, <2>1, <3>2, Zenon
    <3> DEFINE t == [in_use[kd] EXCEPT ![sl] = FALSE]
    <3> HIDE DEF t, f, kd, sl
    <3>4. /\ DOMAIN in_use' = HandleKinds /\ in_use'[kd] = t
          /\ \A k \in HandleKinds : k # kd => in_use'[k] = in_use[k]
      BY <1>1, <3>1, <3>2, Zenon DEF t
    <3>5. /\ t \in [1..TableSize(kd) -> BOOLEAN]
          /\ ~t[sl] /\ \A i \in 1..TableSize(kd) : i # sl => t[i] = in_use[kd][i]
      BY <3>3, Zenon DEF t
    <3>6. \A k \in HandleKinds : in_use'[k] \in [1..TableSize(k) -> BOOLEAN]
      BY <3>2, <3>4, <3>5, Zenon
    <3>7. ~in_use'[kd][sl]
      BY <3>4, <3>5, Zenon
    <3>8. ASSUME NEW k \in HandleKinds, NEW i \in 1..TableSize(k), ~(k = kd /\ i = sl)
          PROVE  in_use'[k][i] = in_use[k][i]
      BY <3>4, <3>5, <3>8, ZenonT(40)
    <3> QED
      BY <2>1, <3>4, <3>6, <3>7, <3>8, ZenonT(40)
  <2>2. CASE f.ops # "littlefs"
    BY <2>2, Zenon DEF VfsInv, VfsTypes
  <2> QED
    BY <2>1, <2>2, Zenon
<1>5. VfsTypes'
  BY <1>2, <1>4, Zenon DEF VfsInv, VfsTypes
<1>6. OneMount'
  <2>1. \A g \in VfsHandles : vfs_handle'[g].open => vfs_handle'[g] = vfs_handle[g]
    BY <1>2, Zenon
  <2> QED
    BY <2>1 DEF VfsInv, OneMount
<1>7. Places'
  <2>1. \A k \in HandleKinds : \A i \in 1..TableSize(k) : \A g \in VfsHandles :
          HoldsPlace(g, k, i)' <=> g # h /\ HoldsPlace(g, k, i)
    BY <1>2, Zenon DEF HoldsPlace
  <2>2. ASSUME NEW k \in HandleKinds, NEW i \in 1..TableSize(k)
        PROVE  /\ in_use'[k][i] <=> \E g \in VfsHandles : HoldsPlace(g, k, i)'
               /\ \A g, e \in VfsHandles : HoldsPlace(g, k, i)' /\ HoldsPlace(e, k, i)' => g = e
    <3>1. /\ in_use[k][i] <=> \E g \in VfsHandles : HoldsPlace(g, k, i)
          /\ \A g, e \in VfsHandles : HoldsPlace(g, k, i) /\ HoldsPlace(e, k, i) => g = e
      BY Zenon DEF VfsInv, Places
    <3>2. CASE HoldsPlace(h, k, i)
      <4>1. f.ops = "littlefs" /\ k = kd /\ i = sl
        BY <3>2, Zenon DEF HoldsPlace
      <4>2. ~in_use'[k][i]
        BY <1>4, <4>1, Zenon
      <4> QED
        BY <2>1, <3>1, <3>2, <4>2, Zenon
    <3>3. CASE ~HoldsPlace(h, k, i)
      <4>1. ~(f.ops = "littlefs" /\ k = kd /\ i = sl)
        BY <3>3, Zenon DEF HoldsPlace
      <4>2. in_use'[k][i] = in_use[k][i]
        BY <1>4, <4>1, ZenonT(40)
      <4> QED
        BY <2>1, <3>1, <3>3, <4>2, Zenon
    <3> QED
      BY <3>2, <3>3, Zenon
  <2>3. \A g \in VfsHandles : vfs_handle'[g].open => vfs_handle'[g] = vfs_handle[g]
    BY <1>2, Zenon
  <2> QED
    BY <2>2, <2>3 DEF VfsInv, Places
<1>8. PrefixesDiffer'
  BY Zenon DEF VfsInv, PrefixesDiffer
<1> QED
  BY <1>5, <1>6, <1>7, <1>8, Zenon DEF VfsInv

\* vfs_close and vfs_closedir.
LEMMA HandleCloseKeeps ==
    ASSUME VfsInv, NEW h \in VfsHandles, vfs_close(h)
    PROVE  VfsInv'
<1> DEFINE A == /\ vfs_handle' = [vfs_handle EXCEPT ![h] = NoHandle]
                /\ in_use' = IF vfs_handle[h].ops = "littlefs"
                             THEN [in_use EXCEPT ![vfs_handle[h].kind][vfs_handle[h].slot] = FALSE]
                             ELSE in_use
                /\ UNCHANGED <<g_mounts, ctx, names, vfs_strict>>
<1>1. CASE A /\ UNCHANGED vfs_fault
  BY <1>1, CloseKeepsPlaces, Zenon DEF vfs_close
<1>2. CASE /\ vfs_handle[h].ops = "littlefs" /\ ctx["littlefs"] = NULL /\ vfs_fault' = TRUE
           /\ UNCHANGED <<g_mounts, ctx, in_use, vfs_handle, names, vfs_strict>>
  BY <1>2, FaultKeeps, Zenon DEF vfs_close
<1> QED
  BY <1>1, <1>2, Zenon DEF vfs_close, ThroughContext

\* A new handle takes a place that was free.
LEMMA OpenTakesPlace ==
    ASSUME VfsInv, NEW h \in VfsHandles, ~vfs_handle[h].open, NEW k \in HandleKinds,
           NEW i \in 1..TableSize(k), ~in_use[k][i], ctx["littlefs"] # NULL,
           in_use' = [in_use EXCEPT ![k][i] = TRUE],
           vfs_handle' = [vfs_handle EXCEPT ![h] = [open |-> TRUE, ops |-> "littlefs",
                              kind |-> k, slot |-> i, volume |-> ctx["littlefs"]]],
           UNCHANGED <<g_mounts, ctx, vfs_strict, vfs_fault>>
    PROVE  VfsInv'
<1> DEFINE r == [open |-> TRUE, ops |-> "littlefs", kind |-> k, slot |-> i,
                 volume |-> ctx["littlefs"]]
<1>1. TableSize(k) \in Nat /\ i \in Nat
  BY VfsAssumption DEF TableSize
<1>2. ctx["littlefs"] \in Volumes
  BY Zenon DEF VfsInv, VfsTypes, Backends
<1>3. /\ r \in OpenHandle /\ r.open /\ r.ops = "littlefs" /\ r.kind = k /\ r.slot = i
      /\ r.volume = ctx["littlefs"]
  BY <1>1, <1>2, Zenon DEF OpenHandle, Backends
<1> HIDE DEF r
<1>4. /\ vfs_handle' \in [VfsHandles -> OpenHandle \cup {NoHandle}]
      /\ vfs_handle'[h] = r
      /\ \A g \in VfsHandles : g # h => vfs_handle'[g] = vfs_handle[g]
  BY <1>3, Zenon DEF VfsInv, VfsTypes, r
<1>5. /\ DOMAIN in_use' = HandleKinds
      /\ \A q \in HandleKinds : in_use'[q] \in [1..TableSize(q) -> BOOLEAN]
      /\ in_use'[k][i]
      /\ \A q \in HandleKinds : \A j \in 1..TableSize(q) :
           ~(q = k /\ j = i) => in_use'[q][j] = in_use[q][j]
  <2>1. in_use' = [in_use EXCEPT ![k] = [in_use[k] EXCEPT ![i] = TRUE]]
    BY Zenon
  <2>2. /\ DOMAIN in_use = HandleKinds
        /\ \A q \in HandleKinds : in_use[q] \in [1..TableSize(q) -> BOOLEAN]
    BY Zenon DEF VfsInv, VfsTypes
  <2> DEFINE t == [in_use[k] EXCEPT ![i] = TRUE]
  <2>3. /\ t \in [1..TableSize(k) -> BOOLEAN]
        /\ t[i] /\ \A j \in 1..TableSize(k) : j # i => t[j] = in_use[k][j]
    BY <2>2, Zenon
  <2> HIDE DEF t
  <2>4. /\ DOMAIN in_use' = HandleKinds /\ in_use'[k] = t
        /\ \A q \in HandleKinds : q # k => in_use'[q] = in_use[q]
    BY <2>1, <2>2, Zenon DEF t
  <2>5. \A q \in HandleKinds : in_use'[q] \in [1..TableSize(q) -> BOOLEAN]
    BY <2>2, <2>3, <2>4, Zenon
  <2>6. in_use'[k][i]
    BY <2>3, <2>4, Zenon
  <2>7. ASSUME NEW q \in HandleKinds, NEW j \in 1..TableSize(q), ~(q = k /\ j = i)
        PROVE  in_use'[q][j] = in_use[q][j]
    BY <2>3, <2>4, <2>7, Zenon
  <2> QED
    BY <2>4, <2>5, <2>6, <2>7, Zenon
<1>6. VfsTypes'
  BY <1>4, <1>5, Zenon DEF VfsInv, VfsTypes
<1>7. OneMount'
  BY <1>3, <1>4, Zenon DEF VfsInv, OneMount
<1>8. Places'
  <2>1. ASSUME NEW g \in VfsHandles, NEW q \in HandleKinds, NEW j \in 1..TableSize(q)
        PROVE  HoldsPlace(g, q, j)' <=> \/ g = h /\ q = k /\ j = i
                                        \/ g # h /\ HoldsPlace(g, q, j)
    BY <1>3, <1>4, Zenon DEF HoldsPlace
  <2>2. \A g \in VfsHandles : ~HoldsPlace(g, k, i)
    BY Zenon DEF VfsInv, Places
  <2>3. \A q \in HandleKinds : \A j \in 1..TableSize(q) : ~HoldsPlace(h, q, j)
    BY Zenon DEF HoldsPlace
  <2>4. ASSUME NEW q \in HandleKinds, NEW j \in 1..TableSize(q)
        PROVE  /\ in_use'[q][j] <=> \E g \in VfsHandles : HoldsPlace(g, q, j)'
               /\ \A g, e \in VfsHandles : HoldsPlace(g, q, j)' /\ HoldsPlace(e, q, j)' => g = e
    <3>1. /\ in_use[q][j] <=> \E g \in VfsHandles : HoldsPlace(g, q, j)
          /\ \A g, e \in VfsHandles : HoldsPlace(g, q, j) /\ HoldsPlace(e, q, j) => g = e
      BY Zenon DEF VfsInv, Places
    <3>2. CASE q = k /\ j = i
      <4>1. in_use'[q][j]
        BY <1>5, <3>2, Zenon
      <4>2. \A g \in VfsHandles : HoldsPlace(g, q, j)' <=> g = h
        BY <2>1, <2>2, <3>2, Zenon
      <4> QED
        BY <4>1, <4>2, Zenon
    <3>3. CASE ~(q = k /\ j = i)
      <4>1. in_use'[q][j] = in_use[q][j]
        BY <1>5, <3>3, Zenon
      <4>2. \A g \in VfsHandles : HoldsPlace(g, q, j)' <=> HoldsPlace(g, q, j)
        BY <2>1, <2>3, <3>3, Zenon
      <4> QED
        BY <3>1, <4>1, <4>2, Zenon
    <3> QED
      BY <3>2, <3>3, Zenon
  <2>5. \A g \in VfsHandles : vfs_handle'[g].open /\ vfs_handle'[g].ops = "littlefs" =>
           /\ vfs_handle'[g].slot \in 1..TableSize(vfs_handle'[g].kind)
           /\ vfs_handle'[g].volume # NULL
    BY <1>3, <1>4, Zenon DEF VfsInv, Places
  <2> QED
    BY <2>4, <2>5, Zenon DEF Places
<1>9. PrefixesDiffer'
  BY Zenon DEF VfsInv, PrefixesDiffer
<1> QED
  BY <1>6, <1>7, <1>8, <1>9, Zenon DEF VfsInv

\* A handle of fatfs takes no place.
LEMMA FatOpenKeeps ==
    ASSUME VfsInv, NEW h \in VfsHandles, ~vfs_handle[h].open, NEW k \in HandleKinds,
           vfs_handle' = [vfs_handle EXCEPT ![h] = [open |-> TRUE, ops |-> "fatfs",
                              kind |-> k, slot |-> 0, volume |-> ctx["fatfs"]]],
           UNCHANGED <<g_mounts, ctx, in_use, vfs_strict, vfs_fault>>
    PROVE  VfsInv'
<1> DEFINE r == [open |-> TRUE, ops |-> "fatfs", kind |-> k, slot |-> 0, volume |-> ctx["fatfs"]]
<1>1. ctx["fatfs"] \in Volumes \cup {NULL}
  BY Zenon DEF VfsInv, VfsTypes, Backends
<1>2. r \in OpenHandle /\ r.open /\ r.ops = "fatfs"
  BY <1>1, Zenon DEF OpenHandle, Backends
<1> HIDE DEF r
<1>3. /\ vfs_handle' \in [VfsHandles -> OpenHandle \cup {NoHandle}]
      /\ vfs_handle'[h] = r
      /\ \A g \in VfsHandles : g # h => vfs_handle'[g] = vfs_handle[g]
  BY <1>2, Zenon DEF VfsInv, VfsTypes, r
<1>4. VfsTypes'
  BY <1>3, Zenon DEF VfsInv, VfsTypes
<1>5. \A g \in VfsHandles : vfs_handle'[g].open /\ vfs_handle'[g].ops = "littlefs" =>
         vfs_handle'[g] = vfs_handle[g]
  BY <1>2, <1>3, Zenon
<1>6. OneMount'
  BY <1>5, Zenon DEF VfsInv, OneMount
<1>7. \A g \in VfsHandles, q \in HandleKinds, j \in Nat :
        HoldsPlace(g, q, j)' <=> HoldsPlace(g, q, j)
  BY <1>2, <1>3, Zenon DEF HoldsPlace
<1>8. \A q \in HandleKinds : \A j \in 1..TableSize(q) : j \in Nat
  BY VfsAssumption, SMTT(30) DEF TableSize
<1>9. Places'
  BY <1>5, <1>7, <1>8 DEF VfsInv, Places
<1>10. PrefixesDiffer'
  BY Zenon DEF VfsInv, PrefixesDiffer
<1> QED
  BY <1>4, <1>6, <1>9, <1>10, Zenon DEF VfsInv

\* vfs_open and vfs_opendir.
LEMMA HandleOpenKeeps ==
    ASSUME VfsInv, NEW h \in VfsHandles, NEW path \in Paths, NEW k \in HandleKinds,
           vfs_open(h, path, k)
    PROVE  VfsInv'
<1>1. ~vfs_handle[h].open /\ UNCHANGED <<g_mounts, ctx, vfs_fault, vfs_strict>>
  BY Zenon DEF vfs_open
<1>2. CASE UNCHANGED <<in_use, vfs_handle>>
  BY <1>1, <1>2, PlacesQuiet, Zenon DEF VfsInv, VfsTypes, OneMount, PrefixesDiffer
<1>3. ASSUME ctx["littlefs"] # NULL, NEW i \in alloc(k),
             in_use' = [in_use EXCEPT ![k][i] = TRUE],
             vfs_handle' = [vfs_handle EXCEPT ![h] = [open |-> TRUE, ops |-> "littlefs",
                              kind |-> k, slot |-> i, volume |-> ctx["littlefs"]]]
      PROVE  VfsInv'
  <2>1. i \in 1..TableSize(k) /\ ~in_use[k][i]
    BY Zenon DEF alloc
  <2> QED
    BY <1>1, <1>3, <2>1, OpenTakesPlace, Zenon
<1>4. CASE /\ vfs_handle' = [vfs_handle EXCEPT ![h] = [open |-> TRUE, ops |-> "fatfs",
                              kind |-> k, slot |-> 0, volume |-> ctx["fatfs"]]]
           /\ in_use' = in_use
  BY <1>1, <1>4, FatOpenKeeps, Zenon
<1>5. CASE BackendOf(path) = "littlefs"
  <2>1. ctx["littlefs"] # NULL /\ littlefs_open(h, path, k)
    BY <1>5, Zenon DEF vfs_open
  <2> QED
    BY <1>2, <1>3, <2>1, Zenon DEF littlefs_open
<1>6. CASE BackendOf(path) # "littlefs"
  BY <1>2, <1>4, <1>6, Zenon DEF vfs_open, fatfs_open
<1> QED
  BY <1>5, <1>6, Zenon

\* Every step keeps the tables, the handles and the mounts in agreement.
LEMMA VfsInvHolds == VfsSpec => []VfsInv
<1>1. VfsInv /\ [VfsNext]_vfsVars => VfsInv'
  <2> SUFFICES ASSUME VfsInv, [VfsNext]_vfsVars PROVE VfsInv'
    BY Zenon
  <2>1. CASE UNCHANGED vfsVars
    BY <2>1, PlacesQuiet, Zenon DEF vfsVars, VfsInv, VfsTypes, OneMount, PrefixesDiffer
  <2>2. ASSUME NEW p \in MountPoints, NEW v \in Volumes, littlefs_mount(p, v) \/ fatfs_mount(p, v)
        PROVE  VfsInv'
    <3>1. CASE littlefs_mount(p, v)
      <4>1. "littlefs" \in Backends
        BY Zenon DEF Backends
      <4> QED
        BY <3>1, <4>1, MountKeeps, Zenon DEF littlefs_mount
    <3>2. CASE fatfs_mount(p, v)
      <4>1. "fatfs" \in Backends
        BY Zenon DEF Backends
      <4> QED
        BY <3>2, <4>1, MountKeeps, Zenon DEF fatfs_mount
    <3> QED
      BY <2>2, <3>1, <3>2, Zenon
  <2>3. ASSUME NEW p \in MountPoints, NEW b \in Backends, unmount(p, b) PROVE VfsInv'
    BY <2>3, UnmountKeeps, Zenon
  <2>4. ASSUME NEW v \in Volumes, littlefs_format(v) PROVE VfsInv'
    BY <2>4, FormatKeeps, Zenon
  <2>5. ASSUME NEW h \in VfsHandles, vfs_close(h) PROVE VfsInv'
    BY <2>5, HandleCloseKeeps, Zenon
  <2>6. ASSUME NEW h \in VfsHandles, vfs_use(h) PROVE VfsInv'
    BY <2>1, <2>6, FaultKeeps, Zenon DEF vfs_use, littlefs_use, ThroughContext
  <2>7. ASSUME NEW h \in VfsHandles, NEW p \in Paths, NEW k \in HandleKinds, vfs_open(h, p, k)
        PROVE  VfsInv'
    BY <2>7, HandleOpenKeeps, Zenon
  <2>8. ASSUME NEW p \in Paths, NEW q \in Paths, vfs_names(p, q) PROVE VfsInv'
    BY <2>8, PlacesQuiet, Zenon DEF vfs_names, VfsInv, VfsTypes, OneMount, PrefixesDiffer
  <2> QED
    BY <2>1, <2>2, <2>3, <2>4, <2>5, <2>6, <2>7, <2>8, Zenon DEF VfsNext
<1> QED
  BY <1>1, VfsInitInv, PTL DEF VfsSpec

\* A place in the littlefs tables is in use exactly while one open file or directory
\* holds it, whatever the sizes of the tables, the number of handles and of mounts.
THEOREM PlacesStayHeld == VfsSpec => []PlacesAreHeld
<1>1. VfsInv => PlacesAreHeld
  BY DEF VfsInv, Places, PlacesAreHeld, HoldsPlace
<1> QED
  BY <1>1, VfsInvHolds, PTL

-----------------------------------------------------------------------------
(* vfs_find_mount: the loop over the list as a recursive function.  That   *)
(* the function exists, and what it holds after i mounts, follow by taking *)
(* the least i for which they would fail.                                  *)

\* A loop over 1..n that keeps in b the last i with <<i, b>> in Takes is a function.
LEMMA LoopExists ==
    ASSUME NEW n \in Nat, NEW Takes
    PROVE  \E f \in [0..n -> 0..n] : \A i \in 0..n :
             f[i] = IF i = 0 THEN 0 ELSE IF <<i, f[i - 1]>> \in Takes THEN i ELSE f[i - 1]
<1> DEFINE Loops(f, k) == \A i \in 0..k :
             f[i] = IF i = 0 THEN 0 ELSE IF <<i, f[i - 1]>> \in Takes THEN i ELSE f[i - 1]
           Bad == {k \in 0..n : ~ \E f \in [0..k -> 0..n] : Loops(f, k)}
<1>1. Bad = {}
  <2> SUFFICES ASSUME Bad # {} PROVE FALSE
    BY Zenon
  <2> DEFINE k == First(Bad)
  <2>1. k \in Bad /\ \A y \in Bad : k <= y
    <3>1. Bad \subseteq Nat
      OBVIOUS
    <3> HIDE DEF Bad
    <3> QED
      BY <3>1, FirstIsFirst, Zenon
  <2> HIDE DEF k
  <2>2. k \in 0..n /\ ~ \E f \in [0..k -> 0..n] : Loops(f, k)
    BY <2>1, Zenon
  <2>3. CASE k = 0
    <3> DEFINE f == [i \in 0..0 |-> 0]
    <3>1. f \in [0..k -> 0..n] /\ Loops(f, k)
      BY <2>3
    <3> QED
      BY <2>2, <3>1, Zenon
  <2>4. CASE k # 0
    <3>1. k - 1 \in 0..n /\ k - 1 \notin Bad
      <4> HIDE DEF Bad, Loops
      <4> QED
        BY <2>1, <2>2, <2>4
    <3>2. PICK g \in [0..(k - 1) -> 0..n] : Loops(g, k - 1)
      BY <3>1, Zenon
    <3> DEFINE last == IF <<k, g[k - 1]>> \in Takes THEN k ELSE g[k - 1]
               f == [i \in 0..k |-> IF i = k THEN last ELSE g[i]]
    <3>3. last \in 0..n
      BY <2>2, <2>4, <3>2, SMTT(30)
    <3>4. /\ f \in [0..k -> 0..n] /\ f[k] = last
          /\ \A i \in 0..(k - 1) : f[i] = g[i]
      <4> HIDE DEF last
      <4> QED
        BY <2>2, <2>4, <3>2, <3>3
    <3>5. ASSUME NEW i \in 0..k
          PROVE  f[i] = IF i = 0 THEN 0 ELSE IF <<i, f[i - 1]>> \in Takes THEN i ELSE f[i - 1]
      <4> HIDE DEF f
      <4>1. CASE i = k
        <5>1. f[i - 1] = g[k - 1] /\ i # 0
          BY <2>2, <2>4, <3>4, <4>1
        <5> QED
          BY <3>4, <4>1, <5>1, Zenon
      <4>2. CASE i # k /\ i # 0
        <5>1. i \in 0..(k - 1) /\ i - 1 \in 0..(k - 1)
          BY <2>2, <4>2
        <5>2. f[i] = g[i] /\ f[i - 1] = g[i - 1]
          BY <3>4, <5>1, Zenon
        <5> QED
          BY <3>2, <4>2, <5>1, <5>2, Zenon
      <4>3. CASE i # k /\ i = 0
        <5>1. i \in 0..(k - 1)
          BY <2>2, <4>3
        <5> QED
          BY <3>2, <3>4, <4>3, <5>1, Zenon
      <4> QED
        BY <4>1, <4>2, <4>3, Zenon
    <3> QED
      BY <2>2, <3>4, <3>5, Zenon
  <2> QED
    BY <2>3, <2>4, Zenon
<1>2. n \in 0..n
  OBVIOUS
<1> QED
  BY <1>1, <1>2, Zenon

Longer(m, b) == Len(m.prefix) > (IF b = 0 THEN 0 ELSE Len(g_mounts[b].prefix))

\* What the loop of vfs_find_mount computes, after every mount of the list.
LEMMA FindMountLoops ==
    ASSUME VfsTypes, NEW path \in Paths
    PROVE  \E best \in [0..Len(g_mounts) -> 0..Len(g_mounts)] :
             /\ vfs_find_mount(path) = best[Len(g_mounts)]
             /\ \A i \in 0..Len(g_mounts) :
                  best[i] = IF i = 0 THEN 0
                            ELSE IF /\ Matches(g_mounts[i].prefix, path)
                                    /\ Longer(g_mounts[i], best[i - 1])
                                 THEN i ELSE best[i - 1]
<1> DEFINE n == Len(g_mounts)
           Takes == {t \in (0..n) \X (0..n) : /\ Matches(g_mounts[t[1]].prefix, path)
                                             /\ Longer(g_mounts[t[1]], t[2])}
           Is(g) == g = [i \in 0..n |->
                          IF i = 0 THEN 0
                          ELSE IF Matches(g_mounts[i].prefix, path) /\ Longer(g_mounts[i], g[i - 1])
                               THEN i ELSE g[i - 1]]
<1>1. n \in Nat
  BY DEF VfsTypes
<1>2. \E f \in [0..n -> 0..n] : \A i \in 0..n :
        f[i] = IF i = 0 THEN 0 ELSE IF <<i, f[i - 1]>> \in Takes THEN i ELSE f[i - 1]
  <2> DEFINE Loop(N, T) ==
        \E f \in [0..N -> 0..N] : \A i \in 0..N :
          f[i] = IF i = 0 THEN 0 ELSE IF <<i, f[i - 1]>> \in T THEN i ELSE f[i - 1]
  <2>1. \A N \in Nat : \A T : Loop(N, T)
    BY LoopExists, Zenon
  <2>2. Loop(n, Takes)
    <3> HIDE DEF Takes, n, Loop
    <3> QED
      BY <1>1, <2>1, Zenon
  <2> HIDE DEF Takes, n
  <2> QED
    BY <2>2, Zenon
<1>3. PICK f \in [0..n -> 0..n] : \A i \in 0..n :
        f[i] = IF i = 0 THEN 0 ELSE IF <<i, f[i - 1]>> \in Takes THEN i ELSE f[i - 1]
  BY <1>2, Zenon
<1>4. ASSUME NEW i \in 0..n, NEW b \in 0..n
      PROVE  <<i, b>> \in Takes <=> Matches(g_mounts[i].prefix, path) /\ Longer(g_mounts[i], b)
  <2> HIDE DEF n
  <2> QED
    BY <1>4, Zenon
<1> HIDE DEF n, Takes
<1>5. ASSUME NEW i \in 0..n
      PROVE  f[i] = IF i = 0 THEN 0
                    ELSE IF Matches(g_mounts[i].prefix, path) /\ Longer(g_mounts[i], f[i - 1])
                         THEN i ELSE f[i - 1]
  <2>1. CASE i = 0
    BY <1>3, <2>1, Zenon
  <2>2. CASE i # 0
    <3>1. i - 1 \in 0..n /\ f[i - 1] \in 0..n
      BY <1>1, <1>3, <2>2
    <3> QED
      BY <1>3, <1>4, <2>2, <3>1, Zenon
  <2> QED
    BY <2>1, <2>2, Zenon
<1>6. Is(f)
  BY <1>3, <1>5, Zenon
<1> DEFINE best == CHOOSE g : Is(g)
<1>7. Is(best)
  <2> HIDE DEF Is
  <2> QED
    BY <1>6, Zenon
<1>8. vfs_find_mount(path) = best[n]
  BY Zenon DEF vfs_find_mount, Longer, n
<1> HIDE DEF best
<1>9. ASSUME NEW i \in 0..n
      PROVE  best[i] = IF i = 0 THEN 0
                       ELSE IF Matches(g_mounts[i].prefix, path) /\ Longer(g_mounts[i], best[i - 1])
                            THEN i ELSE best[i - 1]
  BY <1>7, Zenon
<1>10. DOMAIN best = 0..n /\ best = [i \in 0..n |-> best[i]]
  BY <1>7, Zenon
<1> HIDE DEF Is
<1>11. {i \in 0..n : best[i] \notin 0..n} = {}
  <2> DEFINE Bad == {i \in 0..n : best[i] \notin 0..n}
             k == First(Bad)
  <2> SUFFICES ASSUME Bad # {} PROVE FALSE
    BY Zenon
  <2>1. Bad \subseteq Nat
    BY <1>1
  <2>2. k \in Bad /\ \A y \in Bad : k <= y
    <3> HIDE DEF Bad
    <3> QED
      BY <2>1, FirstIsFirst, Zenon
  <2> HIDE DEF k
  <2>3. k \in 0..n /\ best[k] \notin 0..n
    BY <2>2, Zenon
  <2>4. CASE k = 0
    BY <1>1, <1>9, <2>3, <2>4, Zenon
  <2>5. CASE k # 0
    <3>1. k - 1 \in 0..n /\ k - 1 \notin Bad
      <4> HIDE DEF Bad
      <4> QED
        BY <1>1, <2>2, <2>3, <2>5, SMTT(30)
    <3>2. best[k - 1] \in 0..n
      BY <3>1, Zenon
    <3> QED
      BY <1>9, <2>3, <2>5, <3>2, Zenon
  <2> QED
    BY <2>4, <2>5, Zenon
<1>12. best \in [0..n -> 0..n]
  BY <1>10, <1>11, Zenon
<1> QED
  BY <1>8, <1>9, <1>12, Zenon DEF n

\* After i mounts the loop has the longest of those that match, and none only if
\* none of them matches.
LEMMA BestIsLongest ==
    ASSUME VfsTypes, NEW path \in Paths,
           NEW best \in [0..Len(g_mounts) -> 0..Len(g_mounts)],
           \A i \in 0..Len(g_mounts) :
             best[i] = IF i = 0 THEN 0
                       ELSE IF Matches(g_mounts[i].prefix, path) /\ Longer(g_mounts[i], best[i - 1])
                            THEN i ELSE best[i - 1]
    PROVE  \A i \in 0..Len(g_mounts) :
             /\ best[i] # 0 => Matches(g_mounts[best[i]].prefix, path)
             /\ \A j \in 1..i : Matches(g_mounts[j].prefix, path) =>
                  best[i] # 0 /\ Len(g_mounts[j].prefix) <= Len(g_mounts[best[i]].prefix)
<1> DEFINE n == Len(g_mounts)
           size(i) == Len(g_mounts[i].prefix)
           Good(i) == /\ best[i] # 0 => Matches(g_mounts[best[i]].prefix, path)
                      /\ \A j \in 1..i : Matches(g_mounts[j].prefix, path) =>
                           best[i] # 0 /\ size(j) <= size(best[i])
           Bad == {i \in 0..n : ~Good(i)}
           k == First(Bad)
<1>1. n \in Nat
  BY DEF VfsTypes
<1>2. \A i \in 1..n : size(i) \in Nat /\ size(i) > 0
  <2> SUFFICES ASSUME NEW i \in 1..n PROVE size(i) \in Nat /\ size(i) > 0
    BY Zenon
  <2>1. g_mounts[i] \in MountRecord
    BY DEF VfsTypes
  <2>2. g_mounts[i].prefix \in Seq(PathNames) /\ g_mounts[i].prefix # <<>>
    BY <2>1, VfsAssumption, Zenon DEF MountRecord
  <2> QED
    BY <2>2
<1> SUFFICES ASSUME Bad # {} PROVE FALSE
  BY Zenon
<1>3. Bad \subseteq Nat
  BY <1>1
<1>4. k \in Bad /\ \A y \in Bad : k <= y
  <2> HIDE DEF Bad
  <2> QED
    BY <1>3, FirstIsFirst, Zenon
<1> HIDE DEF k
<1>5. k \in 0..n /\ ~Good(k)
  BY <1>4, Zenon
<1>6. CASE k = 0
  BY <1>1, <1>5, <1>6
<1>7. CASE k # 0
  <2> DEFINE b == best[k - 1]
             Matching(i) == Matches(g_mounts[i].prefix, path)
  <2>1. k - 1 \in 0..n /\ k \in 1..n /\ Good(k - 1) /\ b \in 0..n
    <3>1. k - 1 \in 0..n /\ k \in 1..n /\ k - 1 \notin Bad
      <4> HIDE DEF Bad
      <4> QED
        BY <1>1, <1>4, <1>5, <1>7
    <3> HIDE DEF Good
    <3>2. Good(k - 1)
      BY <3>1, Zenon
    <3> QED
      BY <3>1, <3>2, Zenon
  <2>2. best[k] = IF Matching(k) /\ Longer(g_mounts[k], b) THEN k ELSE b
    BY <1>5, <1>7, Zenon
  <2>3. Longer(g_mounts[k], b) <=> size(k) > (IF b = 0 THEN 0 ELSE size(b))
    BY Zenon DEF Longer
  <2>4. /\ b # 0 => Matching(b)
        /\ \A j \in 1..(k - 1) : Matching(j) => b # 0 /\ size(j) <= size(b)
    BY <2>1, Zenon
  <2>5. ASSUME NEW j \in 1..k, j # k PROVE j \in 1..(k - 1) /\ j \in 1..n
    BY <1>1, <1>5, <2>5, SMTT(30)
  <2>6. b # 0 => b \in 1..n
    BY <1>1, <2>1
  <2> HIDE DEF n, size, Matching, b
  <2>7. CASE Matching(k) /\ Longer(g_mounts[k], b)
    <3>1. best[k] = k /\ k # 0 /\ Matching(best[k])
      BY <1>7, <2>2, <2>7, Zenon
    <3>2. ASSUME NEW j \in 1..k, Matching(j) PROVE size(j) <= size(k)
      <4>1. CASE j = k
        BY <1>2, <2>1, <4>1
      <4>2. CASE j # k
        <5>1. b # 0 /\ size(j) <= size(b) /\ size(b) \in Nat /\ size(j) \in Nat /\ size(k) \in Nat
          BY <1>2, <2>1, <2>4, <2>5, <2>6, <3>2, <4>2, Zenon
        <5>2. size(k) > size(b)
          BY <2>3, <2>7, <5>1, Zenon
        <5> QED
          BY <5>1, <5>2
      <4> QED
        BY <4>1, <4>2, Zenon
    <3>3. Good(k)
      BY <3>1, <3>2, Zenon DEF Matching
    <3> QED
      BY <1>5, <3>3, Zenon
  <2>8. CASE ~(Matching(k) /\ Longer(g_mounts[k], b))
    <3>1. best[k] = b
      BY <2>2, <2>8, Zenon
    <3>2. ASSUME NEW j \in 1..k, Matching(j) PROVE b # 0 /\ size(j) <= size(b)
      <4>1. CASE j = k
        <5>1. ~(size(k) > (IF b = 0 THEN 0 ELSE size(b)))
          BY <2>3, <2>8, <3>2, <4>1, Zenon
        <5>2. b # 0
          BY <1>2, <2>1, <5>1, Zenon
        <5> QED
          BY <1>2, <2>1, <2>6, <4>1, <5>1, <5>2, SMTT(30)
      <4>2. CASE j # k
        BY <2>4, <2>5, <3>2, <4>2, Zenon
      <4> QED
        BY <4>1, <4>2, Zenon
    <3>3. Good(k)
      BY <2>4, <3>1, <3>2, Zenon DEF Matching
    <3> QED
      BY <1>5, <3>3, Zenon
  <2> QED
    BY <2>7, <2>8, Zenon
<1> QED
  BY <1>6, <1>7, Zenon

\* Two mounts that match a path with prefixes of one length are one mount.
LEMMA SameLengthSameMount ==
    ASSUME VfsTypes, PrefixesDiffer, NEW path \in Paths, NEW i \in DOMAIN g_mounts,
           NEW j \in DOMAIN g_mounts, Matches(g_mounts[i].prefix, path),
           Matches(g_mounts[j].prefix, path), Len(g_mounts[i].prefix) = Len(g_mounts[j].prefix)
    PROVE  i = j
<1> DEFINE a == g_mounts[i].prefix
           b == g_mounts[j].prefix
<1>1. g_mounts[i] \in MountRecord /\ g_mounts[j] \in MountRecord
  BY DEF VfsTypes
<1>2. a \in Seq(PathNames) /\ b \in Seq(PathNames)
  BY <1>1, VfsAssumption, Zenon DEF MountRecord
<1>3. \A x \in 1..Len(a) : a[x] = b[x]
  BY Zenon DEF Matches
<1>4. Len(a) = Len(b)
  BY Zenon
<1> HIDE DEF a, b
<1>5. a = b
  BY <1>2, <1>3, <1>4, SeqEqual, Zenon
<1> QED
  BY <1>5, Zenon DEF PrefixesDiffer, a, b

\* A call on a path reaches the mount with the longest matching prefix, and through
\* it, or through a file opened there, the volume that mount was made for, for
\* every set of paths, of mount points and of volumes.
THEOREM CallsReach == VfsSpec => []CallsReachTheirMount
<1>1. VfsInv => FoundIsLongest
  <2> SUFFICES ASSUME VfsInv, NEW p \in Paths
               PROVE  LET matching == {i \in DOMAIN g_mounts : Matches(g_mounts[i].prefix, p)}
                          m        == vfs_find_mount(p)
                      IN  IF matching = {} THEN m = 0
                          ELSE m \in matching /\ \A i \in matching : i # m =>
                                  Len(g_mounts[i].prefix) < Len(g_mounts[m].prefix)
    BY Zenon DEF FoundIsLongest
  <2> DEFINE n == Len(g_mounts)
             m == vfs_find_mount(p)
             Matching(i) == Matches(g_mounts[i].prefix, p)
             size(i) == Len(g_mounts[i].prefix)
  <2>1. VfsTypes /\ PrefixesDiffer /\ n \in Nat /\ DOMAIN g_mounts = 1..n
    BY DEF VfsInv, VfsTypes
  <2>2. /\ m \in 0..n /\ (m # 0 => Matching(m))
        /\ \A j \in 1..n : Matching(j) => m # 0 /\ size(j) <= size(m)
    <3>1. PICK best \in [0..n -> 0..n] :
             /\ m = best[n]
             /\ \A i \in 0..n :
                  best[i] = IF i = 0 THEN 0
                            ELSE IF /\ Matches(g_mounts[i].prefix, p)
                                    /\ Longer(g_mounts[i], best[i - 1])
                                 THEN i ELSE best[i - 1]
      BY <2>1, FindMountLoops, Zenon
    <3>2. \A i \in 0..n :
             /\ best[i] # 0 => Matches(g_mounts[best[i]].prefix, p)
             /\ \A j \in 1..i : Matches(g_mounts[j].prefix, p) =>
                  best[i] # 0 /\ Len(g_mounts[j].prefix) <= Len(g_mounts[best[i]].prefix)
      BY <2>1, <3>1, BestIsLongest, Zenon
    <3>3. n \in 0..n
      BY <2>1
    <3> HIDE DEF m, n
    <3> QED
      BY <3>1, <3>2, <3>3, Zenon
  <2> HIDE DEF m, n
  <2>3. ASSUME NEW i \in DOMAIN g_mounts, Matching(i), i # m PROVE size(i) < size(m)
    <3>1. m # 0 /\ m \in DOMAIN g_mounts /\ Matching(m) /\ size(i) <= size(m)
      BY <2>1, <2>2, <2>3, SMTT(30)
    <3>2. g_mounts[i] \in MountRecord /\ g_mounts[m] \in MountRecord
      BY <2>1, <3>1 DEF VfsTypes
    <3>3. size(i) \in Nat /\ size(m) \in Nat
      <4>1. g_mounts[i].prefix \in Seq(PathNames) /\ g_mounts[m].prefix \in Seq(PathNames)
        BY <3>2, VfsAssumption, Zenon DEF MountRecord
      <4> QED
        BY <4>1
    <3>4. size(i) # size(m)
      BY <2>1, <2>3, <3>1, SameLengthSameMount, Zenon
    <3> QED
      BY <3>1, <3>3, <3>4, SMTT(30)
  <2>4. /\ (\A i \in DOMAIN g_mounts : ~Matching(i)) => m = 0
        /\ (\E i \in DOMAIN g_mounts : Matching(i)) => m \in DOMAIN g_mounts /\ Matching(m)
    BY <2>1, <2>2, SMTT(30)
  <2> HIDE DEF Matching, size
  <2> QED
    BY <2>3, <2>4, Zenon DEF m, Matching, size
<1>2. VfsInv => CallsReachTheirMount
  BY <1>1, Zenon DEF VfsInv, OneMount, ContextStays, CallsReachTheirMount
<1> QED
  BY <1>2, VfsInvHolds, PTL

-----------------------------------------------------------------------------
(* The jobs of the web server.                                             *)

Early == {"prepare", "build", "upload", "record"}
JobRecord == [pc : Early \cup {"none", "append", "slice", "assign", "dump", "open", "write", "done"},
              running : BOOLEAN, upload : BOOLEAN,
              process : {"none", "alive", "done", "failed"}, fresh : BOOLEAN, list : Seq(Nat)]
Past == [started : Nat, ended : Seq(Nat), odd : BOOLEAN, lines : Nat, taken : SUBSET Nat]

Stream == [pc : {"none", "first", "test", "poll"}, at : Nat]

WebTypes ==
    /\ web_jobs \in [1..MaxJobs -> JobRecord]
    /\ web_log \in Seq(Nat) /\ web_history \in Seq(Nat) /\ web_file \in Seq(Nat)
    /\ web_past \in Past
    /\ web_stream \in Stream /\ (web_stream.pc = "first" => web_stream.at >= 1)

\* A list that names jobs that have ended, each once.
NamesEnded(s, ended) ==
    /\ \A i, k \in 1..Len(s) : i # k => s[i] # s[k]
    /\ \A i \in 1..Len(s) : s[i] \in Lines(ended)

\* A list of the last HistoryMax jobs that ended.
IsLast(s, ended) ==
    /\ Len(s) <= Len(ended)
    /\ Len(s) = HistoryMax \/ (Len(s) < HistoryMax /\ Len(ended) = Len(s))
    /\ \A i \in 1..Len(s) : s[i] = ended[Len(ended) - Len(s) + i]

\* Where each thread stands in the life of its job.
LivesInOrder ==
    /\ 0 \notin Lines(web_past.ended)
    /\ \A j \in 1..MaxJobs :
         /\ j > web_past.started => web_jobs[j].pc = "none" /\ j \notin Lines(web_past.ended)
         /\ web_jobs[j].pc \in Early \cup {"append"} => j \notin Lines(web_past.ended)
         /\ web_jobs[j].pc = "append" => web_jobs[j].list = <<j>>

\* No list in memory, in the file or in a thread's hands says what is not so.
RecordsTrue ==
    /\ NamesEnded(web_history, web_past.ended)
    /\ web_file = Torn \/ NamesEnded(web_file, web_past.ended)
    /\ \A j \in 1..MaxJobs :
         web_jobs[j].pc \in {"assign", "open", "write"} => NamesEnded(web_jobs[j].list, web_past.ended)

\* How far the one thread that is recording has come.
Recorded(j) ==
    /\ web_jobs[j].pc = "append" => web_jobs[j].fresh /\ IsLast(web_history, web_past.ended)
    /\ web_jobs[j].pc = "slice" => IsLast(LastJobs(web_history), web_past.ended)
    /\ web_jobs[j].pc = "assign" => IsLast(web_jobs[j].list, web_past.ended)
    /\ web_jobs[j].pc = "dump" => IsLast(web_history, web_past.ended)
    /\ web_jobs[j].pc \in {"open", "write"} => web_jobs[j].list = web_history /\ IsLast(web_history, web_past.ended)
    /\ web_jobs[j].pc = "write" => web_file = Torn

RecordsWhole ==
    ~web_past.odd =>
      /\ \A j, k \in 1..MaxJobs : Recording(j) /\ Recording(k) => j = k
      /\ \A j \in 1..MaxJobs : Recorded(j)
      /\ (\A j \in 1..MaxJobs : ~Recording(j)) => IsLast(web_history, web_past.ended) /\ web_file = web_history

WebInv == WebTypes /\ LivesInOrder /\ RecordsTrue /\ RecordsWhole /\ LinesAreKept

\* What the invariant says of each variable.
LEMMA WebFields ==
    ASSUME WebInv
    PROVE  /\ web_jobs \in [1..MaxJobs -> JobRecord]
           /\ \A j \in 1..MaxJobs : web_jobs[j] \in JobRecord
           /\ web_past \in Past
           /\ web_history \in Seq(Nat) /\ web_file \in Seq(Nat)
           /\ NamesEnded(web_history, web_past.ended)
           /\ web_file = Torn \/ NamesEnded(web_file, web_past.ended)
<1>1. /\ web_jobs \in [1..MaxJobs -> JobRecord] /\ web_past \in Past
      /\ web_history \in Seq(Nat) /\ web_file \in Seq(Nat)
  BY Zenon DEF WebInv, WebTypes
<1>2. /\ NamesEnded(web_history, web_past.ended)
      /\ web_file = Torn \/ NamesEnded(web_file, web_past.ended)
  BY Zenon DEF WebInv, RecordsTrue
<1> QED
  BY <1>1, <1>2, Zenon

\* What the invariant says of the history when nobody is recording.
LEMMA InvIsEnough == WebInv => JobsAreRecorded
<1> SUFFICES ASSUME WebInv PROVE JobsAreRecorded
  BY Zenon
<1>1. web_history \in Seq(Nat) /\ web_past.ended \in Seq(Nat) /\ HistoryMax \in Nat
  BY WebAssumption, Zenon DEF WebInv, WebTypes, Past
<1>2. ASSUME ~web_past.odd, \A j \in 1..MaxJobs : ~Recording(j)
      PROVE  LET n == Len(web_history)
                 more == Len(web_past.ended) - n
             IN  /\ n = HistoryMax \/ (n < HistoryMax /\ more = 0)
                 /\ \A i \in 1..n : web_history[i] = web_past.ended[more + i]
                 /\ web_file = web_history
  <2>1. IsLast(web_history, web_past.ended) /\ web_file = web_history
    BY <1>2, Zenon DEF WebInv, RecordsWhole
  <2> QED
    BY <1>1, <2>1 DEF IsLast
<1>3. NamesEnded(web_history, web_past.ended)
  BY Zenon DEF WebInv, RecordsTrue
<1> QED
  BY <1>2, <1>3, Zenon DEF JobsAreRecorded, NamesEnded

\* The server starts with no job and no history.
LEMMA WebInitInv == WebInit => WebInv
<1> SUFFICES ASSUME WebInit PROVE WebInv
  BY Zenon
<1>1. <<>> \in Seq(Nat) /\ Len(<<>>) = 0
  OBVIOUS
<1>2. NoJob \in JobRecord /\ NoJob.pc = "none"
  BY <1>1, Zenon DEF NoJob, JobRecord
<1>3. web_past \in Past /\ web_past.ended = <<>> /\ web_past.lines = 0 /\ web_past.odd = FALSE
  BY <1>1, Zenon DEF WebInit, Past
<1>4. WebTypes
  BY <1>1, <1>2, <1>3, Zenon DEF WebInit, WebTypes, NoStream, Stream
<1>5. \A j \in 1..MaxJobs : web_jobs[j].pc = "none"
  BY <1>2, Zenon DEF WebInit
<1>6. Lines(web_past.ended) = {} /\ IsLast(<<>>, web_past.ended) /\ NamesEnded(<<>>, web_past.ended)
  BY <1>1, <1>3, WebAssumption DEF Lines, IsLast, NamesEnded
<1>7. LivesInOrder
  BY <1>5, <1>6, Zenon DEF LivesInOrder, Early
<1>8. RecordsTrue
  BY <1>5, <1>6, Zenon DEF WebInit, RecordsTrue
<1>9. RecordsWhole
  BY <1>5, <1>6, Zenon DEF WebInit, RecordsWhole, Recorded, Recording
<1>10. LinesAreKept
  BY <1>3 DEF LinesAreKept
<1> QED
  BY <1>4, <1>7, <1>8, <1>9, <1>10, Zenon DEF WebInv

-----------------------------------------------------------------------------
(* The log.                                                                 *)

\* A line more.
LEMMA LogKeeps ==
    ASSUME WebTypes, LinesAreKept, NEW j \in 1..MaxJobs, add_log(j)
    PROVE  /\ LinesAreKept' /\ web_log' \in Seq(Nat) /\ web_past' \in Past
           /\ web_past'.started = web_past.started /\ web_past'.ended = web_past.ended /\ web_past'.odd = web_past.odd
<1>1. web_log \in Seq(Nat) /\ web_past \in Past
  BY Zenon DEF WebTypes
<1>2. CASE j # web_current
  BY <1>1, <1>2, Zenon DEF add_log, LinesAreKept, Lines
<1>3. CASE j = web_current
  <2> DEFINE n == web_past.lines
             m == n + 1
             new == Append(web_log, m)
  <2>1. n \in Nat /\ m \in Nat /\ web_log' = new /\ web_past' = [web_past EXCEPT !.lines = m]
    BY <1>1, <1>3 DEF add_log, Past
  <2>2. new \in Seq(Nat) /\ Len(new) = Len(web_log) + 1 /\ new[Len(web_log) + 1] = m
        /\ \A i \in 1..Len(web_log) : new[i] = web_log[i]
    BY <1>1, <2>1
  <2> HIDE DEF new, n
  <2>3. Len(web_log) \in Nat
    BY <1>1
  <2>4. m \in Lines(new) /\ Lines(web_log) \subseteq Lines(new)
    BY <2>2, <2>3 DEF Lines
  <2>5. 1..m \subseteq 1..n \cup {m}
    BY <2>1
  <2> HIDE DEF m
  <2>6. /\ web_past' \in Past /\ web_past'.lines = m /\ web_past'.taken = web_past.taken
        /\ web_past'.started = web_past.started /\ web_past'.ended = web_past.ended
        /\ web_past'.odd = web_past.odd
    BY ONLY <1>1, <2>1, Zenon DEF Past
  <2>7. 1..n \subseteq Lines(web_log) \cup web_past.taken
    BY Zenon DEF LinesAreKept, n
  <2>8. 1..web_past'.lines \subseteq Lines(web_log') \cup web_past'.taken
    BY <2>1, <2>4, <2>5, <2>6, <2>7, Zenon
  <2>9. LinesAreKept'
    BY <2>8, Zenon DEF LinesAreKept, Lines
  <2> QED
    BY <2>1, <2>2, <2>6, <2>9, Zenon
<1> QED
  BY <1>2, <1>3, Zenon

-----------------------------------------------------------------------------
(* Steps before a thread comes to record its job.                           *)

\* What is recorded does not change while threads move before that point.
LEMMA QuietRecords ==
    ASSUME WebInv, web_past' \in Past,
           web_history' = web_history, web_file' = web_file, web_past'.ended = web_past.ended,
           web_past'.odd = web_past.odd, web_past'.started >= web_past.started,
           \A k \in 1..MaxJobs :
             \/ /\ web_jobs'[k].pc = web_jobs[k].pc /\ web_jobs'[k].list = web_jobs[k].list
                /\ web_jobs'[k].fresh = web_jobs[k].fresh
             \/ /\ web_jobs'[k].pc \in Early /\ web_jobs[k].pc \in Early \cup {"none"}
                /\ k \notin Lines(web_past.ended) /\ k <= web_past'.started
    PROVE  LivesInOrder' /\ RecordsTrue' /\ RecordsWhole'
<1>1. /\ web_past.started \in Nat /\ web_past'.started \in Nat
      /\ \A k \in 1..MaxJobs : k > web_past'.started => k > web_past.started /\ ~(k <= web_past'.started)
  <2>1. web_past.started \in Nat /\ web_past'.started \in Nat
    BY Zenon DEF WebInv, WebTypes, Past
  <2>2. \A k \in 1..MaxJobs : k \in Nat
    BY WebAssumption
  <2> QED
    BY <2>1, <2>2
<1>2. LivesInOrder'
  BY <1>1 DEF WebInv, LivesInOrder, Early
<1>3. RecordsTrue'
  BY Zenon DEF WebInv, RecordsTrue, Early
<1>4. \A k \in 1..MaxJobs : Recording(k)' = Recording(k)
  BY SMTT(30) DEF Recording, Early
<1>5. \A k \in 1..MaxJobs : Recorded(k) => Recorded(k)'
  BY DEF Recorded, Early
<1>6. RecordsWhole'
  BY <1>4, <1>5, Zenon DEF WebInv, RecordsWhole
<1> QED
  BY <1>2, <1>3, <1>6, Zenon

\* The HTTP thread starts a job.
LEMMA PostJobKeeps ==
    ASSUME WebInv, NEW upload \in BOOLEAN, handle_jobs_post(upload)
    PROVE  WebInv'
<1> DEFINE j == web_past.started + 1
           job == [NoJob EXCEPT !.pc = "prepare", !.running = TRUE, !.upload = upload]
<1>1. web_jobs \in [1..MaxJobs -> JobRecord] /\ web_past \in Past /\ MaxJobs \in Nat
  BY WebAssumption, Zenon DEF WebInv, WebTypes
<1>2. /\ web_past.started \in Nat /\ j \in 1..MaxJobs /\ j > web_past.started
      /\ web_jobs' = [web_jobs EXCEPT ![j] = job]
      /\ web_past' = [web_past EXCEPT !.started = j, !.lines = 0, !.taken = {}]
  BY <1>1 DEF handle_jobs_post, Past
<1>3. job \in JobRecord /\ job.pc = "prepare"
  <2>1. <<>> \in Seq(Nat)
    OBVIOUS
  <2> QED
    BY <2>1, Zenon DEF NoJob, JobRecord, Early
<1> HIDE DEF job, j
<1>4. /\ web_jobs' \in [1..MaxJobs -> JobRecord] /\ web_jobs'[j] = job
      /\ \A k \in 1..MaxJobs : k # j => web_jobs'[k] = web_jobs[k]
  BY <1>1, <1>2, <1>3, Zenon
<1>5. j \in Nat
  BY <1>1, <1>2
<1>6. /\ web_past' \in Past /\ web_past'.started = j /\ web_past'.ended = web_past.ended
      /\ web_past'.odd = web_past.odd /\ web_past'.lines = 0
  BY <1>1, <1>2, <1>5, Zenon DEF Past
<1>7. /\ web_log' \in Seq(Nat) /\ web_history' = web_history /\ web_file' = web_file
      /\ web_stream' = web_stream
  BY DEF handle_jobs_post
<1>8. WebTypes'
  BY <1>4, <1>6, <1>7, Zenon DEF WebInv, WebTypes
<1>9. LinesAreKept'
  BY <1>6 DEF LinesAreKept
<1>10. web_jobs[j].pc = "none" /\ j \notin Lines(web_past.ended)
  BY <1>2, Zenon DEF WebInv, LivesInOrder
<1>11. web_past'.started >= web_past.started /\ j <= web_past'.started
  BY <1>2, <1>5, <1>6
<1>12. LivesInOrder' /\ RecordsTrue' /\ RecordsWhole'
  BY <1>3, <1>4, <1>6, <1>7, <1>10, <1>11, QuietRecords, Zenon DEF Early
<1> QED
  BY <1>8, <1>9, <1>12, Zenon DEF WebInv

\* The HTTP thread streams a log.
LEMMA StreamKeeps ==
    ASSUME WebInv, handle_job_log \/ SendFirst \/ StreamTest \/ SendNew \/ FirstBroken
    PROVE  WebInv'
<1>1. web_jobs' = web_jobs /\ web_history' = web_history /\ web_file' = web_file
  BY Zenon DEF handle_job_log, SendFirst, StreamTest, SendNew, FirstBroken
<1>2. web_past \in Past /\ web_log \in Seq(Nat)
  BY Zenon DEF WebInv, WebTypes
<1>3. Lines(web_log) \in SUBSET Nat
  BY <1>2 DEF Lines
<1>4. /\ web_log' \in Seq(Nat)
      /\ \E T \in SUBSET Nat : web_past' = [web_past EXCEPT !.taken = T]
      /\ web_past.taken \subseteq web_past'.taken
      /\ Lines(web_log) \subseteq Lines(web_log)' \cup web_past'.taken
  <2>1. web_past = [web_past EXCEPT !.taken = web_past.taken] /\ web_past.taken \in SUBSET Nat
    BY <1>2, Zenon DEF Past
  <2>2. CASE handle_job_log \/ StreamTest \/ FirstBroken
    BY <1>2, <2>1, <2>2, Zenon DEF handle_job_log, StreamTest, FirstBroken, Lines
  <2>3. CASE SendNew
    <3> DEFINE T == web_past.taken \cup Lines(web_log)
    <3>1. T \in SUBSET Nat /\ Lines(web_log) \subseteq T /\ web_past.taken \subseteq T
      BY <1>3, <2>1, Zenon
    <3>2. web_log' = <<>> /\ web_past' = [web_past EXCEPT !.taken = T]
      BY <2>3, Zenon DEF SendNew, new_log_lines
    <3> HIDE DEF T
    <3>3. web_past'.taken = T /\ web_log' \in Seq(Nat)
      BY <1>2, <3>2 DEF Past
    <3> QED
      BY <3>1, <3>2, <3>3, Zenon
  <2>4. CASE SendFirst
    <3>1. web_log' = web_log
      BY <2>4, Zenon DEF SendFirst
    <3>2. CASE web_past' = web_past
      BY <1>2, <2>1, <3>1, <3>2, Zenon DEF Lines
    <3>3. CASE web_past' # web_past
      <4> DEFINE x == web_log[web_stream.at]
                 T == web_past.taken \cup {x}
      <4>1. web_stream.at <= Len(web_log) /\ web_past' = [web_past EXCEPT !.taken = T]
            /\ web_stream.pc = "first"
        BY <2>4, <3>3, Zenon DEF SendFirst
      <4>2. x \in Nat
        <5>1. web_stream.at \in 1..Len(web_log)
          BY <1>2, <4>1 DEF WebInv, WebTypes, Stream
        <5> QED
          BY <1>2, <5>1
      <4>3. T \in SUBSET Nat /\ web_past.taken \subseteq T
        BY <2>1, <4>2, Zenon
      <4> HIDE DEF T
      <4>4. web_past'.taken = T
        BY <1>2, <4>1, Zenon DEF Past
      <4> QED
        BY <1>2, <3>1, <4>1, <4>3, <4>4, Zenon DEF Lines
    <3> QED
      BY <3>2, <3>3, Zenon
  <2> QED
    BY <2>2, <2>3, <2>4, Zenon
<1>5. PICK T \in SUBSET Nat : web_past' = [web_past EXCEPT !.taken = T]
  BY <1>4, Zenon
<1>6. /\ web_past' \in Past /\ web_past'.started = web_past.started /\ web_past'.ended = web_past.ended
      /\ web_past'.odd = web_past.odd /\ web_past'.lines = web_past.lines
  BY <1>2, <1>5, Zenon DEF Past
<1>7. web_stream' \in Stream /\ (web_stream'.pc = "first" => web_stream'.at >= 1)
  <2>1. web_stream \in Stream /\ (web_stream.pc = "first" => web_stream.at >= 1)
    BY Zenon DEF WebInv, WebTypes
  <2>2. NoStream \in Stream /\ NoStream.pc # "first"
    BY Zenon DEF NoStream, Stream
  <2>3. CASE handle_job_log
    BY <2>3 DEF handle_job_log, Stream
  <2>4. CASE StreamTest
    BY <2>1, <2>2, <2>4, Zenon DEF StreamTest, Stream
  <2>5. CASE FirstBroken
    BY <2>2, <2>5, Zenon DEF FirstBroken
  <2>6. CASE SendNew
    BY <2>1, <2>2, <2>6, Zenon DEF SendNew, Stream
  <2>7. CASE SendFirst
    BY <2>1, <2>7 DEF SendFirst, Stream
  <2> QED
    BY <2>3, <2>4, <2>5, <2>6, <2>7, Zenon
<1>8. WebTypes'
  BY <1>1, <1>4, <1>6, <1>7, Zenon DEF WebInv, WebTypes
<1>9. LinesAreKept'
  <2>1. 1..web_past.lines \subseteq Lines(web_log) \cup web_past.taken
    BY Zenon DEF WebInv, LinesAreKept
  <2>2. 1..web_past'.lines \subseteq Lines(web_log)' \cup web_past'.taken
    BY <1>4, <1>6, <2>1, Zenon
  <2> QED
    BY <2>2, Zenon DEF LinesAreKept
<1>10. web_past'.started >= web_past.started
  BY <1>2, <1>6 DEF Past
<1>11. LivesInOrder' /\ RecordsTrue' /\ RecordsWhole'
  BY <1>1, <1>6, <1>10, QuietRecords, Zenon
<1> QED
  BY <1>8, <1>9, <1>11, Zenon DEF WebInv

\* A job's thread, up to the end of its last process, and Job.cancel.
LEMMA WorkKeeps ==
    ASSUME WebInv, NEW j \in 1..MaxJobs,
           Prepare(j) \/ Output(j) \/ ProcessExits(j) \/ ProcessWaited(j) \/ cancel(j)
    PROVE  WebInv'
<1>1. web_jobs \in [1..MaxJobs -> JobRecord] /\ web_past \in Past /\ web_log \in Seq(Nat)
  BY Zenon DEF WebInv, WebTypes
<1>2. web_history' = web_history /\ web_file' = web_file /\ web_stream' = web_stream
  BY Zenon DEF Prepare, Output, ProcessExits, ProcessWaited, cancel
<1>3. add_log(j) \/ UNCHANGED <<web_log, web_past>>
  BY Zenon DEF Prepare, Output, ProcessExits, ProcessWaited, cancel
<1>4. /\ LinesAreKept' /\ web_log' \in Seq(Nat) /\ web_past' \in Past
      /\ web_past'.started = web_past.started /\ web_past'.ended = web_past.ended /\ web_past'.odd = web_past.odd
  <2>1. CASE add_log(j)
    BY <2>1, LogKeeps, Zenon DEF WebInv
  <2>2. CASE UNCHANGED <<web_log, web_past>>
    BY <1>1, <2>2, Zenon DEF WebInv, LinesAreKept, Lines
  <2> QED
    BY <1>3, <2>1, <2>2, Zenon
<1> DEFINE old == web_jobs[j]
<1>5. old \in JobRecord
  BY <1>1, Zenon
<1>6. PICK new \in JobRecord :
        /\ web_jobs' = [web_jobs EXCEPT ![j] = new]
        /\ \/ new.pc = old.pc /\ new.list = old.list /\ new.fresh = old.fresh
           \/ new.pc \in Early /\ old.pc \in Early
  <2>1. web_jobs = [web_jobs EXCEPT ![j] = old]
    BY <1>1, Zenon
  <2>2. ASSUME Ends(j), old.pc \in Early
        PROVE  \E new \in JobRecord : /\ web_jobs' = [web_jobs EXCEPT ![j] = new]
                                      /\ new.pc \in Early /\ old.pc \in Early
    <3> DEFINE new == [NoJob EXCEPT !.pc = "record"]
    <3>1. new \in JobRecord /\ new.pc \in Early
      <4>1. <<>> \in Seq(Nat)
        OBVIOUS
      <4> QED
        BY <4>1, Zenon DEF NoJob, JobRecord, Early
    <3>2. web_jobs' = [web_jobs EXCEPT ![j] = new]
      BY <2>2, Zenon DEF Ends
    <3> HIDE DEF new
    <3> QED
      BY <2>2, <3>1, <3>2, Zenon
  <2>3. ASSUME NEW pc \in Early, NEW up \in BOOLEAN, old.pc \in Early,
               web_jobs' = [web_jobs EXCEPT ![j].pc = pc, ![j].upload = up, ![j].process = "alive"]
        PROVE  \E new \in JobRecord : /\ web_jobs' = [web_jobs EXCEPT ![j] = new]
                                      /\ new.pc \in Early /\ old.pc \in Early
    <3> DEFINE new == [old EXCEPT !.pc = pc, !.upload = up, !.process = "alive"]
    <3>1. new \in JobRecord /\ new.pc = pc
      BY <1>5, <2>3, Zenon DEF JobRecord
    <3>2. web_jobs' = [web_jobs EXCEPT ![j] = new]
      BY <1>1, <2>3, Zenon
    <3> HIDE DEF new
    <3> QED
      BY <2>3, <3>1, <3>2, Zenon
  <2>4. ASSUME NEW run \in BOOLEAN, NEW p \in {"none", "alive", "done", "failed"},
               web_jobs' = [web_jobs EXCEPT ![j].running = run, ![j].process = p]
        PROVE  \E new \in JobRecord :
                 /\ web_jobs' = [web_jobs EXCEPT ![j] = new]
                 /\ new.pc = old.pc /\ new.list = old.list /\ new.fresh = old.fresh
    <3> DEFINE new == [old EXCEPT !.running = run, !.process = p]
    <3>1. new \in JobRecord /\ new.pc = old.pc /\ new.list = old.list /\ new.fresh = old.fresh
      BY <1>5, <2>4, Zenon DEF JobRecord
    <3>2. web_jobs' = [web_jobs EXCEPT ![j] = new]
      BY <1>1, <2>4, Zenon
    <3> HIDE DEF new
    <3> QED
      BY <3>1, <3>2, Zenon
  <2>5. old.running \in BOOLEAN /\ old.upload \in BOOLEAN /\ old.process \in {"none", "alive", "done", "failed"}
        /\ terminate(j) \subseteq {"none", "alive", "done", "failed"}
    BY <1>5, Zenon DEF JobRecord, terminate
  <2>6. CASE Prepare(j)
    <3>1. old.pc \in Early
      BY <2>6, Zenon DEF Prepare, Early
    <3>2. CASE Ends(j)
      BY <2>2, <3>1, <3>2, Zenon
    <3>3. CASE \E up \in {FALSE, old.upload} :
                 web_jobs' = [web_jobs EXCEPT ![j].pc = "build", ![j].upload = up, ![j].process = "alive"]
      BY <2>3, <2>5, <3>1, <3>3, Zenon DEF Early
    <3> QED
      BY <2>6, <3>2, <3>3, Zenon DEF Prepare
  <2>7. CASE ProcessWaited(j)
    <3>1. old.pc \in Early
      BY <2>7, Zenon DEF ProcessWaited, Waiting, Early
    <3>2. CASE Ends(j)
      BY <2>2, <3>1, <3>2, Zenon
    <3>3. CASE web_jobs' = [web_jobs EXCEPT ![j].pc = "upload", ![j].process = "alive"]
      <4>1. web_jobs' = [web_jobs EXCEPT ![j].pc = "upload", ![j].upload = old.upload, ![j].process = "alive"]
        BY <1>1, <1>5, <3>3, Zenon DEF JobRecord
      <4> QED
        BY <2>3, <2>5, <3>1, <4>1, Zenon DEF Early
    <3> QED
      BY <2>7, <3>2, <3>3, Zenon DEF ProcessWaited
  <2>8. CASE cancel(j)
    BY <2>4, <2>5, <2>8, Zenon DEF cancel
  <2>9. CASE ProcessExits(j) \/ Output(j)
    <3>1. CASE web_jobs' = web_jobs
      BY <1>5, <2>1, <3>1, Zenon
    <3>2. CASE \E p \in {"none", "alive", "done", "failed"} :
                  web_jobs' = [web_jobs EXCEPT ![j].process = p]
      <4>1. PICK p \in {"none", "alive", "done", "failed"} :
                  web_jobs' = [web_jobs EXCEPT ![j].process = p]
        BY <3>2, Zenon
      <4>2. web_jobs' = [web_jobs EXCEPT ![j].running = old.running, ![j].process = p]
        BY <1>1, <1>5, <4>1, Zenon DEF JobRecord
      <4> QED
        BY <2>4, <2>5, <4>2, Zenon
    <3> QED
      BY <2>5, <2>9, <3>1, <3>2, Zenon DEF ProcessExits, Output
  <2> QED
    BY <2>6, <2>7, <2>8, <2>9, Zenon
<1> HIDE DEF old
<1>7. /\ web_jobs' \in [1..MaxJobs -> JobRecord] /\ web_jobs'[j] = new
      /\ \A k \in 1..MaxJobs : k # j => web_jobs'[k] = web_jobs[k]
  BY <1>1, <1>6, Zenon
<1>8. WebTypes'
  BY <1>2, <1>4, <1>7, Zenon DEF WebInv, WebTypes
<1>9. web_past'.started >= web_past.started /\ web_past.started \in Nat
  BY <1>1, <1>4 DEF Past
<1>10. old.pc \in Early => j \notin Lines(web_past.ended) /\ j <= web_past'.started
  <2>1. j \in Nat
    BY WebAssumption
  <2> QED
    BY <1>4, <1>9, <2>1 DEF WebInv, LivesInOrder, Early, old
<1>11. LivesInOrder' /\ RecordsTrue' /\ RecordsWhole'
  BY <1>2, <1>4, <1>6, <1>7, <1>9, <1>10, QuietRecords, Zenon DEF old
<1> QED
  BY <1>4, <1>8, <1>11, Zenon DEF WebInv

-----------------------------------------------------------------------------
(* The lists of jobs.                                                       *)

\* The jobs of a list with one more.
LEMMA OneMore ==
    ASSUME NEW s \in Seq(Nat), NEW j \in Nat
    PROVE  /\ s \o <<j>> \in Seq(Nat) /\ Len(s \o <<j>>) = Len(s) + 1 /\ Len(s) \in Nat
           /\ (s \o <<j>>)[Len(s) + 1] = j
           /\ \A i \in 1..Len(s) : (s \o <<j>>)[i] = s[i]
           /\ Lines(s \o <<j>>) = Lines(s) \cup {j}
<1> DEFINE t == s \o <<j>>
<1>1. /\ t \in Seq(Nat) /\ Len(t) = Len(s) + 1 /\ Len(s) \in Nat /\ t[Len(s) + 1] = j
      /\ \A i \in 1..Len(s) : t[i] = s[i]
  OBVIOUS
<1> DEFINE n == Len(s)
<1>2. n \in Nat /\ 1..(n + 1) = 1..n \cup {n + 1}
  OBVIOUS
<1> HIDE DEF t
<1>3. Lines(t) = Lines(s) \cup {j}
  <2>1. Lines(t) = {t[i] : i \in 1..(n + 1)} /\ Lines(s) = {s[i] : i \in 1..n}
    BY <1>1, Zenon DEF Lines
  <2>2. t[n + 1] = j /\ \A i \in 1..n : t[i] = s[i]
    BY <1>1, Zenon
  <2> HIDE DEF n
  <2> QED
    BY <1>2, <2>1, <2>2, SMTT(30)
<1> QED
  BY <1>1, <1>3, Zenon DEF t

\* A job that ended just now, at the end of a list of jobs.
LEMMA NamesGrow ==
    ASSUME NEW s \in Seq(Nat), NEW e \in Seq(Nat), NEW j \in Nat, NamesEnded(s, e), j \notin Lines(e)
    PROVE  NamesEnded(s, e \o <<j>>) /\ NamesEnded(s \o <<j>>, e \o <<j>>)
<1> DEFINE t == s \o <<j>>
           f == e \o <<j>>
<1>1. /\ t \in Seq(Nat) /\ Len(t) = Len(s) + 1 /\ Len(s) \in Nat /\ t[Len(s) + 1] = j
      /\ \A i \in 1..Len(s) : t[i] = s[i]
  BY OneMore, Zenon
<1>2. Lines(f) = Lines(e) \cup {j}
  BY OneMore, Zenon
<1> HIDE DEF t, f
<1>3. NamesEnded(s, f)
  BY <1>2, Zenon DEF NamesEnded
<1>4. ASSUME NEW i \in 1..Len(t) PROVE t[i] \in Lines(f)
  <2>1. i = Len(s) + 1 \/ i \in 1..Len(s)
    BY <1>1
  <2>2. \A m \in 1..Len(s) : s[m] \in Lines(f)
    BY <1>3, Zenon DEF NamesEnded
  <2> QED
    BY <1>1, <1>2, <2>1, <2>2, Zenon
<1>5. ASSUME NEW i \in 1..Len(t), NEW k \in 1..Len(t), i # k PROVE t[i] # t[k]
  <2>1. \A m \in 1..Len(s) : t[m] # j
    BY <1>1, Zenon DEF NamesEnded
  <2>2. CASE i = Len(s) + 1
    BY <1>1, <1>5, <2>1, <2>2
  <2>3. CASE k = Len(s) + 1
    BY <1>1, <1>5, <2>1, <2>3
  <2>4. CASE i \in 1..Len(s) /\ k \in 1..Len(s)
    BY <1>1, <1>5, <2>4, Zenon DEF NamesEnded
  <2> QED
    BY <1>1, <2>2, <2>3, <2>4, SMTT(30)
<1>6. NamesEnded(t, f)
  BY <1>4, <1>5, Zenon DEF NamesEnded
<1> QED
  BY <1>3, <1>6, Zenon DEF t, f

\* The last jobs of a list.
LEMMA LastOfList ==
    ASSUME NEW s \in Seq(Nat)
    PROVE  /\ LastJobs(s) \in Seq(Nat) /\ Len(s) \in Nat
           /\ Len(LastJobs(s)) = IF Len(s) > HistoryMax THEN HistoryMax ELSE Len(s)
           /\ \A i \in 1..Len(LastJobs(s)) : LastJobs(s)[i] = s[Len(s) - Len(LastJobs(s)) + i]
<1>1. HistoryMax \in Nat \ {0} /\ Len(s) \in Nat
  BY WebAssumption
<1>2. CASE ~(Len(s) > HistoryMax)
  BY <1>1, <1>2 DEF LastJobs
<1>3. CASE Len(s) > HistoryMax
  <2> DEFINE t == SubSeq(s, Len(s) - HistoryMax + 1, Len(s))
  <2>1. Len(s) - HistoryMax + 1 \in 1..Len(s)
    BY <1>1, <1>3
  <2>2. /\ t \in Seq(Nat) /\ Len(t) = HistoryMax
        /\ \A i \in 1..HistoryMax : t[i] = s[Len(s) - HistoryMax + i]
    <3> DEFINE n == Len(s)
               m == n - HistoryMax + 1
    <3>1. n \in Nat /\ m \in 1..n /\ n - m + 1 = HistoryMax /\ m <= n
          /\ \A i \in 1..HistoryMax : m + i - 1 = n - HistoryMax + i
      BY <1>1, <1>3
    <3> HIDE DEF m
    <3>2. /\ SubSeq(s, m, n) \in Seq(Nat) /\ Len(SubSeq(s, m, n)) = n - m + 1
          /\ \A i \in 1..(n - m + 1) : SubSeq(s, m, n)[i] = s[m + i - 1]
      BY <3>1, SubSeqProperties, SMTT(30)
    <3> QED
      BY <3>1, <3>2, Zenon DEF m
  <2>3. LastJobs(s) = t
    BY <1>3, Zenon DEF LastJobs
  <2> HIDE DEF t
  <2> QED
    BY <1>1, <1>3, <2>2, <2>3, Zenon
<1> QED
  BY <1>2, <1>3, Zenon

\* They are as true as the list.
LEMMA LastNames ==
    ASSUME NEW s \in Seq(Nat), NEW e, NamesEnded(s, e)
    PROVE  NamesEnded(LastJobs(s), e)
<1> DEFINE t == LastJobs(s)
           d == Len(s) - Len(t)
<1>1. t \in Seq(Nat) /\ Len(s) \in Nat /\ Len(t) \in Nat /\ d \in Nat /\ Len(t) + d = Len(s)
      /\ \A i \in 1..Len(t) : t[i] = s[d + i]
  BY LastOfList, WebAssumption, SMTT(30)
<1> HIDE DEF t, d
<1>2. \A i \in 1..Len(t) : d + i \in 1..Len(s)
  BY <1>1
<1>3. \A i, k \in 1..Len(t) : i # k => d + i # d + k
  BY <1>1
<1>4. NamesEnded(t, e)
  BY <1>1, <1>2, <1>3, Zenon DEF NamesEnded
<1> QED
  BY <1>4, Zenon DEF t

\* With one job more at the end of both, the last jobs are still the last.
LEMMA LastGrows ==
    ASSUME NEW s \in Seq(Nat), NEW e \in Seq(Nat), NEW j \in Nat, IsLast(s, e)
    PROVE  IsLast(LastJobs(s \o <<j>>), e \o <<j>>)
<1> DEFINE t == s \o <<j>>
           f == e \o <<j>>
           l == LastJobs(t)
           a == Len(s)
           b == Len(e)
<1>1. /\ t \in Seq(Nat) /\ Len(t) = a + 1 /\ a \in Nat /\ t[a + 1] = j
      /\ \A i \in 1..a : t[i] = s[i]
  BY OneMore, Zenon
<1>2. /\ f \in Seq(Nat) /\ Len(f) = b + 1 /\ b \in Nat /\ f[b + 1] = j
      /\ \A i \in 1..b : f[i] = e[i]
  BY OneMore, Zenon
<1> HIDE DEF t, f
<1>3. /\ l \in Seq(Nat) /\ Len(l) = IF Len(t) > HistoryMax THEN HistoryMax ELSE Len(t)
      /\ \A i \in 1..Len(l) : l[i] = t[Len(t) - Len(l) + i]
  BY <1>1, LastOfList, Zenon
<1>4. /\ a <= b /\ (a = HistoryMax \/ (a < HistoryMax /\ b = a))
      /\ \A i \in 1..a : s[i] = e[b - a + i]
  BY Zenon DEF IsLast
<1>5. HistoryMax \in Nat \ {0}
  BY WebAssumption, Zenon
<1> DEFINE m == Len(l)
<1> HIDE DEF l, a, b
<1>6. /\ m \in Nat /\ m <= b + 1 /\ m <= a + 1
      /\ m = HistoryMax \/ (m < HistoryMax /\ b + 1 = m)
  BY <1>1, <1>2, <1>3, <1>4, <1>5, SMTT(30)
<1>7. ASSUME NEW i \in 1..m PROVE l[i] = f[b + 1 - m + i]
  <2> HIDE DEF m
  <2>1. l[i] = t[a + 1 - m + i]
    <3>1. i \in 1..Len(l) /\ Len(t) - Len(l) + i = a + 1 - m + i
      BY <1>1 DEF m
    <3>2. l[i] = t[Len(t) - Len(l) + i]
      BY <1>3, <3>1, Zenon
    <3> QED
      BY <3>1, <3>2, Zenon
  <2>2. CASE i = m
    <3>1. a + 1 - m + i = a + 1 /\ b + 1 - m + i = b + 1
      BY <1>1, <1>2, <1>6, <2>2
    <3> QED
      BY <1>1, <1>2, <2>1, <3>1, Zenon
  <2>3. CASE i # m
    <3> DEFINE p == a + 1 - m + i
               q == b + 1 - m + i
    <3>1. p \in 1..a /\ q \in 1..b /\ q = b - a + p
      BY <1>1, <1>2, <1>4, <1>6, <2>3
    <3> HIDE DEF p, q
    <3>2. t[p] = s[p] /\ s[p] = e[b - a + p] /\ f[q] = e[q]
      BY <1>1, <1>2, <1>4, <3>1, Zenon
    <3> QED
      BY <2>1, <3>1, <3>2, Zenon DEF p, q
  <2> QED
    BY <2>2, <2>3, Zenon
<1>8. IsLast(l, f)
  BY <1>2, <1>6, <1>7 DEF IsLast, m
<1> QED
  BY <1>8, Zenon DEF l, t, f

-----------------------------------------------------------------------------
(* Recording a job.                                                         *)

\* The step of a thread that is recording: the rest of the invariant follows
\* from what the step makes of its own record, the history and the file.
LEMMA RecordStep ==
    ASSUME WebInv, NEW j \in 1..MaxJobs, NEW new \in JobRecord,
           web_jobs' \in [1..MaxJobs -> JobRecord], web_jobs'[j] = new,
           \A k \in 1..MaxJobs : k # j => /\ web_jobs'[k].pc = web_jobs[k].pc
                                         /\ web_jobs'[k].list = web_jobs[k].list,
           web_jobs[j].pc # "none", new.pc \notin Early,
           new.pc = "append" => web_jobs[j].pc = "record" /\ new.list = <<j>>,
           new.pc \in {"assign", "open", "write"} => NamesEnded(new.list, web_past.ended),
           web_history' \in Seq(Nat), web_file' \in Seq(Nat),
           NamesEnded(web_history', web_past.ended),
           web_file' = Torn \/ NamesEnded(web_file', web_past.ended),
           web_past' \in Past, web_past'.started = web_past.started,
           web_past'.ended = web_past.ended, web_past'.lines = web_past.lines,
           web_past'.taken = web_past.taken, UNCHANGED <<web_log, web_stream>>,
           RecordsWhole'
    PROVE  WebInv'
<1>1. WebTypes'
  BY Zenon DEF WebInv, WebTypes
<1>2. LinesAreKept'
  BY SMTT(30) DEF WebInv, LinesAreKept, Lines
<1>3. LivesInOrder'
  BY SMTT(30) DEF WebInv, LivesInOrder, Early
<1>4. RecordsTrue'
  BY Zenon DEF WebInv, RecordsTrue
<1> QED
  BY <1>1, <1>2, <1>3, <1>4, Zenon DEF WebInv

\* One thread is recording, and has come as far as it says.
LEMMA OneRecorder ==
    ASSUME WebInv, NEW j \in 1..MaxJobs, Recording(j)',
           \A k \in 1..MaxJobs : k # j => web_jobs'[k].pc = web_jobs[k].pc,
           ~web_past'.odd => /\ Recorded(j)'
                             /\ \A k \in 1..MaxJobs : Recording(k) => k = j
    PROVE  RecordsWhole'
<1> SUFFICES ASSUME ~web_past'.odd PROVE RecordsWhole'
  BY Zenon DEF RecordsWhole
<1>1. \A k \in 1..MaxJobs : k # j => ~Recording(k)'
  BY Zenon DEF Recording
<1>2. \A k \in 1..MaxJobs : k # j => Recorded(k)'
  BY <1>1, Zenon DEF Recording, Recorded
<1> QED
  BY <1>1, <1>2, Zenon DEF RecordsWhole

\* The record of a thread replaced.
LEMMA ThreadMoves ==
    ASSUME WebInv, NEW j \in 1..MaxJobs, NEW new \in JobRecord,
           web_jobs' = [web_jobs EXCEPT ![j] = new]
    PROVE  /\ web_jobs' \in [1..MaxJobs -> JobRecord] /\ web_jobs'[j] = new
           /\ \A k \in 1..MaxJobs : k # j => web_jobs'[k] = web_jobs[k]
BY Zenon DEF WebInv, WebTypes

\* The entry is made, for the list it will be appended to.
LEMMA LoadKeeps ==
    ASSUME WebInv, NEW j \in 1..MaxJobs, RecordLoad(j)
    PROVE  WebInv'
<1> DEFINE old == web_jobs[j]
           one == <<j>>
           new == [old EXCEPT !.pc = "append", !.fresh = TRUE, !.list = one]
           odd == web_past.odd \/ \E k \in 1..MaxJobs : Recording(k)
<1>1. web_jobs \in [1..MaxJobs -> JobRecord] /\ old \in JobRecord /\ web_past \in Past
  BY Zenon DEF WebInv, WebTypes
<1>2. one \in Seq(Nat)
  BY WebAssumption
<1>3. old.pc = "record" /\ web_jobs' = [web_jobs EXCEPT ![j] = new]
  BY <1>1, Zenon DEF RecordLoad
<1>4. web_past' = [web_past EXCEPT !.odd = odd] /\ odd \in BOOLEAN
  BY <1>1, Zenon DEF RecordLoad, Past
<1>5. UNCHANGED <<web_log, web_history, web_file, web_stream>>
  BY Zenon DEF RecordLoad
<1> HIDE DEF one, old, odd
<1>6. new \in JobRecord /\ new.pc = "append" /\ new.fresh /\ new.list = one
  BY <1>1, <1>2, Zenon DEF JobRecord
<1> HIDE DEF new
<1>7. /\ web_jobs' \in [1..MaxJobs -> JobRecord] /\ web_jobs'[j] = new
      /\ \A k \in 1..MaxJobs : k # j => web_jobs'[k] = web_jobs[k]
  BY <1>3, <1>6, ThreadMoves, Zenon
<1>8. /\ web_past' \in Past /\ web_past'.started = web_past.started
      /\ web_past'.ended = web_past.ended /\ web_past'.lines = web_past.lines
      /\ web_past'.taken = web_past.taken /\ web_past'.odd = odd
  BY <1>1, <1>4, Zenon DEF Past
<1>9. RecordsWhole'
  <2>1. ASSUME ~odd PROVE Recorded(j)' /\ \A k \in 1..MaxJobs : ~Recording(k)
    <3>1. ~web_past.odd /\ \A k \in 1..MaxJobs : ~Recording(k)
      BY <2>1, Zenon DEF odd
    <3>2. IsLast(web_history, web_past.ended)
      BY <3>1, Zenon DEF WebInv, RecordsWhole
    <3> QED
      BY <1>5, <1>6, <1>7, <1>8, <3>1, <3>2, Zenon DEF Recorded
  <2>2. Recording(j)'
    BY <1>6, <1>7, Zenon DEF Recording
  <2> QED
    BY <1>7, <1>8, <2>1, <2>2, OneRecorder, Zenon
<1>10. /\ web_history \in Seq(Nat) /\ web_file \in Seq(Nat)
       /\ NamesEnded(web_history, web_past.ended)
       /\ web_file = Torn \/ NamesEnded(web_file, web_past.ended)
  BY WebFields, Zenon
<1> QED
  BY <1>3, <1>5, <1>6, <1>7, <1>8, <1>9, <1>10, RecordStep, Zenon DEF one, old, Early

\* The job takes the last entries of the history it keeps.
LEMMA SliceKeeps ==
    ASSUME WebInv, NEW j \in 1..MaxJobs, RecordSlice(j)
    PROVE  WebInv'
<1> DEFINE old == web_jobs[j]
           list == LastJobs(web_history)
           new == [old EXCEPT !.pc = "assign", !.list = list]
<1>1. /\ web_jobs \in [1..MaxJobs -> JobRecord] /\ old \in JobRecord /\ web_past \in Past
      /\ web_history \in Seq(Nat) /\ web_file \in Seq(Nat)
      /\ NamesEnded(web_history, web_past.ended)
      /\ web_file = Torn \/ NamesEnded(web_file, web_past.ended)
  BY Zenon DEF WebInv, WebTypes, RecordsTrue
<1>2. list \in Seq(Nat) /\ NamesEnded(list, web_past.ended)
  BY <1>1, LastOfList, LastNames, Zenon
<1>3. old.pc = "slice" /\ web_jobs' = [web_jobs EXCEPT ![j] = new]
  BY <1>1, Zenon DEF RecordSlice
<1>4. UNCHANGED <<web_log, web_history, web_file, web_stream, web_past>>
  BY Zenon DEF RecordSlice
<1> HIDE DEF old, list
<1>5. new \in JobRecord /\ new.pc = "assign" /\ new.list = list
  BY <1>1, <1>2, Zenon DEF JobRecord
<1> HIDE DEF new
<1>6. /\ web_jobs' \in [1..MaxJobs -> JobRecord] /\ web_jobs'[j] = new
      /\ \A k \in 1..MaxJobs : k # j => web_jobs'[k] = web_jobs[k]
  BY <1>3, <1>5, ThreadMoves, Zenon
<1>7. RecordsWhole'
  <2>1. Recording(j) /\ Recording(j)'
    BY <1>3, <1>5, <1>6, Zenon DEF Recording, old
  <2>2. ASSUME ~web_past.odd PROVE Recorded(j)' /\ \A k \in 1..MaxJobs : Recording(k) => k = j
    <3>1. IsLast(list, web_past.ended) /\ \A k \in 1..MaxJobs : Recording(k) => k = j
      BY <1>3, <2>1, <2>2, Zenon DEF WebInv, RecordsWhole, Recorded, old, list
    <3> QED
      BY <1>4, <1>5, <1>6, <3>1, Zenon DEF Recorded
  <2> QED
    BY <1>4, <1>6, <2>1, <2>2, OneRecorder, Zenon
<1> QED
  BY <1>1, <1>2, <1>3, <1>4, <1>5, <1>6, <1>7, RecordStep, Zenon DEF old, Early

\* The slice becomes the history; a list another thread had looked up is not
\* the history any more.
LEMMA AssignKeeps ==
    ASSUME WebInv, NEW j \in 1..MaxJobs, RecordAssign(j)
    PROVE  WebInv'
<1> DEFINE old == web_jobs[j]
           none == <<>>
           new == [old EXCEPT !.pc = "dump", !.list = none]
           Stale(k) == [web_jobs[k] EXCEPT !.fresh = FALSE]
<1>1. /\ web_jobs \in [1..MaxJobs -> JobRecord] /\ old \in JobRecord /\ web_past \in Past
      /\ web_history \in Seq(Nat) /\ web_file \in Seq(Nat)
      /\ NamesEnded(web_history, web_past.ended)
      /\ web_file = Torn \/ NamesEnded(web_file, web_past.ended)
  BY WebFields, Zenon
<1>2. old.pc = "assign" /\ web_history' = old.list /\ none \in Seq(Nat)
      /\ web_jobs' = [k \in 1..MaxJobs |-> IF k = j THEN new ELSE Stale(k)]
  <2>1. web_jobs' = [k \in 1..MaxJobs |-> IF k = j THEN [web_jobs[k] EXCEPT !.pc = "dump", !.list = none]
                                          ELSE Stale(k)]
    BY Zenon DEF RecordAssign
  <2> HIDE DEF Stale, none
  <2>2. web_jobs' = [k \in 1..MaxJobs |-> IF k = j THEN new ELSE Stale(k)]
    BY <2>1, Zenon
  <2>3. none \in Seq(Nat)
    BY DEF none
  <2> QED
    BY <2>2, <2>3, Zenon DEF RecordAssign
<1>3. UNCHANGED <<web_log, web_file, web_stream, web_past>>
  BY Zenon DEF RecordAssign
<1>4. old.list \in Seq(Nat) /\ NamesEnded(old.list, web_past.ended)
  BY <1>1, <1>2, Zenon DEF WebInv, RecordsTrue, JobRecord
<1> HIDE DEF none
<1>5. new \in JobRecord /\ new.pc = "dump"
  BY <1>1, <1>2, Zenon DEF JobRecord
<1>6. \A k \in 1..MaxJobs : /\ Stale(k) \in JobRecord /\ Stale(k).pc = web_jobs[k].pc
                             /\ Stale(k).list = web_jobs[k].list
  BY <1>1, Zenon DEF JobRecord
<1> HIDE DEF old, new, Stale
<1>7. /\ web_jobs' \in [1..MaxJobs -> JobRecord] /\ web_jobs'[j] = new
      /\ \A k \in 1..MaxJobs : k # j => web_jobs'[k] = Stale(k)
  BY <1>2, <1>5, <1>6, Zenon
<1>8. \A k \in 1..MaxJobs : k # j => /\ web_jobs'[k].pc = web_jobs[k].pc
                                     /\ web_jobs'[k].list = web_jobs[k].list
  BY <1>6, <1>7, Zenon
<1>9. RecordsWhole'
  <2>1. Recording(j) /\ Recording(j)'
    BY <1>2, <1>5, <1>7, Zenon DEF Recording, old
  <2>2. ASSUME ~web_past.odd PROVE Recorded(j)' /\ \A k \in 1..MaxJobs : Recording(k) => k = j
    <3>1. IsLast(old.list, web_past.ended) /\ \A k \in 1..MaxJobs : Recording(k) => k = j
      BY <1>2, <2>1, <2>2, Zenon DEF WebInv, RecordsWhole, Recorded, old
    <3> QED
      BY <1>2, <1>3, <1>5, <1>7, <3>1, Zenon DEF Recorded
  <2> QED
    BY <1>3, <1>8, <2>1, <2>2, OneRecorder, Zenon
<1> QED
  BY <1>1, <1>2, <1>3, <1>4, <1>5, <1>7, <1>8, <1>9, RecordStep, Zenon DEF old, Early

\* The job forms the text of the file from the history.
LEMMA DumpKeeps ==
    ASSUME WebInv, NEW j \in 1..MaxJobs, RecordDump(j)
    PROVE  WebInv'
<1> DEFINE old == web_jobs[j]
           new == [old EXCEPT !.pc = "open", !.list = web_history]
<1>1. /\ web_jobs \in [1..MaxJobs -> JobRecord] /\ old \in JobRecord /\ web_past \in Past
      /\ web_history \in Seq(Nat) /\ web_file \in Seq(Nat)
      /\ NamesEnded(web_history, web_past.ended)
      /\ web_file = Torn \/ NamesEnded(web_file, web_past.ended)
  BY WebFields, Zenon
<1>2. old.pc = "dump" /\ web_jobs' = [web_jobs EXCEPT ![j] = new]
  BY <1>1, Zenon DEF RecordDump
<1>3. UNCHANGED <<web_log, web_history, web_file, web_stream, web_past>>
  BY Zenon DEF RecordDump
<1> HIDE DEF old
<1>4. new \in JobRecord /\ new.pc = "open" /\ new.list = web_history
  BY <1>1, Zenon DEF JobRecord
<1> HIDE DEF new
<1>5. /\ web_jobs' \in [1..MaxJobs -> JobRecord] /\ web_jobs'[j] = new
      /\ \A k \in 1..MaxJobs : k # j => web_jobs'[k] = web_jobs[k]
  BY <1>2, <1>4, ThreadMoves, Zenon
<1>6. RecordsWhole'
  <2>1. Recording(j) /\ Recording(j)'
    BY <1>2, <1>4, <1>5, Zenon DEF Recording, old
  <2>2. ASSUME ~web_past.odd PROVE Recorded(j)' /\ \A k \in 1..MaxJobs : Recording(k) => k = j
    <3>1. IsLast(web_history, web_past.ended) /\ \A k \in 1..MaxJobs : Recording(k) => k = j
      BY <1>2, <2>1, <2>2, Zenon DEF WebInv, RecordsWhole, Recorded, old
    <3> QED
      BY <1>3, <1>4, <1>5, <3>1, Zenon DEF Recorded
  <2> QED
    BY <1>3, <1>5, <2>1, <2>2, OneRecorder, Zenon
<1> QED
  BY <1>1, <1>2, <1>3, <1>4, <1>5, <1>6, RecordStep, Zenon DEF old, Early

\* Opening the file cuts it.
LEMMA OpenFileKeeps ==
    ASSUME WebInv, NEW j \in 1..MaxJobs, RecordOpen(j)
    PROVE  WebInv'
<1> DEFINE old == web_jobs[j]
           new == [old EXCEPT !.pc = "write"]
<1>1. /\ web_jobs \in [1..MaxJobs -> JobRecord] /\ old \in JobRecord /\ web_past \in Past
      /\ web_history \in Seq(Nat) /\ web_file \in Seq(Nat)
      /\ NamesEnded(web_history, web_past.ended)
      /\ web_file = Torn \/ NamesEnded(web_file, web_past.ended)
  BY WebFields, Zenon
<1>2. old.pc = "open" /\ web_jobs' = [web_jobs EXCEPT ![j] = new]
  BY <1>1, Zenon DEF RecordOpen
<1>3. UNCHANGED <<web_log, web_history, web_stream, web_past>> /\ web_file' = Torn /\ Torn \in Seq(Nat)
  BY DEF RecordOpen, Torn
<1>4. NamesEnded(old.list, web_past.ended)
  BY <1>1, <1>2, Zenon DEF WebInv, RecordsTrue
<1> HIDE DEF old
<1>5. new \in JobRecord /\ new.pc = "write" /\ new.list = old.list
  BY <1>1, Zenon DEF JobRecord
<1> HIDE DEF new
<1>6. /\ web_jobs' \in [1..MaxJobs -> JobRecord] /\ web_jobs'[j] = new
      /\ \A k \in 1..MaxJobs : k # j => web_jobs'[k] = web_jobs[k]
  BY <1>2, <1>5, ThreadMoves, Zenon
<1>7. RecordsWhole'
  <2>1. Recording(j) /\ Recording(j)'
    BY <1>2, <1>5, <1>6, Zenon DEF Recording, old
  <2>2. ASSUME ~web_past.odd PROVE Recorded(j)' /\ \A k \in 1..MaxJobs : Recording(k) => k = j
    <3>1. /\ IsLast(web_history, web_past.ended) /\ old.list = web_history
          /\ \A k \in 1..MaxJobs : Recording(k) => k = j
      BY <1>2, <2>1, <2>2, Zenon DEF WebInv, RecordsWhole, Recorded, old
    <3> QED
      BY <1>3, <1>5, <1>6, <3>1, Zenon DEF Recorded
  <2> QED
    BY <1>3, <1>6, <2>1, <2>2, OneRecorder, Zenon
<1> QED
  BY <1>1, <1>2, <1>3, <1>4, <1>5, <1>6, <1>7, RecordStep, Zenon DEF old, Early

\* The text is written, and the thread is done.
LEMMA JobWriteKeeps ==
    ASSUME WebInv, NEW j \in 1..MaxJobs, RecordWrite(j)
    PROVE  WebInv'
<1> DEFINE old == web_jobs[j]
           new == [NoJob EXCEPT !.pc = "done"]
<1>1. /\ web_jobs \in [1..MaxJobs -> JobRecord] /\ old \in JobRecord /\ web_past \in Past
      /\ web_history \in Seq(Nat) /\ web_file \in Seq(Nat)
      /\ NamesEnded(web_history, web_past.ended)
      /\ web_file = Torn \/ NamesEnded(web_file, web_past.ended)
  BY WebFields, Zenon
<1>2. /\ old.pc = "write" /\ web_jobs' = [web_jobs EXCEPT ![j] = new]
      /\ web_file' \in {old.list} \cup (IF web_file = Torn THEN {} ELSE {Torn})
  BY <1>1, Zenon DEF RecordWrite
<1>3. UNCHANGED <<web_log, web_history, web_stream, web_past>>
  BY Zenon DEF RecordWrite
<1>4. /\ NamesEnded(old.list, web_past.ended) /\ old.list \in Seq(Nat) /\ Torn \in Seq(Nat)
  <2>1. NamesEnded(old.list, web_past.ended)
    BY <1>2, Zenon DEF WebInv, RecordsTrue
  <2>2. old.list \in Seq(Nat)
    BY <1>1, Zenon DEF JobRecord
  <2>3. Torn \in Seq(Nat)
    BY DEF Torn
  <2> QED
    BY <2>1, <2>2, <2>3, Zenon
<1>5. new \in JobRecord /\ new.pc = "done"
  <2>1. <<>> \in Seq(Nat)
    OBVIOUS
  <2> QED
    BY <2>1, Zenon DEF NoJob, JobRecord, Early
<1> HIDE DEF new, old
<1>6. /\ web_jobs' \in [1..MaxJobs -> JobRecord] /\ web_jobs'[j] = new
      /\ \A k \in 1..MaxJobs : k # j => web_jobs'[k] = web_jobs[k]
  BY <1>2, <1>5, ThreadMoves, Zenon
<1>7. RecordsWhole'
  <2>1. Recording(j) /\ ~Recording(j)'
    BY <1>2, <1>5, <1>6, Zenon DEF Recording, old
  <2> SUFFICES ASSUME ~web_past'.odd PROVE RecordsWhole'
    BY Zenon DEF RecordsWhole
  <2>2. /\ IsLast(web_history, web_past.ended) /\ old.list = web_history /\ web_file = Torn
        /\ \A k \in 1..MaxJobs : Recording(k) => k = j
    BY <1>2, <1>3, <2>1, Zenon DEF WebInv, RecordsWhole, Recorded, old
  <2>3. \A k \in 1..MaxJobs : ~Recording(k)'
    BY <1>6, <2>1, <2>2, Zenon DEF Recording
  <2>4. \A k \in 1..MaxJobs : Recorded(k)'
    BY <2>3, Zenon DEF Recording, Recorded
  <2>5. web_file' = web_history' /\ IsLast(web_history', web_past'.ended)
    BY <1>2, <1>3, <2>2, Zenon
  <2> QED
    BY <2>3, <2>4, <2>5, Zenon DEF RecordsWhole
<1>8. web_file' \in Seq(Nat) /\ (web_file' = Torn \/ NamesEnded(web_file', web_past.ended))
  BY <1>2, <1>4, Zenon
<1> QED
  BY <1>1, <1>2, <1>3, <1>5, <1>6, <1>7, <1>8, RecordStep, Zenon DEF old, Early

\* The job is entered behind the others, in the history and among those ended.
LEMMA AppendKeeps ==
    ASSUME WebInv, NEW j \in 1..MaxJobs, RecordAppend(j)
    PROVE  WebInv'
<1> DEFINE old == web_jobs[j]
           none == <<>>
           one == <<j>>
           new == [old EXCEPT !.pc = "slice", !.list = none]
           e == web_past.ended
           now == e \o one
           more == web_history \o one
<1>1. /\ web_jobs \in [1..MaxJobs -> JobRecord] /\ old \in JobRecord /\ web_past \in Past
      /\ web_history \in Seq(Nat) /\ web_file \in Seq(Nat) /\ e \in Seq(Nat) /\ j \in Nat /\ j # 0
  <2>1. j \in Nat /\ j # 0
    BY WebAssumption
  <2> QED
    BY <2>1, Zenon DEF WebInv, WebTypes, Past
<1>2. NamesEnded(web_history, e) /\ (web_file = Torn \/ NamesEnded(web_file, e))
  BY Zenon DEF WebInv, RecordsTrue
<1>3. old.pc = "append" /\ old.list = one /\ j \notin Lines(e)
  BY Zenon DEF RecordAppend, WebInv, LivesInOrder
<1>4. /\ web_jobs' = [web_jobs EXCEPT ![j] = new]
      /\ web_history' = IF old.fresh THEN more ELSE web_history
      /\ web_past' = [web_past EXCEPT !.ended = now]
      /\ UNCHANGED <<web_log, web_file, web_stream>>
  <2>1. /\ web_history' = IF old.fresh THEN web_history \o old.list ELSE web_history
        /\ web_past' = [web_past EXCEPT !.ended = @ \o old.list]
        /\ web_jobs' = [web_jobs EXCEPT ![j].pc = "slice", ![j].list = none]
        /\ UNCHANGED <<web_log, web_file, web_stream>>
    BY Zenon DEF RecordAppend
  <2> HIDE DEF none
  <2>2. web_jobs' = [web_jobs EXCEPT ![j] = new]
    BY <1>1, <2>1, Zenon
  <2> HIDE DEF old, one, new
  <2> QED
    BY <1>3, <2>1, <2>2, Zenon
<1>5. none \in Seq(Nat)
  OBVIOUS
<1>6. /\ now \in Seq(Nat) /\ more \in Seq(Nat) /\ Lines(now) = Lines(e) \cup {j}
  BY <1>1, OneMore, Zenon
<1>7. /\ NamesEnded(more, now) /\ NamesEnded(web_history, now)
      /\ NamesEnded(web_file, e) => NamesEnded(web_file, now)
      /\ \A k \in 1..MaxJobs : web_jobs[k].pc \in {"assign", "open", "write"} =>
            NamesEnded(web_jobs[k].list, now)
  <2>1. \A k \in 1..MaxJobs :
          /\ web_jobs[k].list \in Seq(Nat)
          /\ web_jobs[k].pc \in {"assign", "open", "write"} => NamesEnded(web_jobs[k].list, e)
    BY <1>1, Zenon DEF WebInv, RecordsTrue, JobRecord
  <2>2. \A s \in Seq(Nat) : NamesEnded(s, e) => NamesEnded(s, now) /\ NamesEnded(s \o one, now)
    BY <1>1, <1>3, NamesGrow, Zenon
  <2> HIDE DEF now, e
  <2>3. NamesEnded(more, now) /\ NamesEnded(web_history, now)
    BY <1>1, <1>2, <2>2, Zenon
  <2>4. NamesEnded(web_file, e) => NamesEnded(web_file, now)
    BY <1>1, <2>2, Zenon
  <2>5. ASSUME NEW k \in 1..MaxJobs, web_jobs[k].pc \in {"assign", "open", "write"}
        PROVE  NamesEnded(web_jobs[k].list, now)
    <3> DEFINE l == web_jobs[k].list
    <3>1. l \in Seq(Nat) /\ NamesEnded(l, e)
      BY <2>1, <2>5, Zenon
    <3> HIDE DEF l
    <3>2. NamesEnded(l, now)
      BY ONLY <2>2, <3>1, Zenon
    <3> QED
      BY <3>2, Zenon DEF l
  <2> HIDE DEF more
  <2> QED
    BY ONLY <2>3, <2>4, <2>5, Zenon
<1>8. IsLast(web_history, e) => IsLast(LastJobs(more), now)
  BY <1>1, LastGrows, Zenon
<1> HIDE DEF none, old, now, more
<1>9. new \in JobRecord /\ new.pc = "slice"
  BY <1>1, <1>5, Zenon DEF JobRecord
<1> HIDE DEF new
<1>10. /\ web_jobs' \in [1..MaxJobs -> JobRecord] /\ web_jobs'[j] = new
       /\ \A k \in 1..MaxJobs : k # j => web_jobs'[k] = web_jobs[k]
  BY <1>4, <1>9, ThreadMoves, Zenon
<1>11. /\ web_past' \in Past /\ web_past'.started = web_past.started
       /\ web_past'.ended = now /\ web_past'.lines = web_past.lines
       /\ web_past'.taken = web_past.taken /\ web_past'.odd = web_past.odd
  BY <1>1, <1>4, <1>6, Zenon DEF Past
<1>12. web_history' \in Seq(Nat) /\ NamesEnded(web_history', now)
  BY <1>1, <1>4, <1>6, <1>7, Zenon
<1>13. WebTypes'
  BY <1>4, <1>10, <1>11, <1>12, Zenon DEF WebInv, WebTypes
<1>14. LinesAreKept'
  BY <1>4, <1>11, Zenon DEF WebInv, LinesAreKept, Lines
<1>15. LivesInOrder'
  <2>1. ~(j > web_past.started)
    BY <1>3, Zenon DEF WebInv, LivesInOrder, old
  <2> QED
    BY <1>1, <1>6, <1>9, <1>10, <1>11, <2>1, SMTT(30) DEF WebInv, LivesInOrder, Early, e
<1>16. RecordsTrue'
  BY <1>2, <1>4, <1>7, <1>9, <1>10, <1>11, <1>12, SMTT(30) DEF RecordsTrue
<1>17. RecordsWhole'
  <2>1. Recording(j) /\ Recording(j)'
    BY <1>3, <1>9, <1>10, Zenon DEF Recording, old
  <2>2. ASSUME ~web_past.odd PROVE Recorded(j)' /\ \A k \in 1..MaxJobs : Recording(k) => k = j
    <3>1. /\ old.fresh /\ IsLast(web_history, e) /\ \A k \in 1..MaxJobs : Recording(k) => k = j
      BY <1>3, <2>1, <2>2, Zenon DEF WebInv, RecordsWhole, Recorded, old
    <3>2. IsLast(LastJobs(web_history'), web_past'.ended)
      BY <1>4, <1>8, <1>11, <3>1, Zenon
    <3> QED
      BY <1>9, <1>10, <3>1, <3>2, Zenon DEF Recorded
  <2> QED
    BY <1>10, <1>11, <2>1, <2>2, OneRecorder, Zenon
<1> QED
  BY <1>13, <1>14, <1>15, <1>16, <1>17, Zenon DEF WebInv

\* The server is started again.
LEMMA RestartKeeps ==
    ASSUME WebInv, Restarted
    PROVE  WebInv'
<1> DEFINE none == <<>>
           odd == web_past.odd \/ \E k \in 1..MaxJobs : Recording(k)
           e == web_past.ended
<1>1. /\ web_past \in Past /\ web_history \in Seq(Nat) /\ web_file \in Seq(Nat)
      /\ NamesEnded(web_history, e)
      /\ web_file = Torn \/ NamesEnded(web_file, e)
  BY WebFields, Zenon
<1>2. /\ web_jobs' = [j \in 1..MaxJobs |-> NoJob] /\ web_log' = none /\ web_stream' = NoStream
      /\ web_history' = IF web_file = Torn THEN none ELSE web_file
      /\ web_past' = [web_past EXCEPT !.odd = odd, !.lines = 0, !.taken = {}]
      /\ web_file' = web_file
  BY Zenon DEF Restarted
<1>3. none \in Seq(Nat) /\ NamesEnded(none, e)
  BY DEF NamesEnded
<1>4. NoJob \in JobRecord /\ NoJob.pc = "none"
  BY <1>3, Zenon DEF NoJob, JobRecord
<1>5. odd \in BOOLEAN
  BY <1>1, Zenon DEF Past
<1>6. NoStream \in Stream /\ NoStream.pc # "first"
  BY Zenon DEF NoStream, Stream
<1> HIDE DEF none
<1>7. web_history' \in Seq(Nat) /\ NamesEnded(web_history', e)
  BY <1>1, <1>2, <1>3, Zenon
<1>8. \A j \in 1..MaxJobs : web_jobs'[j].pc = "none"
  BY <1>2, <1>4, Zenon
<1>9. ASSUME ~odd PROVE web_file' = web_history' /\ IsLast(web_history', e)
  <2>1. ~web_past.odd /\ \A k \in 1..MaxJobs : ~Recording(k)
    BY <1>9, Zenon
  <2>2. IsLast(web_history, e) /\ web_file = web_history
    BY <2>1, Zenon DEF WebInv, RecordsWhole
  <2>3. web_file # Torn
    <3>1. 0 \notin Lines(e)
      BY Zenon DEF WebInv, LivesInOrder
    <3>2. Len(Torn) = 1 /\ Torn[1] = 0
      BY Zenon DEF Torn
    <3>3. ASSUME web_file = Torn PROVE 0 \in Lines(e)
      <4>1. NamesEnded(Torn, e) /\ 1 \in 1..Len(Torn)
        BY <1>1, <2>2, <3>2, <3>3
      <4> QED
        BY <3>2, <4>1, Zenon DEF NamesEnded
    <3> QED
      BY <3>1, <3>3, Zenon
  <2> QED
    BY <1>2, <2>2, <2>3, Zenon
<1> HIDE DEF odd
<1>10. /\ web_past' \in Past /\ web_past'.started = web_past.started
       /\ web_past'.ended = e /\ web_past'.lines = 0 /\ web_past'.odd = odd
  BY <1>1, <1>2, <1>5, Zenon DEF Past
<1>11. WebTypes'
  BY <1>1, <1>2, <1>3, <1>4, <1>6, <1>7, <1>10, Zenon DEF WebTypes
<1>12. LinesAreKept'
  BY <1>10 DEF LinesAreKept
<1>13. LivesInOrder'
  BY <1>8, <1>10, Zenon DEF WebInv, LivesInOrder, Early
<1>14. RecordsTrue'
  BY <1>1, <1>2, <1>7, <1>8, <1>10, Zenon DEF RecordsTrue
<1>15. RecordsWhole'
  <2>1. \A j \in 1..MaxJobs : ~Recording(j)' /\ Recorded(j)'
    BY <1>8, Zenon DEF Recording, Recorded
  <2> QED
    BY <1>9, <1>10, <2>1, Zenon DEF RecordsWhole
<1> QED
  BY <1>11, <1>12, <1>13, <1>14, <1>15, Zenon DEF WebInv

\* Every step keeps the invariant.
LEMMA WebNextInv == WebInv /\ [WebNext]_web_vars => WebInv'
<1> SUFFICES ASSUME WebInv, [WebNext]_web_vars PROVE WebInv'
  BY Zenon
<1>1. CASE \E upload \in BOOLEAN : handle_jobs_post(upload)
  BY <1>1, PostJobKeeps, Zenon
<1>2. CASE handle_job_log \/ SendFirst \/ StreamTest \/ SendNew \/ FirstBroken
  BY <1>2, StreamKeeps, Zenon
<1>3. CASE \E j \in 1..MaxJobs : JobStep(j) \/ cancel(j)
  <2> PICK j \in 1..MaxJobs : JobStep(j) \/ cancel(j)
    BY <1>3, Zenon
  <2> QED
    BY WorkKeeps, LoadKeeps, AppendKeeps, SliceKeeps, AssignKeeps, DumpKeeps, OpenFileKeeps, JobWriteKeeps,
       Zenon DEF JobStep
<1>4. CASE Restarted
  BY <1>4, RestartKeeps, Zenon
<1>5. CASE UNCHANGED web_vars
  <2>1. WebTypes'
    BY <1>5 DEF web_vars, WebInv, WebTypes
  <2>2. LivesInOrder'
    BY <1>5 DEF web_vars, WebInv, LivesInOrder
  <2>3. RecordsTrue'
    BY <1>5 DEF web_vars, WebInv, RecordsTrue
  <2>4. RecordsWhole'
    BY <1>5 DEF web_vars, WebInv, RecordsWhole, Recorded, Recording
  <2>5. LinesAreKept'
    BY <1>5 DEF web_vars, WebInv, LinesAreKept, Lines
  <2> QED BY <2>1, <2>2, <2>3, <2>4, <2>5, Zenon DEF WebInv
<1> QED
  BY <1>1, <1>2, <1>3, <1>4, <1>5, Zenon DEF WebNext

\* The job history of web_server.py is true for any number of jobs, however
\* their threads interleave, and whole unless two of them met or the server was
\* stopped under one.
THEOREM HistoryIsKept == WebSpec => []JobsAreRecorded
  BY WebInitInv, WebNextInv, InvIsEnough, PTL DEF WebSpec

\* No line of a job's log is lost between add_log and the streams.
THEOREM LogIsKept == WebSpec => []LinesAreKept
<1>1. WebInv => LinesAreKept
  BY Zenon DEF WebInv
<1> QED
  BY WebInitInv, WebNextInv, <1>1, PTL DEF WebSpec

=============================================================================
