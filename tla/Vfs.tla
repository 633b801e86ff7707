--------------------------------- MODULE Vfs ---------------------------------
(***************************************************************************)
(* The virtual file system, fs/vfs.c, and its two back ends,               *)
(* fs/littlefs/littlefs_vfs.c and fs/fatfs/fatfs_vfs.c.  Each back end has *)
(* one global context, whatever the number of its mounts, and littlefs has *)
(* fixed tables of file and directory handles.  A path is the sequence of  *)
(* its names.  The littlefs library itself is not part of the repository:  *)
(* each of its calls may succeed or fail.                                  *)
(***************************************************************************)
EXTENDS Lists

CONSTANTS PathNames,
          Paths,        \* of files
          MountPoints,
          Volumes,     \* storages a back end can be mounted on
          MaxMounts,   \* 8
          VfsHandles,     \* vfs_file_t and vfs_dir_t objects in use at one time
          MaxOpenFiles, MaxOpenDirs   \* 8 and 4

ASSUME VfsAssumption ==
    /\ {MaxMounts, MaxOpenFiles, MaxOpenDirs} \subseteq Nat /\ "NULL" \notin Volumes
    /\ Paths \cup MountPoints \subseteq Seq(PathNames)
    /\ <<>> \notin MountPoints   \* vfs_find_mount finds no mount on the root

VARIABLES g_mounts,    \* the list of mounts, newest first
          ctx,         \* g_ctx and g_fatfs_ctx: the volume of each back end, or NULL
          in_use,      \* the littlefs tables, by kind of handle
          vfs_handle,      \* open files and directories
          names,       \* the names each volume holds
          vfs_fault,   \* a call went through a NULL context
          vfs_strict   \* history: no context was replaced or dropped while it was in use

vfsVars == <<g_mounts, ctx, in_use, vfs_handle, names, vfs_fault, vfs_strict>>

NULL == "NULL"
Backends == {"littlefs", "fatfs"}
HandleKinds == {"file", "dir"}
TableSize(kind) == IF kind = "file" THEN MaxOpenFiles ELSE MaxOpenDirs
NoHandle == [open |-> FALSE]

-----------------------------------------------------------------------------
\* The prefix is made of the first names of the path.
Matches(prefix, path) ==
    Len(prefix) <= Len(path) /\ \A i \in 1..Len(prefix) : path[i] = prefix[i]

\* The first of the places, zero when there is none.
FirstOrNone(places) == IF places = {} THEN 0 ELSE First(places)

vfs_find_mount_newest(path) ==  \* mutant: the newest mount that matches
    FirstOrNone({i \in DOMAIN g_mounts : Matches(g_mounts[i].prefix, path)})

\* The loop over the list, best[i] after i mounts: a mount replaces the best so
\* far when its prefix matches and is longer.  Zero when none matches.
vfs_find_mount(path) ==
    LET LongerThan(m, b) == Len(m.prefix) > (IF b = 0 THEN 0 ELSE Len(g_mounts[b].prefix))
        best[i \in 0..Len(g_mounts)] ==
            IF i = 0 THEN 0
            ELSE IF Matches(g_mounts[i].prefix, path) /\ LongerThan(g_mounts[i], best[i - 1])
                 THEN i ELSE best[i - 1]
    IN  best[Len(g_mounts)]

BackendOf(path) == g_mounts[vfs_find_mount(path)].ops
RelPath(path) == SubSeq(path, Len(g_mounts[vfs_find_mount(path)].prefix) + 1, Len(path))

\* Refused when the table is full or has the prefix.
vfs_mount(prefix, ops) ==
    IF Len(g_mounts) >= MaxMounts \/ \E i \in DOMAIN g_mounts : g_mounts[i].prefix = prefix
    THEN g_mounts ELSE <<[prefix |-> prefix, ops |-> ops]>> \o g_mounts

Mounted(prefix) == FirstOrNone({i \in DOMAIN g_mounts : g_mounts[i].prefix = prefix})

\* A call through the context of a back end with none is a NULL dereference.
ThroughContext(ops, A) ==
    IF ctx[ops] = NULL
    THEN vfs_fault' = TRUE /\ UNCHANGED <<g_mounts, ctx, in_use, vfs_handle, names, vfs_strict>>
    ELSE A /\ UNCHANGED vfs_fault

InBackend(ops) == \E h \in VfsHandles : vfs_handle[h].open /\ vfs_handle[h].ops = ops

-----------------------------------------------------------------------------
\* The context is replaced before anything can fail.  A volume that does not
\* mount leaves none; a mount point that is refused leaves the new one.
littlefs_mount(prefix, v) ==
    /\ vfs_strict' = (vfs_strict /\ ctx["littlefs"] = NULL)
    /\ \/ /\ ctx' = [ctx EXCEPT !["littlefs"] = NULL]
          /\ UNCHANGED g_mounts
       \/ /\ ctx' = [ctx EXCEPT !["littlefs"] = v]
          /\ g_mounts' = vfs_mount(prefix, "littlefs")
    /\ UNCHANGED <<in_use, vfs_handle, names, vfs_fault>>

fatfs_mount(prefix, v) ==
    LET mounts == vfs_mount(prefix, "fatfs")
    IN  /\ vfs_strict' = (vfs_strict /\ ctx["fatfs"] = NULL)
        /\ g_mounts' = mounts
        /\ ctx' = [ctx EXCEPT !["fatfs"] = IF mounts = g_mounts THEN NULL ELSE v]
        /\ UNCHANGED <<in_use, vfs_handle, names, vfs_fault>>

\* littlefs_unmount and fatfs_unmount: any mount point will do; open files stay.
unmount(prefix, ops) ==
    /\ ctx[ops] # NULL /\ Mounted(prefix) # 0
    /\ vfs_strict' = /\ vfs_strict /\ ~InBackend(ops)
                     /\ g_mounts[Mounted(prefix)].ops = ops
    /\ g_mounts' = Without(g_mounts, Mounted(prefix))
    /\ ctx' = [ctx EXCEPT ![ops] = NULL]
    /\ UNCHANGED <<in_use, vfs_handle, names, vfs_fault>>

\* Formatting borrows the context for its block callbacks and leaves none.
littlefs_format(v) ==
    /\ vfs_strict' = (vfs_strict /\ ctx["littlefs"] = NULL)
    /\ ctx' = [ctx EXCEPT !["littlefs"] = NULL]
    /\ names' \in {names, [names EXCEPT ![v] = {}]}
    /\ UNCHANGED <<g_mounts, in_use, vfs_handle, vfs_fault>>

-----------------------------------------------------------------------------
alloc(kind) == {i \in 1..TableSize(kind) : ~in_use[kind][i]}

\* littlefs_open or littlefs_opendir: a place in the table; the library and the
\* allocation of the handle may fail, and then the place is given back.
littlefs_open_keeps_place(h, path, kind) ==  \* mutant: a failure keeps the place
    \E i \in alloc(kind), ok \in BOOLEAN :
        /\ \A j \in alloc(kind) : i <= j
        /\ in_use' = [in_use EXCEPT ![kind][i] = TRUE]
        /\ vfs_handle' = IF ok THEN [vfs_handle EXCEPT ![h] = [open |-> TRUE, ops |-> "littlefs",
                                   kind |-> kind, slot |-> i, volume |-> ctx["littlefs"]]]
                     ELSE vfs_handle
        /\ names' = names

littlefs_open(h, path, kind) ==
    \E i \in alloc(kind) :
        /\ \A j \in alloc(kind) : i <= j
        /\ \/ /\ in_use' = [in_use EXCEPT ![kind][i] = TRUE]
              /\ vfs_handle' = [vfs_handle EXCEPT ![h] = [open |-> TRUE, ops |-> "littlefs",
                              kind |-> kind, slot |-> i, volume |-> ctx["littlefs"]]]
           \/ UNCHANGED <<in_use, vfs_handle>>
        /\ \/ UNCHANGED names
           \/ /\ kind = "file"
              /\ names' = [names EXCEPT ![ctx["littlefs"]] = @ \cup {RelPath(path)}]

fatfs_open(h, kind) ==
    /\ vfs_handle' \in {vfs_handle, [vfs_handle EXCEPT ![h] = [open |-> TRUE, ops |-> "fatfs",
                              kind |-> kind, slot |-> 0, volume |-> ctx["fatfs"]]]}
    /\ UNCHANGED <<in_use, names>>

\* vfs_open and vfs_opendir; a back end without a context refuses, except that
\* fatfs_opendir does not look.
vfs_open(h, path, kind) ==
    /\ ~vfs_handle[h].open /\ vfs_find_mount(path) # 0
    /\ IF BackendOf(path) = "littlefs"
       THEN ctx["littlefs"] # NULL /\ littlefs_open(h, path, kind)
       ELSE (ctx["fatfs"] # NULL \/ kind = "dir") /\ fatfs_open(h, kind)
    /\ UNCHANGED <<g_mounts, ctx, vfs_fault, vfs_strict>>

\* vfs_close and vfs_closedir.
vfs_close(h) ==
    LET f == vfs_handle[h]
        A == /\ vfs_handle' = [vfs_handle EXCEPT ![h] = NoHandle]
             /\ in_use' = IF f.ops = "littlefs" THEN [in_use EXCEPT ![f.kind][f.slot] = FALSE]
                          ELSE in_use
             /\ UNCHANGED <<g_mounts, ctx, names, vfs_strict>>
    IN  /\ f.open
        /\ IF f.ops = "littlefs" THEN ThroughContext("littlefs", A) ELSE A /\ UNCHANGED vfs_fault

\* littlefs_read, _write, _seek and _tell go through the context unguarded; the
\* calls of fatfs look first.
littlefs_use == ThroughContext("littlefs", UNCHANGED vfsVars)

\* vfs_read, vfs_write, vfs_seek and vfs_tell.
vfs_use(h) == vfs_handle[h].open /\ vfs_handle[h].ops = "littlefs" /\ littlefs_use

\* littlefs_unlink and _rmdir, _mkdir, _rename: what they leave on the volume.
littlefs_names(v, path, new) ==
    \/ names' = [names EXCEPT ![v] = @ \ {RelPath(path)}]
    \/ names' = [names EXCEPT ![v] = @ \cup {RelPath(path)}]
    \/ /\ vfs_find_mount(new) = vfs_find_mount(path) /\ RelPath(path) \in names[v]
       /\ names' = [names EXCEPT ![v] = (@ \ {RelPath(path)}) \cup {RelPath(new)}]

\* vfs_unlink and vfs_rmdir, vfs_rename within one mount, vfs_mkdir: littlefs only,
\* refused without a context.
vfs_names(path, new) ==
    /\ vfs_find_mount(path) # 0 /\ BackendOf(path) = "littlefs" /\ ctx["littlefs"] # NULL
    /\ littlefs_names(ctx["littlefs"], path, new)
    /\ UNCHANGED <<g_mounts, ctx, in_use, vfs_handle, vfs_fault, vfs_strict>>

vfs_init ==
    /\ g_mounts = <<>> /\ ctx = [b \in Backends |-> NULL]
    /\ in_use = [k \in HandleKinds |-> [i \in 1..TableSize(k) |-> FALSE]]
    /\ vfs_handle = [h \in VfsHandles |-> NoHandle]
    /\ names = [v \in Volumes |-> {}]
    /\ vfs_fault = FALSE /\ vfs_strict = TRUE

VfsNext ==
    \/ /\ ~vfs_fault
       /\ \/ \E p \in MountPoints, v \in Volumes : littlefs_mount(p, v) \/ fatfs_mount(p, v)
          \/ \E p \in MountPoints, b \in Backends : unmount(p, b)
          \/ \E v \in Volumes : littlefs_format(v)
          \/ \E h \in VfsHandles : vfs_close(h) \/ vfs_use(h)
          \/ \E h \in VfsHandles, p \in Paths, k \in HandleKinds : vfs_open(h, p, k)
          \/ \E p, q \in Paths : vfs_names(p, q)
    \/ vfs_fault /\ UNCHANGED vfsVars

VfsSpec == vfs_init /\ [][VfsNext]_vfsVars

-----------------------------------------------------------------------------
\* A place in the littlefs tables is in use exactly while one open file or
\* directory holds it, through failed opens and files that outlive their mount
\* (alloc_file, free_file, alloc_dir, free_dir).
PlacesAreHeld ==
    \A k \in HandleKinds : \A i \in 1..TableSize(k) :
        LET holders == {h \in VfsHandles : /\ vfs_handle[h].open /\ vfs_handle[h].ops = "littlefs"
                                        /\ vfs_handle[h].kind = k /\ vfs_handle[h].slot = i}
        IN  /\ in_use[k][i] <=> holders # {}
            /\ \A g, h \in holders : g = h

\* Every path goes to the mount with the longest matching prefix, whatever the
\* order the mounts came in (vfs_find_mount).
FoundIsLongest ==
    \A p \in Paths :
        LET matching == {i \in DOMAIN g_mounts : Matches(g_mounts[i].prefix, p)}
            m        == vfs_find_mount(p)
        IN  IF matching = {} THEN m = 0
            ELSE m \in matching /\ \A i \in matching : i # m =>
                    Len(g_mounts[i].prefix) < Len(g_mounts[m].prefix)

\* A back end mounted once at a time, left mounted while it has open files and
\* never formatted meanwhile keeps the context of its mount and of every open
\* file, and no call goes through NULL (littlefs_mount, littlefs_unmount).
ContextStays ==
    vfs_strict =>
        /\ ~vfs_fault
        /\ \A i \in DOMAIN g_mounts : ctx[g_mounts[i].ops] # NULL
        /\ \A h \in VfsHandles : vfs_handle[h].open /\ vfs_handle[h].ops = "littlefs"
                                => ctx["littlefs"] = vfs_handle[h].volume

\* A call on a path reaches the mount it names, and through it, or through a file
\* opened there, the volume that mount was made for (vfs_find_mount, littlefs_*).
CallsReachTheirMount == FoundIsLongest /\ ContextStays

=============================================================================
