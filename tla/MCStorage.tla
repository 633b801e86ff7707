------------------------------ MODULE MCStorage ------------------------------
(* Instances for TLC of the components that keep data: the allocator, the    *)
(* configuration store, the wall clock, the firmware update, the virtual     *)
(* file system and the host's build jobs.  They share no state, so a         *)
(* behaviour of all of them is an interleaving of theirs: each behaviour     *)
(* here moves one, and TLC explores the sum of their state spaces and not    *)
(* the product.                                                              *)
EXTENDS Allocator, ConfigStore, ClockService, Ota, Vfs, WebJobs, TLC

VARIABLE active  \* the component this behaviour moves

MCValues == {[type |-> "string", cells |-> <<0>>], [type |-> "blob", cells |-> <<1, 1, 0>>],
             [type |-> "int", cells |-> <<0, 1>>]}
MCChunks == {<<0, 1>>, <<1>>}
MCPaths == {<<"flash", "a">>, <<"flash", "x", "a">>}
MCPrefixes == {<<"flash">>, <<"flash", "x">>}
MCSymmetry == Permutations(Volumes) \cup Permutations(VfsHandles)

StorageInit ==
    /\ active \in {"pool", "config", "clock", "ota", "vfs", "web"}
    /\ PoolInit /\ ConfigInit /\ ClockInit /\ OtaInit /\ vfs_init /\ WebInit
    /\ active # "clock" => rtc = 0

StorageNext ==
    /\ UNCHANGED active
    /\ \/ active = "pool" /\ PoolNext /\ UNCHANGED <<cfgVars, clockVars, otaVars, vfsVars, web_vars>>
       \/ active = "config" /\ ConfigNext /\ UNCHANGED <<poolVars, clockVars, otaVars, vfsVars, web_vars>>
       \/ active = "clock" /\ ClockNext /\ UNCHANGED <<poolVars, cfgVars, otaVars, vfsVars, web_vars>>
       \/ active = "ota" /\ OtaNext /\ UNCHANGED <<poolVars, cfgVars, clockVars, vfsVars, web_vars>>
       \/ active = "vfs" /\ VfsNext /\ UNCHANGED <<poolVars, cfgVars, clockVars, otaVars, web_vars>>
       \/ active = "web" /\ WebNext /\ UNCHANGED <<poolVars, cfgVars, clockVars, otaVars, vfsVars>>

storageVars == <<active, poolVars, cfgVars, clockVars, otaVars, vfsVars, web_vars>>
StorageSpec == StorageInit /\ [][StorageNext]_storageVars
=============================================================================
