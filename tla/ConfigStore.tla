----------------------------- MODULE ConfigStore -----------------------------
(***************************************************************************)
(* The configuration store, fs/config_store.c: a table of entries that     *)
(* name places in one array of bytes, written whole to a file of the       *)
(* littlefs volume.  Keys are kept as their hash only.  Writes to the file *)
(* reach the flash when it is synced or closed; a power cut loses the rest.*)
(***************************************************************************)
EXTENDS Lists

CONSTANTS Keys,        \* numbers; two that agree modulo Hashes have one hash
          Hashes,
          Values,      \* a type and the bytes memcpy copies
          MaxEntries,  \* 1024
          MaxData      \* 65536

Types == {v.type : v \in Values}
Cells == UNION {{v.cells[i] : i \in DOMAIN v.cells} : v \in Values}

ASSUME ConfigAssumption ==
    /\ Keys \subseteq Nat /\ Hashes \in Nat \ {0}
    /\ Values \subseteq [type : Types, cells : Seq(Cells)]
    /\ "none" \notin Types /\ \A v \in Values : v.cells # <<>>
    /\ MaxEntries \in Nat /\ MaxData \in Nat

VARIABLES cfg,        \* struct config_store: shut, or entries, room, data, dirty
          flash,      \* what the flash holds of the file
          cfg_torn,   \* the open file has writes of a flush that failed
          cfg_last,   \* history: the value each key of its own hash was last given
          cfg_saved,  \* history: cfg_last at the last complete flush
          cfg_fault   \* history: a write went outside the table or lost the data

cfgVars == <<cfg, flash, cfg_torn, cfg_last, cfg_saved, cfg_fault>>

None == [type |-> "none", cells |-> <<>>]
hash_key(k) == k % Hashes
OwnHash(k) == \A j \in Keys : hash_key(j) = hash_key(k) => j = k
Blank == [k \in Keys |-> None]
NewFile == [header |-> FALSE, entries |-> <<>>, data |-> <<>>]

-----------------------------------------------------------------------------
\* The first entry with the key's hash and length, zero when there is none.
config_find_entry(s, k) ==
    LET hits == {i \in DOMAIN s.entries : s.entries[i].key_hash = hash_key(k)}
    IN  IF hits = {} THEN 0 ELSE First(hits)

\* What config_get_string, _int, _bool or _blob reads back.
config_get(s, k) ==
    LET i == config_find_entry(s, k)
        e == s.entries[i]
    IN  IF i = 0 THEN None
        ELSE [type  |-> e.type,
              cells |-> SubSeq(s.data, e.offset + 1, e.offset + e.size)]

config_delete(s, k) ==
    LET i == config_find_entry(s, k)
    IN  IF i = 0 THEN s ELSE [s EXCEPT !.entries = Without(@, i), !.dirty = TRUE]

Written(data, offset, cells) ==
    [i \in 1..Len(data) |->
        IF i \in (offset + 1)..(offset + Len(cells)) THEN cells[i - offset] ELSE data[i]]

Overwritten_whole(s, i, v) ==  \* mutant: the entry keeps the longer size it had
    [s EXCEPT !.data = Written(@, s.entries[i].offset, v.cells),
              !.entries[i].type = v.type, !.dirty = TRUE]

\* A value no longer than the old one takes its place.
Overwritten(s, i, v) ==
    [s EXCEPT !.data = Written(@, s.entries[i].offset, v.cells),
              !.entries[i].size = Len(v.cells),
              !.entries[i].type = v.type, !.dirty = TRUE]

\* A new entry, its bytes at the end of the data.
Appended(s, k, v) ==
    [s EXCEPT !.entries = Append(@, [key_hash |-> hash_key(k), type |-> v.type,
                                     offset |-> Len(s.data), size |-> Len(v.cells)]),
              !.data = @ \o v.cells, !.dirty = TRUE]

config_reserve_data(s, n) == Len(s.data) + n <= MaxData

\* config_set_string, _int, _bool and _blob.  A value that has grown is deleted
\* first, and stays deleted when there is no room for it.
config_set(s, k, v) ==
    LET i == config_find_entry(s, k)
        d == config_delete(s, k)
    IN  CASE i # 0 /\ s.entries[i].size >= Len(v.cells) ->
               [store |-> Overwritten(s, i, v), ok |-> TRUE]
          [] Len(d.entries) < MaxEntries /\ config_reserve_data(d, Len(v.cells))
               /\ (i = 0 \/ s.entries[i].size < Len(v.cells)) ->
               [store |-> Appended(d, k, v), ok |-> TRUE]
          [] OTHER -> [store |-> d, ok |-> FALSE]

-----------------------------------------------------------------------------
Shut == [open |-> FALSE, entries |-> <<>>, room |-> 0, data |-> <<>>, dirty |-> FALSE]

\* config_store_open and config_store_init: a file with no header is a new
\* store with a table for every entry; any other has a table for those it holds.
config_store_init(f) ==
    IF f.header
    THEN [open |-> TRUE, entries |-> f.entries, room |-> Len(f.entries),
          data |-> f.data, dirty |-> FALSE]
    ELSE [Shut EXCEPT !.open = TRUE, !.room = MaxEntries]

config_store_flush_table_left(s, f) ==  \* mutant: the table is left out of the file
    {[store |-> [s EXCEPT !.dirty = FALSE], done |-> s.dirty, torn |-> FALSE,
      flash |-> IF s.dirty THEN [header |-> TRUE, entries |-> f.entries, data |-> s.data]
                ELSE f]}

\* config_store_flush and config_write_header: header, table and data are written
\* and synced; or a write fails, the store stays dirty, and what was written waits
\* in the open file.
config_store_flush(s, f) ==
    IF ~s.dirty THEN {[store |-> s, done |-> FALSE, torn |-> FALSE, flash |-> f]}
    ELSE {[store |-> [s EXCEPT !.dirty = FALSE], done |-> TRUE, torn |-> FALSE,
           flash |-> [header |-> TRUE, entries |-> s.entries, data |-> s.data]],
          [store |-> s, done |-> FALSE, torn |-> TRUE, flash |-> f]}

-----------------------------------------------------------------------------
InUse == cfg.open /\ cfg.room >= Len(cfg.entries) /\ ~cfg_fault

\* A new key past the table is written outside it; when realloc fails, the entry
\* is counted and the data is lost.  Nothing is said of the store after either.
SetValue(k, v) ==
    LET r == config_set(cfg, k, v)
    IN  /\ InUse
        /\ \/ /\ Len(r.store.entries) <= cfg.room
              /\ cfg' = r.store
              /\ cfg_last' = [cfg_last EXCEPT ![k] = IF r.ok /\ OwnHash(k) THEN v ELSE None]
              /\ UNCHANGED cfg_fault
           \/ /\ Len(r.store.entries) > cfg.room \/ Len(r.store.data) > Len(cfg.data)
              /\ cfg_fault' = TRUE
              /\ UNCHANGED <<cfg, cfg_last>>
        /\ UNCHANGED <<flash, cfg_saved, cfg_torn>>

DeleteValue(k) ==
    /\ InUse
    /\ cfg' = config_delete(cfg, k)
    /\ cfg_last' = [cfg_last EXCEPT ![k] = None]
    /\ UNCHANGED <<flash, cfg_saved, cfg_torn, cfg_fault>>

Saved(r) ==
    /\ flash' = r.flash
    /\ cfg_saved' = IF r.done THEN cfg_last ELSE cfg_saved
    /\ cfg_torn' = (r.torn \/ (cfg_torn /\ ~r.done))

config_flush ==
    /\ InUse
    /\ \E r \in config_store_flush(cfg, flash) : cfg' = r.store /\ Saved(r)
    /\ UNCHANGED <<cfg_last, cfg_fault>>

\* The table and the data are freed and the counts cleared, whether or not the
\* flush went through; the store stays open, with its dirty mark.
config_store_deinit ==
    /\ InUse
    /\ \E r \in config_store_flush(cfg, flash) :
         /\ cfg' = [Shut EXCEPT !.open = TRUE, !.room = -1, !.dirty = r.store.dirty]
         /\ Saved(r)
    /\ UNCHANGED <<cfg_last, cfg_fault>>

\* Closing the file syncs what was written to it.  A store that deinit left
\* dirty is written out empty.
config_store_close ==
    /\ cfg.open /\ ~cfg_fault
    /\ \E r \in config_store_flush(cfg, flash) :
         /\ Saved(r)
         /\ cfg_fault' = (cfg_torn' \/ (cfg.dirty /\ cfg.room = -1))
    /\ cfg' = Shut
    /\ UNCHANGED cfg_last

config_store_open ==
    /\ ~cfg.open /\ ~cfg_fault
    /\ cfg' = config_store_init(flash)
    /\ cfg_last' = cfg_saved
    /\ UNCHANGED <<flash, cfg_saved, cfg_torn, cfg_fault>>

\* A power cut: the flash keeps the file as it was last synced.
ConfigCrash ==
    /\ cfg.open /\ ~cfg_fault
    /\ cfg' = Shut
    /\ cfg_torn' = FALSE
    /\ UNCHANGED <<flash, cfg_last, cfg_saved, cfg_fault>>

ConfigInit ==
    /\ cfg = Shut /\ flash = NewFile
    /\ cfg_last = Blank /\ cfg_saved = Blank
    /\ cfg_torn = FALSE /\ cfg_fault = FALSE

ConfigNext ==
    \/ \E k \in Keys : DeleteValue(k) \/ \E v \in Values : SetValue(k, v)
    \/ config_flush \/ config_store_deinit \/ config_store_close \/ config_store_open
    \/ ConfigCrash
    \/ cfg_fault /\ UNCHANGED cfgVars

ConfigSpec == ConfigInit /\ [][ConfigNext]_cfgVars

-----------------------------------------------------------------------------
\* A key that shares its hash with no other reads back what it was last given,
\* type and bytes, through every order of growing, shrinking, deleting and
\* reloading the values around it (config_set_*, config_get_*, config_delete).
LookupIsLastSet ==
    InUse => \A k \in Keys : OwnHash(k) => config_get(cfg, k) = cfg_last[k]

\* What the flash holds reads back as the values of the last complete flush,
\* whatever was set, deleted or written in part since (config_write_header).
FlushedSurvives ==
    ~cfg_fault => \A k \in Keys :
        OwnHash(k) => config_get(config_store_init(flash), k) = cfg_saved[k]

=============================================================================
