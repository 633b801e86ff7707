-------------------------------- MODULE Hal --------------------------------
(***************************************************************************)
(* The hardware abstraction layer, hal/arch/<chip>/hal_<peripheral>_*.c:   *)
(* one file per chip and peripheral, each with the same life cycle.  A     *)
(* caller opens a handle, may initialise it, transfers data, suspends and  *)
(* resumes it and closes it; the file keeps a few booleans in the handle   *)
(* and installs or removes the chip vendor's driver underneath.  What can  *)
(* go wrong is the relation between the two: a handle that believes its    *)
(* driver is there when it is not, or a driver nobody will ever remove.    *)
(*                                                                         *)
(* Module HalFiles says what each operation of each file does; this module *)
(* runs any of the files with several handles on the same peripheral.      *)
(* Payloads (samples, bytes, frequencies, duty cycles, configuration       *)
(* structures) are left out: no operation branches on them.  Allocations   *)
(* succeed; a failed calloc makes open return NULL and changes nothing.    *)
(***************************************************************************)
EXTENDS Naturals, Sequences, FiniteSets, SequencesExt, HalFiles

CONSTANT Handles          \* handles on one peripheral

VARIABLES
    hal_file,     \* the file in use, one of DOMAIN Files
    hal_live,     \* handles that are open
    hal_flags,    \* the booleans set in each handle
    hal_chip,     \* who holds each part of the chip's driver
    hal_saved     \* history: booleans before the suspend, {} when not suspended

hal_vars == <<hal_file, hal_live, hal_flags, hal_chip, hal_saved>>

Absentee == "nobody"      \* the part is not installed
Ghost == "freed handle"   \* installed on behalf of a handle since freed

File == Files[hal_file]

HalInit ==
    /\ hal_file \in DOMAIN Files
    /\ hal_live = {}
    /\ hal_flags = [h \in Handles |-> {}]
    /\ hal_chip = [p \in Parts |-> Absentee]
    /\ hal_saved = [h \in Handles |-> {}]

Held(chip, parts, h) == [p \in Parts |-> IF p \in parts THEN h ELSE chip[p]]

\* A call into the chip's driver: whether it succeeds and the chip it leaves.
Outcomes(chip, h, flags, call) ==
    IF ~(call.when \subseteq flags) THEN {[ok |-> TRUE, chip |-> chip]} ELSE
    CASE call.does = "give"  -> {[ok |-> TRUE, chip |-> Held(chip, {call.part}, Absentee)]}
      [] call.does = "seize" -> {[ok |-> TRUE, chip |-> Held(chip, {call.part}, h)]}
      [] call.does = "once"  -> {[ok |-> TRUE,
                                  chip |-> IF chip[call.part] = Absentee
                                           THEN Held(chip, {call.part} \cup call.others, h)
                                           ELSE chip]}
      [] call.does = "try"   -> {[ok |-> TRUE, chip |-> chip],
                                 [ok |-> FALSE, chip |-> Held(chip, call.others, Absentee)]}
      [] call.does = "take" /\ chip[call.part] = Absentee ->
                                {[ok |-> TRUE, chip |-> Held(chip, {call.part}, h)],
                                 [ok |-> FALSE, chip |-> chip]}
      [] OTHER               -> {[ok |-> FALSE, chip |-> chip]}

\* All ends of a sequence of calls; the first that fails is the last made.
Ends(chip, h, flags, calls) ==
    FoldLeft(LAMBDA ends, call :
                 UNION {IF e.ok THEN Outcomes(e.chip, h, flags, call) ELSE {e} : e \in ends},
             {[ok |-> TRUE, chip |-> chip]}, calls)

Passes(op, flags) == op.needs \subseteq flags /\ op.bars \cap flags = {}

\* The end of a whole operation: its result, the handle's booleans, the chip.
After(op, flags, end) ==
    [ok    |-> end.ok,
     flags |-> IF end.ok THEN (flags \cup op.marks \cup op.sets) \ op.clears
                         ELSE flags \cup op.marks,
     chip  |-> end.chip]

Runs(op, h, flags, chip) ==
    {After(op, flags, e) : e \in Ends(chip, h, flags, op.calls)}

\* A lazy operation is preceded by the file's init, and not run when it fails.
Results(op, h, flags, chip) ==
    IF op.lazy /\ "initialized" \notin flags
    THEN UNION {IF r.ok THEN Runs(op, h, r.flags, r.chip) ELSE {r} :
                    r \in Runs(File.init, h, flags, chip)}
    ELSE Runs(op, h, flags, chip)

\* hal_*_open: a new handle; a failed call frees it again and returns NULL.
HalOpen(h) ==
    /\ h \notin hal_live
    /\ File.one => hal_live = {}
    /\ \E e \in Ends(hal_chip, h, {}, File.open.calls) :
          /\ hal_live' = IF e.ok THEN hal_live \cup {h} ELSE hal_live
          /\ hal_chip' = e.chip
    /\ UNCHANGED <<hal_file, hal_flags, hal_saved>>

\* The body of every operation on an open handle whose checks pass; done and
\* failed are what hal_saved holds afterwards.
Operate(h, op, done, failed) ==
    /\ h \in hal_live
    /\ Passes(op, hal_flags[h])
    /\ op.must \subseteq {p \in Parts : hal_chip[p] # Absentee}
    /\ \E r \in Results(op, h, hal_flags[h], hal_chip) :
          /\ hal_flags' = [hal_flags EXCEPT ![h] = r.flags]
          /\ hal_chip' = r.chip
          /\ hal_saved' = [hal_saved EXCEPT ![h] = IF r.ok THEN done ELSE failed]
    /\ UNCHANGED <<hal_file, hal_live>>

HalInitialise(h) == Operate(h, File.init, {}, {})

\* Any operation but the life cycle's, called by the application, or by the
\* chip on the handle its part was installed with.
HalCall(h, name) ==
    /\ File.ops[name].from # "" => hal_chip[File.ops[name].from] = h
    /\ File.ops[name].ends # "resets"
    /\ Operate(h, File.ops[name], {}, {})

HalSuspend(h) == Operate(h, File.suspend, hal_saved[h] \cup hal_flags[h], hal_saved[h] \cup hal_flags[h])

HalResume(h) == Operate(h, File.resume, {}, hal_saved[h])

\* Deep sleep, or an ESP_ERROR_CHECK that fails, restarts the board.
HalReset(h, name) ==
    /\ h \in hal_live
    /\ File.ops[name].from # "" => hal_chip[File.ops[name].from] = h
    /\ File.ops[name].ends # "returns"
    /\ hal_live' = {}
    /\ hal_flags' = [g \in Handles |-> {}]
    /\ hal_chip' = [p \in Parts |-> Absentee]
    /\ hal_saved' = [g \in Handles |-> {}]
    /\ UNCHANGED hal_file

\* hal_*_close frees the handle; what it still holds, nobody can give back.
HalClose(h) ==
    /\ h \in hal_live
    /\ \E e \in Ends(hal_chip, h, hal_flags[h], File.close.calls) :
          hal_chip' = [p \in Parts |-> IF e.chip[p] = h THEN Ghost ELSE e.chip[p]]
    /\ hal_live' = hal_live \ {h}
    /\ hal_flags' = [hal_flags EXCEPT ![h] = {}]
    /\ hal_saved' = [hal_saved EXCEPT ![h] = {}]
    /\ UNCHANGED hal_file

HalNext ==
    \E h \in Handles :
        \/ HalOpen(h)
        \/ HalInitialise(h)
        \/ \E name \in DOMAIN File.ops : HalCall(h, name) \/ HalReset(h, name)
        \/ HalSuspend(h)
        \/ HalResume(h)
        \/ HalClose(h)

HalSpec == HalInit /\ [][HalNext]_hal_vars

----------------------------------------------------------------------------
\* The driver is behind every transfer: whenever a read, a write or another
\* operation that relies on the chip's driver gets past the checks at its
\* head (a lazy one past its init), the handle it was called with holds the
\* parts it relies on, whatever the other handle did, whichever call failed
\* before and however often either was suspended.  The operations that do not
\* check (Unchecked) are left out.
DriverBehindTransfers ==
    \A h \in hal_live :
        \A name \in DOMAIN File.ops \ Unchecked[hal_file] :
            /\ Passes(File.ops[name], hal_flags[h])
            /\ File.ops[name].lazy => "initialized" \in hal_flags[h]
            => \A p \in File.ops[name].uses : hal_chip[p] = h

\* Close takes everything down: no part of the chip's driver is left
\* installed on behalf of a freed handle, however the calls of init failed
\* and wherever the handle was in its life cycle, except the parts
\* KnownLeaks names.
NothingLeftInstalled ==
    \A p \in Parts : hal_chip[p] = Ghost => p \in KnownLeaks[hal_file]

\* A resume that succeeds after a suspend brings back every boolean the
\* handle had before it (but the ones in Forgotten), so that what the
\* application could do with the handle it can do again.
ResumeRestores ==
    [][\A h \in Handles :
          HalResume(h) /\ hal_saved[h] # {} /\ hal_saved'[h] = {}
              => hal_saved[h] \ Forgotten[hal_file] \subseteq hal_flags'[h]]_hal_vars

\* The chip is what the handles say: their driver is behind every transfer they
\* let through, and nothing stays installed behind a freed one.
ChipMatchesHandles == DriverBehindTransfers /\ NothingLeftInstalled

============================================================================
