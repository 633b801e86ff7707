------------------------------ MODULE WebJobs ------------------------------
(***************************************************************************)
(* The build jobs of scripts/web_server.py: the HTTP thread that starts     *)
(* them and streams their log, one thread per job, the PlatformIO processes *)
(* the job waits for, and the history of jobs the threads keep in memory    *)
(* and in a file.  HTTPServer serves one request at a time: while a log is  *)
(* streamed no other request is answered.                                   *)
(* Job.cancel is modelled as the method it is; the route to it fails, since *)
(* _route_post passes handle_job_cancel an argument it does not take.  The  *)
(* console routes fail alike and are left out, as are rate limiting and the *)
(* request log.  A job's state field, which only a display reads, is left   *)
(* out too: where its thread stands says more.                              *)
(***************************************************************************)
EXTENDS Naturals, Sequences

CONSTANTS
    MaxJobs,     \* bound: jobs started
    MaxLines,    \* bound: lines of a job after which its processes print no more
    HistoryMax   \* 50 in the code

ASSUME WebAssumption == {MaxJobs, MaxLines, HistoryMax} \subseteq Nat \ {0}

VARIABLES
    web_jobs,     \* the jobs and their threads
    web_current,  \* current_job, 0 when None
    web_log,      \* log_lines of the current job; nobody can read another's
    web_history,  \* job_history
    web_file,     \* jobs.json, Torn when it is cut off
    web_stream,   \* the handle_job_log that is being served
    web_past      \* history: [started, ended, odd, lines, taken], see below

web_vars == <<web_jobs, web_current, web_log, web_history, web_file, web_stream, web_past>>

Torn == <<0>>
NoJob == [pc |-> "none", running |-> FALSE, upload |-> FALSE,
          process |-> "none", fresh |-> FALSE, list |-> <<>>]
NoStream == [pc |-> "none", at |-> 0]

\* started: the number of jobs; ended: the records, in the order of their appends;
\* odd: two threads were recording at once, or one was when the server stopped.
\* Of the current job, lines: how many lines it logged; taken: those a stream
\* has sent, or held when its client went away.
WebInit ==
    /\ web_jobs = [j \in 1..MaxJobs |-> NoJob]
    /\ web_current = 0 /\ web_log = <<>>
    /\ web_history = <<>> /\ web_file = <<>>
    /\ web_stream = NoStream
    /\ web_past = [started |-> 0, ended |-> <<>>, odd |-> FALSE,
                   lines |-> 0, taken |-> {}]

----------------------------------------------------------------------------
(* The HTTP thread. *)

Serving == web_stream = NoStream

\* handle_jobs_post: refused while the current job runs.
handle_jobs_post(upload) ==
    LET j == web_past.started + 1
    IN  /\ Serving
        /\ web_current # 0 => ~web_jobs[web_current].running
        /\ j <= MaxJobs
        /\ web_jobs' = [web_jobs EXCEPT ![j] = [NoJob EXCEPT
             !.pc = "prepare", !.running = TRUE, !.upload = upload]]
        /\ web_current' = j
        /\ web_log' = <<>>
        /\ web_past' = [web_past EXCEPT !.started = j, !.lines = 0, !.taken = {}]
        /\ UNCHANGED <<web_history, web_file, web_stream>>

\* handle_job_log first sends the lines as they stand, one by one, while the
\* job goes on adding to the list; it takes none away.
handle_job_log ==
    /\ Serving
    /\ web_current # 0
    /\ web_stream' = [pc |-> "first", at |-> 1]
    /\ UNCHANGED <<web_jobs, web_current, web_log, web_history, web_file, web_past>>

SendFirst ==
    /\ web_stream.pc = "first"
    /\ IF web_stream.at <= Len(web_log)
       THEN /\ web_past' = [web_past EXCEPT !.taken = @ \cup {web_log[web_stream.at]}]
            /\ web_stream' = [web_stream EXCEPT !.at = @ + 1]
       ELSE /\ web_stream' = [pc |-> "test", at |-> 0]
            /\ UNCHANGED web_past
    /\ UNCHANGED <<web_jobs, web_current, web_log, web_history, web_file>>

\* The loop goes on while the job runs, and sleeps before it looks again.
StreamTest ==
    /\ web_stream.pc = "test"
    /\ web_stream' = IF web_jobs[web_current].running THEN [web_stream EXCEPT !.pc = "poll"]
                     ELSE NoStream
    /\ UNCHANGED <<web_jobs, web_current, web_log, web_history, web_file, web_past>>

\* mutant: the list is cleared before it is copied
new_log_lines_cleared == <<>>
\* What new_log_lines returns; it leaves the list empty.
new_log_lines == web_log

Lines(s) == {s[i] : i \in 1..Len(s)}

\* The client may go away while the lines are sent, which ends the request.
SendNew ==
    /\ web_stream.pc = "poll"
    /\ web_log' = <<>>
    /\ web_past' = [web_past EXCEPT !.taken = @ \cup Lines(new_log_lines)]
    /\ \/ web_stream' = [web_stream EXCEPT !.pc = "test"]
       \/ web_log # <<>> /\ web_stream' = NoStream
    /\ UNCHANGED <<web_jobs, web_current, web_history, web_file>>

FirstBroken ==
    /\ web_stream.pc = "first"
    /\ web_stream.at <= Len(web_log)
    /\ web_stream' = NoStream
    /\ UNCHANGED <<web_jobs, web_current, web_log, web_history, web_file, web_past>>

----------------------------------------------------------------------------
(* The thread of a job. *)

\* One line more, if anybody can see it.
add_log(j) ==
    IF j = web_current
    THEN /\ web_log' = Append(web_log, web_past.lines + 1)
         /\ web_past' = [web_past EXCEPT !.lines = @ + 1]
    ELSE UNCHANGED <<web_log, web_past>>

\* Every way out of _run passes its finally clause.
Ends(j) == web_jobs' = [web_jobs EXCEPT ![j] = [NoJob EXCEPT !.pc = "record"]]

\* Up to the first process: the configuration, the headers, the tools and the
\* port.  Each may end the job, and without a port nothing is uploaded.
Prepare(j) ==
    /\ web_jobs[j].pc = "prepare"
    /\ \/ Ends(j)
       \/ \E upload \in {FALSE, web_jobs[j].upload} :
            web_jobs' = [web_jobs EXCEPT ![j].pc = "build", ![j].upload = upload,
                                         ![j].process = "alive"]
    /\ add_log(j)
    /\ UNCHANGED <<web_current, web_history, web_file, web_stream>>

Waiting(j) == web_jobs[j].pc \in {"build", "upload"}

\* A process that is told to end may take its time, and even succeed.
terminate(j) == IF web_jobs[j].process = "alive" THEN {"alive", "failed"} ELSE {web_jobs[j].process}

\* A line of output: a job that was cancelled ends its process instead.
Output(j) ==
    /\ Waiting(j) /\ web_jobs[j].process = "alive"
    /\ IF web_jobs[j].running
       THEN /\ j = web_current => web_past.lines < MaxLines
            /\ add_log(j)
            /\ UNCHANGED web_jobs
       ELSE /\ \E p \in terminate(j) : web_jobs' = [web_jobs EXCEPT ![j].process = p]
            /\ UNCHANGED <<web_log, web_past>>
    /\ UNCHANGED <<web_current, web_history, web_file, web_stream>>

\* The process ends by itself.
ProcessExits(j) ==
    /\ Waiting(j) /\ web_jobs[j].process = "alive"
    /\ \E rc \in {"done", "failed"} : web_jobs' = [web_jobs EXCEPT ![j].process = rc]
    /\ UNCHANGED <<web_current, web_log, web_history, web_file, web_stream, web_past>>

\* A process that failed, or was the last one, ends the job; so does an upload
\* that cannot be started.  A job that was cancelled goes on all the same.
ProcessWaited(j) ==
    /\ Waiting(j) /\ web_jobs[j].process # "alive"
    /\ \/ Ends(j)
       \/ /\ web_jobs[j].pc = "build" /\ web_jobs[j].process = "done" /\ web_jobs[j].upload
          /\ web_jobs' = [web_jobs EXCEPT ![j].pc = "upload", ![j].process = "alive"]
    /\ add_log(j)
    /\ UNCHANGED <<web_current, web_history, web_file, web_stream>>

cancel(j) ==
    /\ j = web_current /\ j # 0
    /\ \E p \in terminate(j) :
         web_jobs' = [web_jobs EXCEPT ![j].running = FALSE, ![j].process = p]
    /\ UNCHANGED <<web_current, web_log, web_history, web_file, web_stream, web_past>>

----------------------------------------------------------------------------
(* _add_job_to_history, by the thread of the job, with no lock. *)

Recording(j) == web_jobs[j].pc \in {"append", "slice", "assign", "dump", "open", "write"}

\* The entry is made, and the list it will be appended to is looked up.
RecordLoad(j) ==
    /\ web_jobs[j].pc = "record"
    /\ web_jobs' = [web_jobs EXCEPT ![j].pc = "append", ![j].fresh = TRUE,
                      ![j].list = <<j>>]
    /\ web_past' = [web_past EXCEPT !.odd = @ \/ \E k \in 1..MaxJobs : Recording(k)]
    /\ UNCHANGED <<web_current, web_log, web_history, web_file, web_stream>>

\* An entry appended to a list that was replaced meanwhile is lost.
RecordAppend(j) ==
    /\ web_jobs[j].pc = "append"
    /\ web_history' = IF web_jobs[j].fresh THEN web_history \o web_jobs[j].list ELSE web_history
    /\ web_past' = [web_past EXCEPT !.ended = @ \o web_jobs[j].list]
    /\ web_jobs' = [web_jobs EXCEPT ![j].pc = "slice", ![j].list = <<>>]
    /\ UNCHANGED <<web_current, web_log, web_file, web_stream>>

\* mutant: the slice keeps one entry less
LastJobs_one_less(s) == IF Len(s) >= HistoryMax THEN SubSeq(s, Len(s) - HistoryMax + 2, Len(s)) ELSE s
LastJobs(s) == IF Len(s) > HistoryMax THEN SubSeq(s, Len(s) - HistoryMax + 1, Len(s)) ELSE s

\* _save_job_history: the slice is taken and assigned, the text is made from
\* whatever is assigned by then, and written to a file that opening has cut.
RecordSlice(j) ==
    /\ web_jobs[j].pc = "slice"
    /\ web_jobs' = [web_jobs EXCEPT ![j].pc = "assign", ![j].list = LastJobs(web_history)]
    /\ UNCHANGED <<web_current, web_log, web_history, web_file, web_stream, web_past>>

RecordAssign(j) ==
    /\ web_jobs[j].pc = "assign"
    /\ web_history' = web_jobs[j].list
    /\ web_jobs' = [k \in 1..MaxJobs |->
         IF k = j THEN [web_jobs[k] EXCEPT !.pc = "dump", !.list = <<>>]
         ELSE [web_jobs[k] EXCEPT !.fresh = FALSE]]
    /\ UNCHANGED <<web_current, web_log, web_file, web_stream, web_past>>

RecordDump(j) ==
    /\ web_jobs[j].pc = "dump"
    /\ web_jobs' = [web_jobs EXCEPT ![j].pc = "open", ![j].list = web_history]
    /\ UNCHANGED <<web_current, web_log, web_history, web_file, web_stream, web_past>>

RecordOpen(j) ==
    /\ web_jobs[j].pc = "open"
    /\ web_jobs' = [web_jobs EXCEPT ![j].pc = "write"]
    /\ web_file' = Torn
    /\ UNCHANGED <<web_current, web_log, web_history, web_stream, web_past>>

\* Over what another thread wrote meanwhile, the shorter text leaves a rest.
RecordWrite(j) ==
    /\ web_jobs[j].pc = "write"
    /\ web_file' \in {web_jobs[j].list} \cup (IF web_file = Torn THEN {} ELSE {Torn})
    /\ web_jobs' = [web_jobs EXCEPT ![j] = [NoJob EXCEPT !.pc = "done"]]
    /\ UNCHANGED <<web_current, web_log, web_history, web_stream, web_past>>

\* The server is stopped, with the threads, which are daemons, and started
\* again: _load_job_history takes what it cannot read for an empty list.
Restarted ==
    /\ web_jobs' = [j \in 1..MaxJobs |-> NoJob]
    /\ web_current' = 0 /\ web_log' = <<>> /\ web_stream' = NoStream
    /\ web_history' = IF web_file = Torn THEN <<>> ELSE web_file
    /\ web_past' = [web_past EXCEPT !.odd = @ \/ \E k \in 1..MaxJobs : Recording(k),
                                    !.lines = 0, !.taken = {}]
    /\ UNCHANGED web_file

JobStep(j) ==
    \/ Prepare(j) \/ Output(j) \/ ProcessExits(j) \/ ProcessWaited(j)
    \/ RecordLoad(j) \/ RecordAppend(j) \/ RecordSlice(j) \/ RecordAssign(j)
    \/ RecordDump(j) \/ RecordOpen(j) \/ RecordWrite(j)

WebNext ==
    \/ \E upload \in BOOLEAN : handle_jobs_post(upload)
    \/ handle_job_log \/ SendFirst \/ StreamTest \/ SendNew \/ FirstBroken
    \/ \E j \in 1..MaxJobs : JobStep(j) \/ cancel(j)
    \/ Restarted

WebSpec == WebInit /\ [][WebNext]_web_vars

----------------------------------------------------------------------------
(* Properties. *)

\* The history of jobs is true: it never names a job twice, or one that has not
\* ended, however the threads that record interleave.  And it is
\* complete: unless two of them met, or the server was stopped under one, it is
\* the last HistoryMax jobs that ended, in memory, in the file and after a
\* restart (tests/unit/test_web_jobs.py, test_job_history_limit).
JobsAreRecorded ==
    /\ \A i, k \in 1..Len(web_history) : i # k => web_history[i] # web_history[k]
    /\ \A i \in 1..Len(web_history) : web_history[i] \in Lines(web_past.ended)
    /\ ~web_past.odd /\ (\A j \in 1..MaxJobs : ~Recording(j)) =>
         LET n == Len(web_history)
             more == Len(web_past.ended) - n
         IN  /\ n = HistoryMax \/ (n < HistoryMax /\ more = 0)
             /\ \A i \in 1..n : web_history[i] = web_past.ended[more + i]
             /\ web_file = web_history

\* No line of a job's log is lost between the thread that adds it and the stream
\* that takes the list away: it is still there, was sent, or was in the hands of
\* a stream whose client went away.
LinesAreKept ==
    1..web_past.lines \subseteq Lines(web_log) \cup web_past.taken
============================================================================
