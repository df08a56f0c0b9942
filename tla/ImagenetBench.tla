---------------------------- MODULE ImagenetBench ----------------------------
(***************************************************************************)
(* The ImageNet benchmark: main, which runs every path over the same list  *)
(* of files, the first time "cold" and then "warm", and run_one, which     *)
(* reads the files one by one into the one device buffer of the run.  The  *)
(* list is made once; until a file is read it may have gone, or have       *)
(* another length.                                                         *)
(***************************************************************************)
EXTENDS GdsPlatform, IoOffsets, Sequences, FiniteSetsExt

CONSTANTS Lists,         \* the lists of sizes collect_files may find
          Align,         \* kAlign
          Buffer,        \* the address of the device buffer
          PathLists,     \* the values of resolve_paths
          Runs,          \* cfg.runs
          OldCsv         \* the contents the csv file may have before

PathTypes == {"buffered", "direct", "gds"}

\* The header of the csv file, and the rows of the cases.
CsvLines == ({"path_type"} \cup PathTypes) \X Nat

ASSUME ImagenetAssumption ==
    /\ \A l \in Lists : l \in Seq(Nat)
    /\ Align \in Nat \ {0}
    /\ Ptrs = {Buffer}
    /\ \A p \in PathLists : p \in Seq(PathTypes) \ {<<>>}
    /\ Runs \in Nat \ {0}
    /\ \A c \in OldCsv : c \in Seq(CsvLines)

VARIABLES pc,
          sizes,         \* file.size of each file of the list
          paths, run, case,
          host_buf,      \* there is a host buffer
          index,         \* the file being read, its place in the list
          total_bytes, failed_files, samples,   \* Stats, and lat.size()
          run_err,       \* run_one returned an error
          csv,           \* the lines of the csv file
          arrived,       \* the files of this case whose bytes are on the device (history)
          succeeded,     \* the cases in which run_one returned no error (history)
          unopened       \* the times append_csv could not open the file (history)

platform == <<driver, systemVars>>
stats == <<total_bytes, failed_files, samples>>
loopVars == <<sizes, paths, run, case>>
csvVars == <<csv, unopened>>
caseVars == <<arrived, succeeded>>
vars == <<pc, loopVars, host_buf, index, stats, run_err, csvVars, caseVars, platform>>

path == paths[case]
NumFiles == Len(sizes)

\* The length of the buffers: that of the longest file, rounded up.
MaxAligned == AlignUp(Max({0} \cup {sizes[k] : k \in 1 .. NumFiles}), Align)

\* The header of the csv file, and the row of a case.
Header == <<"path_type", 0>>
Row == <<path, run>>

\* The program ends if no file is found.  A list that was cut to max_files after
\* that, which may be 0, is used even if it is empty.
Init ==
    /\ sizes \in Lists /\ paths \in PathLists /\ csv \in OldCsv
    /\ pc = "case" \/ (pc = "end" /\ sizes = <<>>)
    /\ run = 0 /\ case = 1 /\ index = 1
    /\ host_buf = FALSE /\ run_err = FALSE
    /\ total_bytes = 0 /\ failed_files = 0 /\ samples = 0
    /\ arrived = {} /\ succeeded = <<>> /\ unopened = 0
    /\ DriverInit /\ SystemInit
-----------------------------------------------------------------------------
Goes(label) == pc' = label /\ UNCHANGED run_err

\* run_one returns an error.
GiveUp == pc' = "report" /\ run_err' = TRUE

\* Memory for the host: malloc, whose status is not looked at, or cudaHostAlloc.
HostAlloc ==
    /\ pc = "case"
    /\ \/ /\ path \in {"buffered", "direct"}
          /\ host_buf' = TRUE /\ Goes("malloc")
       \/ path \in {"buffered", "gds"} /\ UNCHANGED host_buf /\ Goes("malloc")
       \/ path = "direct" /\ UNCHANGED host_buf /\ GiveUp
    /\ UNCHANGED <<loopVars, index, stats, csvVars, caseVars, platform>>

DeviceAlloc ==
    /\ pc = "malloc"
    /\ \/ /\ Malloc(Buffer) /\ UNCHANGED host_buf
          /\ Goes(IF path = "gds" THEN "driver" ELSE "open")
       \/ GiveUp /\ host_buf' = FALSE /\ UNCHANGED systemVars
    /\ UNCHANGED <<loopVars, index, stats, csvVars, caseVars, driver>>

OpenDriver ==
    /\ pc = "driver"
    /\ \/ DriverOpen /\ Goes("register")
       \/ Free({Buffer}, FALSE) /\ GiveUp
    /\ UNCHANGED <<loopVars, host_buf, index, stats, csvVars, caseVars, driver>>

\* Fault: the device buffer is not freed when it cannot be registered.
RegisterBufferKeepsIt ==
    /\ pc = "register"
    /\ \/ /\ AcceptsRegister(Buffer)
          /\ driver' = Registering(Buffer, MaxAligned)
          /\ Goes("open") /\ UNCHANGED systemVars
       \/ Close(FALSE, TRUE) /\ GiveUp
    /\ UNCHANGED <<loopVars, host_buf, index, stats, csvVars, caseVars>>

RegisterBuffer ==
    /\ pc = "register"
    /\ \/ /\ AcceptsRegister(Buffer)
          /\ driver' = Registering(Buffer, MaxAligned)
          /\ Goes("open") /\ UNCHANGED systemVars
       \/ /\ sessions' = sessions - 1 /\ allocated' = {}
          /\ UNCHANGED <<driver, files, handles>>
          /\ GiveUp
    /\ UNCHANGED <<loopVars, host_buf, index, stats, csvVars, caseVars>>
-----------------------------------------------------------------------------
\* The loop goes on with the next file.
NextFile == index' = index + 1

\* continue: the file is counted as failed.
FileFails ==
    /\ failed_files' = failed_files + 1
    /\ NextFile /\ Goes("open")
    /\ UNCHANGED <<loopVars, host_buf, total_bytes, samples, csvVars, caseVars, driver>>

OpenFile ==
    /\ pc = "open" /\ index <= NumFiles
    /\ OpenFd
    /\ Goes(IF path = "gds" THEN "handle" ELSE "read")
    /\ UNCHANGED <<loopVars, host_buf, index, stats, csvVars, caseVars, driver>>

OpenFails ==
    /\ pc = "open" /\ index <= NumFiles
    /\ FileFails /\ UNCHANGED systemVars

RegisterHandle ==
    /\ pc = "handle"
    /\ HandleRegister
    /\ Goes("read")
    /\ UNCHANGED <<loopVars, host_buf, index, stats, csvVars, caseVars, driver>>

HandleFails ==
    /\ pc = "handle"
    /\ Free({}, TRUE) /\ FileFails

\* What pread or cuFileRead may transfer of what is wanted: nothing without a
\* buffer to read into, and else as much as the file has now.
Wanted == IF path = "buffered" THEN sizes[index] ELSE AlignUp(sizes[index], Align)

Transfers(n) == n <= Wanted /\ (n >= 0 => path = "gds" \/ host_buf)

\* The file is closed after the read, with its handle, whatever came of it.
CloseFile ==
    /\ files' = files - 1
    /\ handles' = handles - (IF path = "gds" THEN 1 ELSE 0)
    /\ UNCHANGED <<sessions, allocated>>

\* Fault: any read that does not fail is taken for a whole one.
ReadAny(n) ==
    /\ pc = "read" /\ Transfers(n) /\ n >= 0
    /\ CloseFile
    /\ arrived' = IF path = "gds" /\ n >= sizes[index] THEN arrived \cup {index} ELSE arrived
    /\ Goes(IF path = "gds" THEN "count" ELSE IF n >= sizes[index] THEN "copy" ELSE "count")
    /\ UNCHANGED <<loopVars, host_buf, index, stats, csvVars, succeeded, driver>>

\* The read of the whole file; cuFileRead reads into the device buffer.
ReadWhole(n) ==
    /\ pc = "read" /\ Transfers(n) /\ n >= sizes[index]
    /\ CloseFile
    /\ arrived' = IF path = "gds" THEN arrived \cup {index} ELSE arrived
    /\ Goes(IF path = "gds" THEN "count" ELSE "copy")
    /\ UNCHANGED <<loopVars, host_buf, index, stats, csvVars, succeeded, driver>>

\* An error, or less than the file had when the list was made.
ReadShort(n) ==
    /\ pc = "read" /\ Transfers(n) /\ n < sizes[index]
    /\ CloseFile /\ FileFails

Copy ==
    /\ pc = "copy"
    /\ arrived' = arrived \cup {index}
    /\ Goes("count")
    /\ UNCHANGED <<loopVars, host_buf, index, stats, csvVars, succeeded, platform>>

CopyFails ==
    /\ pc = "copy"
    /\ FileFails /\ UNCHANGED systemVars

\* The latency and the bytes of the file.
Count ==
    /\ pc = "count"
    /\ samples' = samples + 1
    /\ total_bytes' = total_bytes + sizes[index]
    /\ NextFile /\ Goes("open")
    /\ UNCHANGED <<loopVars, host_buf, failed_files, csvVars, caseVars, platform>>

\* All files are read: everything is given back, and the run is an error if no
\* file could be read.  A refused deregistration is ignored; the end of the
\* session ends the registration.
Teardown ==
    /\ pc = "open" /\ index > NumFiles
    /\ sessions' = sessions - (IF path = "gds" THEN 1 ELSE 0)
    /\ driver' = IF path = "gds" THEN Deregistering({Buffer}) ELSE driver
    /\ allocated' = {} /\ host_buf' = FALSE
    /\ UNCHANGED <<files, handles>>
    /\ IF samples = 0 THEN GiveUp /\ UNCHANGED succeeded
       ELSE Goes("report") /\ succeeded' = Append(succeeded, Row)
    /\ UNCHANGED <<loopVars, index, stats, csvVars, arrived>>
-----------------------------------------------------------------------------
\* What append_csv writes: a row, after the header if there is none.
Lines == IF csv = <<>> THEN <<Header, Row>> ELSE <<Row>>

\* Fault: a case that failed gets a row as well.
AppendCsvAlways ==
    \/ csv' = csv \o Lines /\ UNCHANGED unopened
    \/ unopened' = unopened + 1 /\ UNCHANGED csv

\* append_csv, if the run succeeded; it may not be able to open the file.
AppendCsv ==
    \/ run_err /\ UNCHANGED csvVars
    \/ ~run_err /\ csv' = csv \o Lines /\ UNCHANGED unopened
    \/ ~run_err /\ unopened' = unopened + 1 /\ UNCHANGED csv

\* main reports the case and goes on with the next one, or the next run.
Report ==
    /\ pc = "report"
    /\ AppendCsv
    /\ IF case < Len(paths) THEN case' = case + 1 /\ run' = run /\ pc' = "case"
       ELSE IF run + 1 < Runs THEN case' = 1 /\ run' = run + 1 /\ pc' = "case"
       ELSE pc' = "end" /\ UNCHANGED <<case, run>>
    /\ index' = 1 /\ total_bytes' = 0 /\ failed_files' = 0 /\ samples' = 0
    /\ arrived' = {} /\ run_err' = FALSE
    /\ UNCHANGED <<sizes, paths, host_buf, succeeded, platform>>

Ended == pc = "end" /\ UNCHANGED vars

\* The results of a read that differ: an error, nothing, parts, and all of it.
Results == -1 .. MaxAligned

Next ==
    \/ HostAlloc \/ DeviceAlloc \/ OpenDriver \/ RegisterBuffer
    \/ OpenFile \/ OpenFails \/ RegisterHandle \/ HandleFails
    \/ pc = "read" /\ \E n \in Results : ReadWhole(n) \/ ReadShort(n)
    \/ Copy \/ CopyFails \/ Count \/ Teardown \/ Report \/ Ended

Spec == Init /\ [][Next]_vars
-----------------------------------------------------------------------------
\* The bytes that arrived, each with the file it is of, by the sizes of the list.
ArrivedBytes == UNION {{k} \X (1 .. sizes[k]) : k \in arrived}

\* Every file of the list is accounted for once, as failed or as a sample, up to
\* the one being read; and the bytes of the throughput are those of the files
\* that arrived whole on the device, with the sizes they are listed with,
\* whatever has become of the files since.
EveryFileCounted ==
    pc \in {"open", "report"} =>
        /\ (pc = "report" /\ ~run_err => index = NumFiles + 1)
        /\ failed_files + samples = index - 1
        /\ samples = Cardinality(arrived)
        /\ total_bytes = Cardinality(ArrivedBytes)

\* A run gives back all it took, at each of its ends, and a file is closed before
\* the next is opened, however it failed; and no read is longer than the buffers,
\* nor one into device memory outside what is registered.
RunGivesBack ==
    /\ pc \in {"case", "report", "end"} => NothingHeld /\ ~host_buf
    /\ pc \in {"open", "copy", "count"} => files = 0 /\ handles = 0
    /\ RegistrationsAreLive
    /\ pc = "read" => /\ Buffer \in allocated /\ Wanted <= MaxAligned
                      /\ path = "gds" => Wanted <= driver[Buffer]

\* The cases that succeeded and are reported: all but the one whose report is next.
Reported == Len(succeeded) - (IF pc = "report" /\ ~run_err THEN 1 ELSE 0)

\* The lines are those before and n rows, of some of the first done cases, in order.
Tell(before, n, lines, cases, done) ==
    /\ Len(lines) = Len(before) + n
    /\ \A k \in 1 .. Len(before) : lines[k] = before[k]
    /\ \A k \in 1 .. n : \E i \in 1 .. done : lines[Len(before) + k] = cases[i]
    /\ \A k \in 2 .. n : \E i, j \in 1 .. done :
           /\ i < j
           /\ lines[Len(before) + (k - 1)] = cases[i]
           /\ lines[Len(before) + k] = cases[j]

\* What stands before n rows of this program: a header, if the file was empty.
Before(old, n) == IF old = <<>> /\ n > 0 THEN <<Header>> ELSE old

\* What the program adds to the csv file are rows of cases that succeeded, in their
\* order, and of all of them but as many as the file could not be opened for; the
\* header comes first if the file had nothing, and only with the first row.
CsvTellsSuccesses ==
    LET new == Reported - unopened
    IN  \E old \in OldCsv : Tell(Before(old, new), new, csv, succeeded, Reported)
=============================================================================
