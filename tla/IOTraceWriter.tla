---------------------------- MODULE IOTraceWriter ----------------------------
(***************************************************************************)
(* The class IOTraceWriter, which threads share to write a trace of their  *)
(* I/O, and read_io_trace, which reads one back.  append first looks       *)
(* whether the writer is enabled without the mutex, and again with it.     *)
(* The stream keeps what it is given in a buffer, of which any part may    *)
(* have reached the file; the process may end at any time.  A disk that    *)
(* was full is taken to stay so until the stream is closed.                *)
(*                                                                         *)
(* A row stands for its number, the call of append it is of and its last   *)
(* field, cache_miss, which no comma follows: a file that ends inside it   *)
(* ends in a shorter number.  The other fields are the arguments of the    *)
(* call, whose decimal form is exact.                                      *)
(***************************************************************************)
EXTENDS Integers, Sequences

CONSTANTS Threads,
          NoOne,         \* no thread holds the mutex
          MaxAppends,    \* bound: calls of append that find the writer enabled
          CacheMiss      \* the cache_miss that each call is given

Calls == 1 .. MaxAppends

Bytes == 0 .. 255        \* uint8_t

ASSUME TraceAssumption ==
    NoOne \notin Threads /\ MaxAppends \in Nat /\ CacheMiss \in [Calls -> Bytes]

VARIABLES running,       \* the process has not been killed
          mutex,         \* mutex_
          enabled,       \* enabled_
          seq,           \* seq_
          stream,        \* out_: "closed", "good", "refused" or "full"
          rows,          \* the rows given to the stream since the file was opened
          torn,          \* the row that filled the disk, if one did
          lines,         \* the whole lines in the file, its header included
          tail,          \* what follows them of the next line: "none", "part" (up to
                         \* its last field), with one "digit" or two "digits" of a
                         \* longer last number, or "all" but the newline
          pc, num,       \* of each thread in append, and the number of its row
          calls,         \* calls of append so far
          call,          \* the call each thread makes (history)
          undisturbed,   \* the calls since whose begin the stream has been good
                         \* and no open or close has been called (history)
          promised,      \* the undisturbed calls that returned (history)
          lost,          \* rows the stream has not taken (history)
          flushed        \* the last close wrote everything to the file (history)

textVars == <<rows, torn>>
fileVars == <<lines, tail>>
threadVars == <<pc, num, calls, call>>
vars == <<running, mutex, enabled, seq, stream, textVars, fileVars, threadVars,
          undisturbed, promised, lost, flushed>>

RowType == [seq : Nat, call : Calls, cache_miss : Bytes]

Tails == {"none", "part", "digit", "digits", "all"}

\* The stream is open but has an error bit set, so that it takes nothing: it was
\* opened once more ("refused"), or the disk did not take what it wrote ("full").
Failed == stream \in {"refused", "full"}

TraceTypeOK ==
    /\ running \in BOOLEAN /\ enabled \in BOOLEAN /\ flushed \in BOOLEAN
    /\ mutex \in Threads \cup {NoOne}
    /\ seq \in Nat /\ lost \in Nat /\ lines \in Nat
    /\ stream \in {"closed", "good", "refused", "full"}
    /\ rows \in Seq(RowType) /\ torn \in Seq(RowType) /\ Len(torn) <= 1
    /\ tail \in Tails
    /\ pc \in [Threads -> {"idle", "lock", "number", "write"}]
    /\ num \in [Threads -> Nat]
    /\ calls \in 0 .. MaxAppends
    /\ call \in [Threads -> 0 .. MaxAppends]
    /\ undisturbed \subseteq Calls /\ promised \subseteq Calls

Init ==
    /\ running = TRUE /\ mutex = NoOne
    /\ enabled = FALSE /\ seq = 0 /\ stream = "closed"
    /\ rows = <<>> /\ torn = <<>> /\ lines = 0 /\ tail = "none"
    /\ pc = [t \in Threads |-> "idle"] /\ num = [t \in Threads |-> 0]
    /\ calls = 0 /\ call = [t \in Threads |-> 0]
    /\ undisturbed = {} /\ promised = {} /\ lost = 0 /\ flushed = FALSE
-----------------------------------------------------------------------------
\* The rows the stream has taken, the one it took a part of included; each is a
\* line of the file, after the header.
Text == rows \o torn

\* The lines given to the stream as a whole: the header and the rows.
Given == Len(rows) + 1

\* An end of a line that may follow another one when more of it is written.
Extends(old, new) ==
    \/ old = "none" \/ new = old \/ new = "all"
    \/ old = "part" /\ new # "none"
    \/ old = "digit" /\ new = "digits"

\* A file that ends in so much of a line has its last number cut.
Cut(rest) == rest \in {"digit", "digits"}

\* The value of a number v in the decimal form that is left of it.
Shown(v, rest) == IF rest = "digits" \/ v < 100 THEN v \div 10 ELSE v \div 100

\* More of what was given to the stream is in the file: whole lines, and a part
\* of the next one, which may be the row the disk did not take the rest of.
Reaches(n, rest) ==
    /\ n >= lines /\ n <= Given
    /\ rest # "none" => n <= Len(Text)
    /\ Cut(rest) => n > 0 /\ Text[n].cache_miss >= IF rest = "digits" THEN 100 ELSE 10
    /\ n = lines => Extends(tail, rest)
    /\ lines' = n /\ tail' = rest

\* open when no trace is open: the file is truncated and the header written.
Open ==
    /\ running /\ mutex = NoOne
    /\ stream = "closed"
    /\ stream' = "good" /\ rows' = <<>> /\ torn' = <<>> /\ lines' = 0 /\ tail' = "none"
    /\ seq' = 0 /\ enabled' = TRUE
    /\ undisturbed' = {} /\ promised' = {} /\ lost' = 0 /\ flushed' = FALSE
    /\ UNCHANGED <<running, mutex, threadVars>>

\* open when one is: std::ofstream refuses and keeps the open one, with its
\* failbit set; open throws and leaves everything else as it was.
OpenAgain ==
    /\ running /\ mutex = NoOne
    /\ stream # "closed"
    /\ stream' = IF stream = "full" THEN "full" ELSE "refused"
    /\ undisturbed' = {}
    /\ UNCHANGED <<running, mutex, enabled, seq, textVars, fileVars, threadVars, promised,
                   lost, flushed>>

\* Fault: appends stay enabled.
CloseEnabled ==
    /\ running /\ mutex = NoOne
    /\ stream # "closed"
    /\ \E n \in 0 .. Given, rest \in Tails :
        /\ Reaches(n, rest)
        /\ flushed' = (n = Given /\ rest = "none")
    /\ stream' = "closed"
    /\ undisturbed' = {}
    /\ UNCHANGED <<running, mutex, enabled, seq, textVars, threadVars, promised, lost>>

\* close, in which the disk may take what is left in the buffer, or a part of it;
\* nobody is told.
Close ==
    /\ running /\ mutex = NoOne
    /\ stream # "closed"
    /\ \E n \in 0 .. Given, rest \in Tails :
        /\ Reaches(n, rest)
        /\ flushed' = (n = Given /\ rest = "none")
    /\ enabled' = FALSE /\ stream' = "closed"
    /\ undisturbed' = {}
    /\ UNCHANGED <<running, mutex, seq, textVars, threadVars, promised, lost>>

\* The buffer of the stream is full, and some of it is written.
Flush ==
    /\ running /\ stream # "closed"
    /\ \E n \in 0 .. Given, rest \in Tails : Reaches(n, rest)
    /\ UNCHANGED <<running, mutex, enabled, seq, stream, textVars, threadVars, undisturbed,
                   promised, lost, flushed>>
-----------------------------------------------------------------------------
At(t, label) == running /\ pc[t] = label

Step(t, label) == pc' = [pc EXCEPT ![t] = label]

\* The call of append returns, and gives the mutex back.
Return(t) ==
    /\ mutex' = NoOne
    /\ Step(t, "idle")
    /\ promised' = promised \cup ({call[t]} \cap undisturbed)
    /\ UNCHANGED <<running, enabled, calls, call, flushed>>

\* append finds the writer enabled, without the mutex.  (If it is not, the call
\* returns and has changed nothing.)
CallAppend(t) ==
    /\ At(t, "idle")
    /\ enabled /\ calls < MaxAppends
    /\ calls' = calls + 1
    /\ call' = [call EXCEPT ![t] = calls + 1]
    /\ undisturbed' = undisturbed \cup IF stream = "good" THEN {calls + 1} ELSE {}
    /\ Step(t, "lock")
    /\ UNCHANGED <<running, mutex, enabled, seq, stream, textVars, fileVars, num, promised,
                   lost, flushed>>

\* Fault: the mutex is not taken.
LockNothing(t) ==
    /\ At(t, "lock") /\ mutex = NoOne
    /\ mutex' = NoOne
    /\ Step(t, "number")
    /\ UNCHANGED <<running, enabled, seq, stream, textVars, fileVars, num, calls, call,
                   undisturbed, promised, lost, flushed>>

\* Fault: append gives up if another thread holds the mutex.
LockOrReturn(t) ==
    /\ At(t, "lock")
    /\ \/ mutex = NoOne /\ mutex' = t /\ Step(t, "number") /\ UNCHANGED promised
       \/ /\ mutex # NoOne /\ UNCHANGED mutex /\ Step(t, "idle")
          /\ promised' = promised \cup ({call[t]} \cap undisturbed)
    /\ UNCHANGED <<running, enabled, seq, stream, textVars, fileVars, num, calls, call,
                   undisturbed, lost, flushed>>

Lock(t) ==
    /\ At(t, "lock") /\ mutex = NoOne
    /\ mutex' = t
    /\ Step(t, "number")
    /\ UNCHANGED <<running, enabled, seq, stream, textVars, fileVars, num, calls, call,
                   undisturbed, promised, lost, flushed>>

\* Fault: the mutex is kept if the writer is not enabled any more.
NumberKeepsLock(t) ==
    /\ At(t, "number")
    /\ IF enabled
       THEN num' = [num EXCEPT ![t] = seq] /\ seq' = seq + 1 /\ Step(t, "write")
       ELSE Step(t, "idle") /\ UNCHANGED <<num, seq>>
    /\ UNCHANGED <<running, mutex, enabled, stream, textVars, fileVars, calls, call,
                   undisturbed, promised, lost, flushed>>

\* The second look at enabled; then the row gets its number.
Number(t) ==
    /\ At(t, "number")
    /\ \/ /\ enabled
          /\ num' = [num EXCEPT ![t] = seq] /\ seq' = seq + 1
          /\ Step(t, "write")
          /\ UNCHANGED <<running, mutex, enabled, calls, call, promised, flushed>>
       \/ ~enabled /\ Return(t) /\ UNCHANGED <<num, seq>>
    /\ UNCHANGED <<stream, textVars, fileVars, undisturbed, lost>>

RowOf(t) == [seq |-> num[t], call |-> call[t], cache_miss |-> CacheMiss[call[t]]]

\* The row is given to the stream.
Write(t) ==
    /\ At(t, "write") /\ stream = "good"
    /\ rows' = Append(rows, RowOf(t))
    /\ Return(t)
    /\ UNCHANGED <<seq, stream, torn, fileVars, num, undisturbed, lost>>

\* A stream with an error bit takes nothing.  One that gets it now, because the disk
\* is full, has taken a part of the row, but not its newline.
WriteLost(t) ==
    /\ At(t, "write")
    /\ \/ stream = "good" /\ stream' = "full" /\ torn' = <<RowOf(t)>>
       \/ stream # "good" /\ UNCHANGED <<stream, torn>>
    /\ undisturbed' = {}
    /\ lost' = lost + 1
    /\ mutex' = NoOne
    /\ Step(t, "idle")
    /\ UNCHANGED <<running, enabled, seq, rows, fileVars, num, calls, call, promised, flushed>>

\* The process is killed: what is not in the file is gone.
Crash ==
    /\ running /\ running' = FALSE
    /\ UNCHANGED <<mutex, enabled, seq, stream, textVars, fileVars, threadVars, undisturbed,
                   promised, lost, flushed>>

Ended == ~running /\ UNCHANGED vars

InAppend(t) == Lock(t) \/ Number(t) \/ Write(t) \/ WriteLost(t)

Next ==
    \/ Open \/ OpenAgain \/ Close \/ Flush \/ Crash \/ Ended
    \/ \E t \in Threads : CallAppend(t) \/ InAppend(t)

\* A thread goes on in append when it can; the mutex is never held for ever and
\* the calls are finite in number, so weak fairness is enough to get it.
Spec == Init /\ [][Next]_vars /\ \A t \in Threads : WF_vars(InAppend(t))
-----------------------------------------------------------------------------
\* The lines of the file that have all their fields, the header included.
Complete == lines + (IF tail \in {"digit", "digits", "all"} THEN 1 ELSE 0)

\* The rows of these lines, the last one with what is left of its last number.
RowsRead ==
    [k \in 1 .. Complete - 1 |->
        IF k = lines /\ Cut(tail) THEN [Text[k] EXCEPT !.cache_miss = Shown(@, tail)]
        ELSE Text[k]]

\* Fault: a row that lacks fields is taken for one.
ReadTraceLeniently ==
    [throws |-> Complete = 0,
     rows |-> IF tail = "part"
              THEN Append(RowsRead, [seq |-> 0, call |-> 0, cache_miss |-> 0])
              ELSE RowsRead]

\* read_io_trace of the file as it is: it throws without the header, and at a
\* row that lacks some of its fields.
ReadTrace == [throws |-> Complete = 0 \/ tail = "part", rows |-> RowsRead]

\* The rows are in the order of their numbers, from 0 on and with no gap, and no
\* call of append has two, whatever threads write at the same time.  The numbers
\* go on past the rows only for rows a failed stream has not taken.
RowsInOrder ==
    /\ \A k \in 1 .. Len(rows) : rows[k].seq = k - 1
    /\ \A j, k \in 1 .. Len(rows) : rows[j].call = rows[k].call => j = k
    /\ mutex = NoOne => seq = Len(rows) + lost
    /\ lost > 0 => Failed \/ stream = "closed"

\* Whenever the process ends, and whatever the disk has taken, the trace that is
\* read back is an error or has, up to some number, every row in its place, each
\* of a call of its own and with the values of that call.  The last value of the
\* last row is the one exception, if the file ends inside it, and it is then too
\* small: read_io_trace cannot know.
ReadsWhatWasWritten ==
    ~ReadTrace.throws =>
        LET read == ReadTrace.rows
        IN  \A k \in 1 .. Len(read) :
                /\ read[k].seq = k - 1
                /\ read[k].call \in 1 .. calls
                /\ \A j \in 1 .. k - 1 : read[j].call # read[k].call
                /\ \/ read[k].cache_miss = CacheMiss[read[k].call]
                   \/ /\ k = Len(read) /\ Cut(tail)
                      /\ read[k].cache_miss < CacheMiss[read[k].call]

\* A call of append that ran while the trace was open, and no open, close or full
\* disk came in between, is in the trace: at once among the rows, and in what is
\* read back once close has written everything.
AppendsAreKept ==
    /\ \A c \in promised : \E k \in 1 .. Len(rows) : rows[k].call = c
    /\ stream = "closed" /\ flushed =>
           /\ ~ReadTrace.throws
           /\ \A c \in promised : \E k \in 1 .. Len(ReadTrace.rows) :
                  ReadTrace.rows[k].call = c

\* Every call of append returns, unless the process ends.
AppendsReturn == \A t \in Threads : pc[t] = "lock" ~> (pc[t] = "idle" \/ ~running)
=============================================================================
