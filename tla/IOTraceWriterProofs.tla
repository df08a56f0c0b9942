------------------------- MODULE IOTraceWriterProofs -------------------------
(***************************************************************************)
(* Proofs about the trace writer: for any number of threads and of calls,  *)
(* rows are numbered without a gap, what is read back was written but for  *)
(* the last number of a file that ends in it, and a call that nothing came *)
(* in the way of is in the trace.                                          *)
(***************************************************************************)
EXTENDS IOTraceWriter, TLAPS

Active(t) == pc[t] # "idle"

InRows(c) == \E k \in 1 .. Len(rows) : rows[k].call = c

InText(c) == \E k \in 1 .. Len(Text) : Text[k].call = c

\* The mutex: a thread has it from its lock to its return.
MutexInv ==
    /\ \A t \in Threads : pc[t] \in {"number", "write"} <=> mutex = t
    /\ enabled <=> stream # "closed"
    /\ \A t \in Threads : pc[t] = "write" => enabled

\* The numbers: the thread that has one has the last one.
NumberInv ==
    /\ (\A t \in Threads : pc[t] # "write") => seq = Len(rows) + lost
    /\ \A t \in Threads : pc[t] = "write" => seq = Len(rows) + lost + 1 /\ num[t] = seq - 1
    /\ lost > 0 => Failed \/ stream = "closed"

\* The calls: a call has one row, with its values, and none before its thread has
\* written it; the row that filled the disk is the last one.
CallInv ==
    /\ \A k \in 1 .. Len(Text) :
           /\ Text[k].seq = k - 1 /\ Text[k].call \in 1 .. calls
           /\ Text[k].cache_miss = CacheMiss[Text[k].call]
    /\ \A j, k \in 1 .. Len(Text) : Text[j].call = Text[k].call => j = k
    /\ \A t \in Threads : Active(t) => call[t] \in 1 .. calls /\ ~InText(call[t])
    /\ \A t, u \in Threads : Active(t) /\ Active(u) /\ call[t] = call[u] => t = u
    /\ stream = "good" => torn = <<>>

\* The file has lines that were given to the stream, and part of the next one.
FileInv ==
    /\ lines <= Len(rows) + 1
    /\ tail # "none" => lines <= Len(Text)
    /\ Cut(tail) => lines > 0 /\ Text[lines].cache_miss >= 10
    /\ stream = "closed" /\ flushed => lines = Len(rows) + 1 /\ tail = "none"

\* A call that nothing came in the way of is being made, or has its row.
PromiseInv ==
    /\ undisturbed # {} => stream = "good"
    /\ \A c \in undisturbed : InRows(c) \/ \E t \in Threads : Active(t) /\ call[t] = c
    /\ \A c \in promised : InRows(c)

TraceInv == TraceTypeOK /\ MutexInv /\ NumberInv /\ CallInv /\ FileInv /\ PromiseInv
-----------------------------------------------------------------------------
LEMMA EmptyIsSeq == ASSUME NEW S PROVE <<>> \in Seq(S)
  <1> QED OBVIOUS

LEMMA OneIsSeq == ASSUME NEW S, NEW e \in S PROVE <<e>> \in Seq(S) /\ Len(<<e>>) = 1
  <1> QED OBVIOUS

LEMMA MissIsInt == ASSUME NEW r \in RowType PROVE r.cache_miss \in Int
  <1> QED BY DEF RowType, Bytes

\* A sequence and another one after it.
LEMMA Joined ==
    ASSUME NEW S, NEW r \in Seq(S), NEW q \in Seq(S)
    PROVE  /\ r \o q \in Seq(S) /\ Len(r \o q) = Len(r) + Len(q)
           /\ Len(r) \in Nat /\ Len(q) \in Nat
           /\ \A k \in 1 .. Len(r) : (r \o q)[k] = r[k]
           /\ r \o <<>> = r
           /\ \A e : r \o <<e>> = Append(r, e)
  <1> QED OBVIOUS

\* What the text is made of.
LEMMA TextHas ==
    ASSUME TraceTypeOK
    PROVE  /\ Text \in Seq(RowType) /\ Len(Text) = Len(rows) + Len(torn)
           /\ Len(rows) \in Nat /\ Len(torn) \in Nat /\ Len(Text) \in Nat
           /\ \A k \in 1 .. Len(rows) : Text[k] = rows[k]
  <1>1. rows \in Seq(RowType) /\ torn \in Seq(RowType)
    BY DEF TraceTypeOK
  <1>2. /\ rows \o torn \in Seq(RowType) /\ Len(rows \o torn) = Len(rows) + Len(torn)
        /\ Len(rows) \in Nat /\ Len(torn) \in Nat
        /\ \A k \in 1 .. Len(rows) : (rows \o torn)[k] = rows[k]
    BY <1>1, Joined, Zenon
  <1>3. Len(rows) + Len(torn) \in Nat
    BY <1>2
  <1> QED BY <1>2, <1>3, Zenon DEF Text

\* A call that has a row among those taken as a whole has one in the text.
LEMMA RowsInText ==
    ASSUME TraceTypeOK, NEW c, InRows(c)
    PROVE  InText(c)
  <1>1. PICK k \in 1 .. Len(rows) : rows[k].call = c
    BY DEF InRows
  <1>2. k \in 1 .. Len(Text) /\ Text[k] = rows[k]
    BY TextHas
  <1> QED BY <1>1, <1>2 DEF InText

LEMMA TraceInitHolds == Init => TraceInv
  <1> SUFFICES ASSUME Init PROVE TraceInv
    OBVIOUS
  <1> USE TraceAssumption DEF Init
  <1>1. Len(rows) = 0
    OBVIOUS
  <1>2. TraceTypeOK
    <2>1. rows \in Seq(RowType) /\ torn \in Seq(RowType) /\ Len(torn) <= 1
      <3>1. rows \in Seq(RowType) /\ torn \in Seq(RowType)
        BY EmptyIsSeq, Zenon
      <3>2. Len(torn) <= 1
        OBVIOUS
      <3> QED BY <3>1, <3>2
    <2>2. pc \in [Threads -> {"idle", "lock", "number", "write"}] /\ num \in [Threads -> Nat]
      OBVIOUS
    <2>3. call \in [Threads -> 0 .. MaxAppends] /\ calls \in 0 .. MaxAppends
      OBVIOUS
    <2>4. /\ running \in BOOLEAN /\ enabled \in BOOLEAN /\ flushed \in BOOLEAN
          /\ mutex \in Threads \cup {NoOne} /\ seq \in Nat /\ lost \in Nat /\ lines \in Nat
          /\ stream = "closed" /\ tail \in Tails /\ undisturbed = {} /\ promised = {}
      BY DEF Tails
    <2> QED BY <2>1, <2>2, <2>3, <2>4, Zenon DEF TraceTypeOK
  <1>3. MutexInv /\ NumberInv
    BY <1>1 DEF MutexInv, NumberInv
  <1>4. Len(Text) = 0
    BY <1>1, <1>2, TextHas
  <1>5. CallInv /\ FileInv /\ PromiseInv
    BY <1>1, <1>4 DEF CallInv, FileInv, PromiseInv, Active, InText, Cut
  <1> QED BY <1>2, <1>3, <1>5 DEF TraceInv

\* Steps of the stream and of the file, the threads being where they are.
LEMMA OpenStep == TraceInv /\ Open => TraceInv'
  <1> SUFFICES ASSUME TraceInv, Open PROVE TraceInv'
    OBVIOUS
  <1> USE TraceAssumption DEF TraceInv, Open, threadVars
  <1>1. Len(rows') = 0 /\ rows' = <<>> /\ Len(torn') = 0 /\ torn' = <<>>
    OBVIOUS
  <1>2. \A t \in Threads : pc'[t] \notin {"number", "write"}
    BY DEF MutexInv
  <1>3. TraceTypeOK'
    <2>1. rows' \in Seq(RowType) /\ torn' \in Seq(RowType)
      BY EmptyIsSeq, Zenon
    <2>2. tail' \in Tails /\ lines' \in Nat /\ stream' = "good" /\ Len(torn') <= 1
      BY <1>1 DEF Tails
    <2> QED BY <2>1, <2>2 DEF TraceTypeOK
  <1>4. MutexInv' /\ NumberInv'
    BY <1>1, <1>2 DEF MutexInv, NumberInv
  <1>5. Text' = <<>> /\ Len(Text') = 0
    BY <1>1 DEF Text
  <1>6. CallInv'
    BY <1>1, <1>5 DEF CallInv, Active, InText
  <1>7. FileInv' /\ PromiseInv'
    BY <1>1 DEF FileInv, PromiseInv, Cut
  <1> QED BY <1>3, <1>4, <1>6, <1>7

LEMMA OpenAgainStep == TraceInv /\ OpenAgain => TraceInv'
  <1> SUFFICES ASSUME TraceInv, OpenAgain PROVE TraceInv'
    OBVIOUS
  <1> USE DEF TraceInv, OpenAgain, threadVars, fileVars, textVars
  <1>1. stream \in {"good", "refused", "full"} /\ stream' \in {"refused", "full"}
    BY DEF TraceTypeOK
  <1>2. TraceTypeOK'
    BY <1>1 DEF TraceTypeOK
  <1>3. MutexInv' /\ NumberInv'
    BY <1>1 DEF MutexInv, NumberInv, Failed
  <1>4. CallInv' /\ FileInv'
    <2>1. Text' = Text
      BY DEF Text
    <2> QED BY <1>1, <2>1 DEF CallInv, FileInv, Active, InText
  <1>5. PromiseInv'
    BY DEF PromiseInv, InRows
  <1> QED BY <1>2, <1>3, <1>4, <1>5

\* What reaches the file was given to the stream.
LEMMA ReachesGiven ==
    ASSUME TraceTypeOK, NEW n \in 0 .. Given, NEW rest \in Tails,
           Reaches(n, rest), rows' = rows, torn' = torn
    PROVE  /\ lines' = n /\ tail' = rest /\ lines' \in Nat /\ tail' \in Tails
           /\ lines' <= Len(rows') + 1
           /\ tail' # "none" => lines' <= Len(Text')
           /\ Cut(tail') => lines' > 0 /\ Text'[lines'].cache_miss >= 10
           /\ Text' = Text
  <1>1. Len(rows) \in Nat /\ Len(Text) \in Nat /\ Text \in Seq(RowType)
    BY TextHas
  <1>2. Text' = Text
    BY DEF Text
  <1>3. lines' = n /\ tail' = rest /\ n \in Nat /\ n <= Len(rows') + 1
    BY <1>1 DEF Reaches, Given
  <1>4. rest # "none" => n <= Len(Text)
    BY DEF Reaches
  <1>5. ASSUME Cut(rest) PROVE n > 0 /\ Text[n].cache_miss >= 10
    <2>1. n > 0 /\ Text[n].cache_miss >= (IF rest = "digits" THEN 100 ELSE 10)
      BY <1>5 DEF Reaches
    <2>2. n \in 1 .. Len(Text)
      BY <1>1, <1>3, <1>4, <1>5, <2>1 DEF Cut
    <2>3. Text[n].cache_miss \in Int
      BY <1>1, <2>2, MissIsInt
    <2> QED BY <2>1, <2>3
  <1> QED BY <1>1, <1>2, <1>3, <1>4, <1>5

LEMMA CloseStep == TraceInv /\ Close => TraceInv'
  <1> SUFFICES ASSUME TraceInv, Close PROVE TraceInv'
    OBVIOUS
  <1> USE TraceAssumption DEF TraceInv
  <1>1. /\ running' = running /\ mutex' = mutex /\ mutex = NoOne /\ seq' = seq
        /\ rows' = rows /\ torn' = torn /\ pc' = pc /\ num' = num /\ calls' = calls
        /\ call' = call /\ promised' = promised /\ lost' = lost
        /\ enabled' = FALSE /\ stream' = "closed" /\ undisturbed' = {}
    BY DEF Close, threadVars, textVars
  <1>2. PICK n \in 0 .. Given, rest \in Tails :
            Reaches(n, rest) /\ flushed' = (n = Given /\ rest = "none")
    BY DEF Close
  <1>3. /\ lines' = n /\ tail' = rest /\ lines' \in Nat /\ tail' \in Tails
        /\ lines' <= Len(rows') + 1 /\ Text' = Text
        /\ tail' # "none" => lines' <= Len(Text')
        /\ Cut(tail') => lines' > 0 /\ Text'[lines'].cache_miss >= 10
    BY <1>1, <1>2, ReachesGiven
  <1>4. flushed' \in BOOLEAN
    BY <1>2
  <1>5. TraceTypeOK'
    BY <1>1, <1>3, <1>4 DEF TraceTypeOK
  <1>6. \A t \in Threads : pc[t] \notin {"number", "write"}
    BY <1>1 DEF MutexInv
  <1>7. MutexInv' /\ NumberInv'
    BY <1>1, <1>6 DEF MutexInv, NumberInv
  <1>8. CallInv'
    BY <1>1, <1>3 DEF CallInv, Active, InText
  <1>9. FileInv'
    BY <1>1, <1>2, <1>3 DEF FileInv, Given
  <1>10. PromiseInv'
    BY <1>1 DEF PromiseInv, InRows
  <1> QED BY <1>5, <1>7, <1>8, <1>9, <1>10

LEMMA FlushStep == TraceInv /\ Flush => TraceInv'
  <1> SUFFICES ASSUME TraceInv, Flush PROVE TraceInv'
    OBVIOUS
  <1> USE DEF TraceInv
  <1>1. /\ running' = running /\ mutex' = mutex /\ enabled' = enabled /\ seq' = seq
        /\ stream' = stream /\ stream # "closed"
        /\ rows' = rows /\ torn' = torn /\ pc' = pc /\ num' = num /\ calls' = calls
        /\ call' = call /\ undisturbed' = undisturbed /\ promised' = promised /\ lost' = lost
        /\ flushed' = flushed
    BY DEF Flush, threadVars, textVars
  <1>2. PICK n \in 0 .. Given, rest \in Tails : Reaches(n, rest)
    BY DEF Flush
  <1>3. /\ lines' = n /\ tail' = rest /\ lines' \in Nat /\ tail' \in Tails
        /\ lines' <= Len(rows') + 1 /\ Text' = Text
        /\ tail' # "none" => lines' <= Len(Text')
        /\ Cut(tail') => lines' > 0 /\ Text'[lines'].cache_miss >= 10
    BY <1>1, <1>2, ReachesGiven
  <1>4. TraceTypeOK'
    BY <1>1, <1>3 DEF TraceTypeOK
  <1>5. MutexInv' /\ NumberInv'
    BY <1>1 DEF MutexInv, NumberInv, Failed
  <1>6. CallInv' /\ PromiseInv'
    BY <1>1, <1>3 DEF CallInv, PromiseInv, Active, InRows, InText
  <1>7. FileInv'
    BY <1>1, <1>3 DEF FileInv
  <1> QED BY <1>4, <1>5, <1>6, <1>7

\* The end of the process, and no step at all.
LEMMA StillStep == TraceInv /\ (Crash \/ Ended \/ UNCHANGED vars) => TraceInv'
  <1> SUFFICES ASSUME TraceInv, Crash \/ Ended \/ UNCHANGED vars PROVE TraceInv'
    OBVIOUS
  <1>1. /\ running' \in BOOLEAN
        /\ UNCHANGED <<mutex, enabled, seq, stream, textVars, fileVars, threadVars, undisturbed,
                       promised, lost, flushed>>
    BY DEF Crash, Ended, vars, TraceInv, TraceTypeOK
  <1> QED
    BY <1>1 DEF TraceInv, TraceTypeOK, MutexInv, NumberInv, CallInv, FileInv, PromiseInv,
       Active, InRows, InText, Text, Failed, fileVars, threadVars, textVars
-----------------------------------------------------------------------------
\* Steps of a thread in append.
LEMMA CallStep ==
    ASSUME TraceInv, NEW t \in Threads, CallAppend(t)
    PROVE  TraceInv'
  <1> USE TraceAssumption DEF TraceInv
  <1>1. /\ running' = running /\ mutex' = mutex /\ enabled' = enabled /\ seq' = seq
        /\ stream' = stream /\ rows' = rows /\ torn' = torn /\ lines' = lines
        /\ tail' = tail /\ Text' = Text /\ num' = num /\ promised' = promised /\ lost' = lost /\ flushed' = flushed
        /\ pc[t] = "idle" /\ enabled /\ calls < MaxAppends /\ calls' = calls + 1
    BY DEF CallAppend, At, fileVars, textVars, Text
  <1>2. /\ pc \in [Threads -> {"idle", "lock", "number", "write"}]
        /\ call \in [Threads -> 0 .. MaxAppends] /\ calls \in Nat /\ MaxAppends \in Nat
    BY DEF TraceTypeOK
  <1>3. /\ pc' = [pc EXCEPT ![t] = "lock"] /\ call' = [call EXCEPT ![t] = calls + 1]
        /\ undisturbed' = undisturbed \cup (IF stream = "good" THEN {calls + 1} ELSE {})
    BY DEF CallAppend, Step
  <1>4. /\ pc'[t] = "lock" /\ call'[t] = calls + 1
        /\ \A u \in Threads \ {t} : pc'[u] = pc[u] /\ call'[u] = call[u]
    BY <1>2, <1>3
  <1>5. TraceTypeOK'
    <2>1. calls' \in 0 .. MaxAppends /\ calls + 1 \in Calls
      BY <1>1, <1>2 DEF Calls
    <2>2. /\ pc' \in [Threads -> {"idle", "lock", "number", "write"}]
          /\ call' \in [Threads -> 0 .. MaxAppends]
      BY <1>1, <1>2, <1>3, <2>1
    <2>3. undisturbed' \subseteq Calls
      BY <1>3, <2>1 DEF TraceTypeOK
    <2> QED BY <1>1, <2>1, <2>2, <2>3 DEF TraceTypeOK
  <1>6. MutexInv'
    BY <1>1, <1>4 DEF MutexInv
  <1>7. NumberInv'
    BY <1>1, <1>4 DEF NumberInv, Failed
  <1>8. CallInv'
    <2>1. \A k \in 1 .. Len(Text) : Text'[k].call \in 1 .. calls' /\ Text'[k].call # calls + 1
      BY <1>1, <1>2 DEF CallInv
    <2>2. \A u \in Threads \ {t} : Active(u)' => Active(u) /\ call'[u] \in 1 .. calls
      BY <1>4 DEF CallInv, Active
    <2>3. \A u \in Threads : Active(u)' => call'[u] \in 1 .. calls' /\ ~InText(call[u])'
      <3> TAKE u \in Threads
      <3>1. CASE u = t
        BY <1>1, <1>2, <1>4, <2>1, <3>1 DEF InText
      <3>2. CASE u # t
        BY <1>1, <1>2, <1>4, <2>2, <3>2 DEF CallInv, InText
      <3> QED BY <3>1, <3>2
    <2>4. \A u, v \in Threads : Active(u)' /\ Active(v)' /\ call'[u] = call'[v] => u = v
      BY <1>2, <1>4, <2>2 DEF CallInv
    <2> QED BY <1>1, <2>1, <2>3, <2>4 DEF CallInv
  <1>9. FileInv'
    BY <1>1 DEF FileInv
  <1>10. PromiseInv'
    <2>1. \A c \in undisturbed' : c \in undisturbed \/ (c = call'[t] /\ Active(t)')
      BY <1>3, <1>4 DEF Active
    <2>2. \A u \in Threads : Active(u) => Active(u)' /\ call'[u] = call[u]
      BY <1>1, <1>4 DEF Active
    <2>3. \A c : InRows(c)' <=> InRows(c)
      BY <1>1 DEF InRows
    <2>4. undisturbed' # {} => stream' = "good"
      BY <1>1, <1>3 DEF PromiseInv
    <2> QED BY <1>1, <2>1, <2>2, <2>3, <2>4 DEF PromiseInv
  <1> QED BY <1>5, <1>6, <1>7, <1>8, <1>9, <1>10

LEMMA LockStep ==
    ASSUME TraceInv, NEW t \in Threads, Lock(t)
    PROVE  TraceInv'
  <1> USE TraceAssumption DEF TraceInv
  <1>1. /\ running' = running /\ enabled' = enabled /\ seq' = seq /\ stream' = stream
        /\ rows' = rows /\ torn' = torn /\ lines' = lines /\ tail' = tail
        /\ Text' = Text /\ num' = num /\ calls' = calls /\ call' = call /\ undisturbed' = undisturbed
        /\ promised' = promised /\ lost' = lost /\ flushed' = flushed
        /\ pc[t] = "lock" /\ mutex = NoOne /\ mutex' = t
        /\ pc' = [pc EXCEPT ![t] = "number"]
    BY DEF Lock, At, Step, fileVars, textVars, Text
  <1>2. pc \in [Threads -> {"idle", "lock", "number", "write"}]
    BY DEF TraceTypeOK
  <1>3. pc'[t] = "number" /\ \A u \in Threads \ {t} : pc'[u] = pc[u]
    BY <1>1, <1>2
  <1>4. TraceTypeOK'
    BY <1>1, <1>2 DEF TraceTypeOK
  <1>5. MutexInv'
    BY <1>1, <1>3 DEF MutexInv
  <1>6. NumberInv'
    BY <1>1, <1>3 DEF NumberInv, Failed
  <1>7. \A u \in Threads : Active(u)' <=> Active(u)
    BY <1>1, <1>3 DEF Active
  <1>8. \A c : (InRows(c)' <=> InRows(c)) /\ (InText(c)' <=> InText(c))
    BY <1>1 DEF InRows, InText
  <1>9. CallInv' /\ FileInv'
    BY <1>1, <1>7, <1>8 DEF CallInv, FileInv
  <1>10. PromiseInv'
    BY <1>1, <1>7, <1>8 DEF PromiseInv
  <1> QED BY <1>4, <1>5, <1>6, <1>9, <1>10

LEMMA NumberStep ==
    ASSUME TraceInv, NEW t \in Threads, Number(t)
    PROVE  TraceInv'
  <1> USE TraceAssumption DEF TraceInv
  <1>1. /\ running' = running /\ enabled' = enabled /\ stream' = stream
        /\ rows' = rows /\ torn' = torn /\ lines' = lines /\ tail' = tail
        /\ Text' = Text /\ calls' = calls /\ call' = call /\ undisturbed' = undisturbed
        /\ lost' = lost /\ flushed' = flushed /\ pc[t] = "number"
    BY DEF Number, Return, At, fileVars, textVars, Text
  <1>2. /\ pc \in [Threads -> {"idle", "lock", "number", "write"}]
        /\ num \in [Threads -> Nat] /\ seq \in Nat
    BY DEF TraceTypeOK
  <1>3. mutex = t /\ \A u \in Threads \ {t} : pc[u] \notin {"number", "write"}
    BY <1>1 DEF MutexInv
  <1>4. \A c : (InRows(c)' <=> InRows(c)) /\ (InText(c)' <=> InText(c))
    BY <1>1 DEF InRows, InText
  <1>5. FileInv'
    BY <1>1 DEF FileInv
  <1>6. CASE enabled
    <2>1. /\ mutex' = mutex /\ promised' = promised /\ seq' = seq + 1
          /\ num' = [num EXCEPT ![t] = seq] /\ pc' = [pc EXCEPT ![t] = "write"]
      BY <1>6 DEF Number, Step
    <2>2. /\ pc'[t] = "write" /\ num'[t] = seq
          /\ \A u \in Threads \ {t} : pc'[u] = pc[u]
      BY <1>2, <2>1
    <2>3. TraceTypeOK'
      BY <1>1, <1>2, <2>1 DEF TraceTypeOK
    <2>4. MutexInv'
      BY <1>1, <1>3, <1>6, <2>1, <2>2 DEF MutexInv
    <2>5. seq = Len(rows) + lost
      BY <1>1, <1>3 DEF NumberInv
    <2>6. NumberInv'
      BY <1>1, <1>2, <1>3, <2>1, <2>2, <2>5 DEF NumberInv, Failed
    <2>7. \A u \in Threads : Active(u)' <=> Active(u)
      BY <1>1, <2>2 DEF Active
    <2>8. CallInv' /\ PromiseInv'
      BY <1>1, <1>4, <2>1, <2>7 DEF CallInv, PromiseInv
    <2> QED BY <1>5, <2>3, <2>4, <2>6, <2>8
  <1>7. CASE ~enabled
    <2>1. undisturbed = {}
      BY <1>7 DEF MutexInv, PromiseInv
    <2>2. /\ mutex' = NoOne /\ promised' = promised /\ seq' = seq /\ num' = num
          /\ pc' = [pc EXCEPT ![t] = "idle"]
      BY <1>7, <2>1 DEF Number, Return, Step
    <2>3. pc'[t] = "idle" /\ \A u \in Threads \ {t} : pc'[u] = pc[u]
      BY <1>2, <2>2
    <2>4. TraceTypeOK'
      BY <1>1, <1>2, <2>2 DEF TraceTypeOK
    <2>5. MutexInv'
      BY <1>1, <1>3, <2>2, <2>3 DEF MutexInv
    <2>6. seq = Len(rows) + lost
      BY <1>1, <1>3 DEF NumberInv
    <2>7. NumberInv'
      BY <1>1, <1>2, <1>3, <2>2, <2>3, <2>6 DEF NumberInv, Failed
    <2>8. \A u \in Threads : Active(u)' => Active(u)
      BY <1>1, <2>3 DEF Active
    <2>9. CallInv' /\ PromiseInv'
      BY <1>1, <1>4, <2>1, <2>2, <2>8 DEF CallInv, PromiseInv
    <2> QED BY <1>5, <2>4, <2>5, <2>7, <2>9
  <1> QED BY <1>6, <1>7

\* The row a thread writes is the next one of the text, and the thread's call had
\* none before.
LEMMA NextRow ==
    ASSUME TraceInv, NEW t \in Threads, pc[t] = "write", stream = "good"
    PROVE  /\ torn = <<>> /\ Text = rows /\ lost = 0 /\ seq = Len(rows) + 1
           /\ RowOf(t) \in RowType /\ RowOf(t).seq = Len(rows)
           /\ RowOf(t).call = call[t] /\ RowOf(t).cache_miss = CacheMiss[call[t]]
           /\ call[t] \in 1 .. calls /\ call[t] \in Calls /\ ~InText(call[t])
  <1> USE TraceAssumption DEF TraceInv
  <1>1. /\ num \in [Threads -> Nat] /\ calls \in 0 .. MaxAppends /\ seq \in Nat /\ lost \in Nat
        /\ rows \in Seq(RowType) /\ Len(rows) \in Nat
    BY DEF TraceTypeOK
  <1>2. torn = <<>>
    BY DEF CallInv
  <1>3. Text = rows
    BY <1>1, <1>2, Joined, Zenon DEF Text
  <1>4. lost = 0
    BY <1>1 DEF NumberInv, Failed
  <1>5. seq = Len(rows) + 1 /\ num[t] = Len(rows) /\ num[t] \in Nat
    BY <1>1, <1>4 DEF NumberInv
  <1>6. call[t] \in 1 .. calls /\ ~InText(call[t])
    BY DEF CallInv, Active
  <1>7. call[t] \in Calls /\ CacheMiss[call[t]] \in Bytes
    BY <1>1, <1>6 DEF Calls
  <1> QED BY <1>2, <1>3, <1>4, <1>5, <1>6, <1>7 DEF RowOf, RowType

\* With it the text has one row more, of a call that is not being made any longer.
LEMMA TextGrows ==
    ASSUME TraceInv, NEW t \in Threads, pc[t] = "write", stream = "good",
           Text' = Append(rows, RowOf(t)),
           calls' = calls, call' = call, pc' = [pc EXCEPT ![t] = "idle"],
           stream' = "good" => torn' = <<>>
    PROVE  /\ CallInv'
           /\ Len(Text') = Len(Text) + 1
           /\ \A k \in 1 .. Len(Text) : Text'[k] = Text[k]
  <1> USE DEF TraceInv
  <1> DEFINE row == RowOf(t)
  <1>1. /\ Text = rows /\ row \in RowType /\ row.seq = Len(rows) /\ row.call = call[t]
        /\ row.cache_miss = CacheMiss[call[t]]
        /\ call[t] \in 1 .. calls /\ ~InText(call[t])
    BY NextRow
  <1>2. rows \in Seq(RowType) /\ pc \in [Threads -> {"idle", "lock", "number", "write"}]
    BY DEF TraceTypeOK
  <1> HIDE DEF row
  <1>3. /\ Text' = Append(Text, row) /\ Text \in Seq(RowType)
    BY <1>1, <1>2 DEF row
  <1>4. /\ Len(Text') = Len(Text) + 1 /\ Len(Text) \in Nat
        /\ \A k \in 1 .. Len(Text) : Text'[k] = Text[k]
        /\ Text'[Len(Text) + 1] = row
    BY <1>1, <1>3
  <1>5. \A k \in 1 .. Len(Text') : k \in 1 .. Len(Text) \/ k = Len(Text) + 1
    BY <1>4
  <1>6. pc'[t] = "idle" /\ \A u \in Threads \ {t} : pc'[u] = pc[u]
    BY <1>2
  <1>7. \A k \in 1 .. Len(Text') :
            /\ Text'[k].seq = k - 1 /\ Text'[k].call \in 1 .. calls'
            /\ Text'[k].cache_miss = CacheMiss[Text'[k].call]
    <2> TAKE k \in 1 .. Len(Text')
    <2>1. CASE k \in 1 .. Len(Text)
      BY <1>4, <2>1 DEF CallInv
    <2>2. CASE k = Len(Text) + 1
      BY <1>1, <1>4, <2>2
    <2> QED BY <1>5, <2>1, <2>2
  <1>8. \A j, k \in 1 .. Len(Text') : Text'[j].call = Text'[k].call => j = k
    BY <1>1, <1>4, <1>5 DEF CallInv, InText
  <1>9. \A u \in Threads : Active(u)' => u # t /\ Active(u)
    BY <1>6 DEF Active
  <1>10. \A u \in Threads : Active(u)' => call[u] \in 1 .. calls /\ call[u] # call[t] /\ ~InText(call[u])
    BY <1>9 DEF CallInv, Active
  <1>11. \A u \in Threads : Active(u)' => call'[u] \in 1 .. calls' /\ ~InText(call[u])'
    BY <1>1, <1>4, <1>5, <1>10 DEF InText
  <1> QED BY <1>4, <1>7, <1>8, <1>9, <1>11 DEF CallInv

LEMMA WriteStep ==
    ASSUME TraceInv, NEW t \in Threads, Write(t)
    PROVE  TraceInv'
  <1> USE TraceAssumption DEF TraceInv
  <1>1. /\ running' = running /\ enabled' = enabled /\ seq' = seq /\ stream' = stream
        /\ torn' = torn /\ lines' = lines /\ tail' = tail /\ num' = num
        /\ calls' = calls /\ call' = call /\ undisturbed' = undisturbed
        /\ lost' = lost /\ flushed' = flushed
        /\ pc[t] = "write" /\ stream = "good" /\ mutex' = NoOne
        /\ rows' = Append(rows, RowOf(t)) /\ pc' = [pc EXCEPT ![t] = "idle"]
        /\ promised' = promised \cup ({call[t]} \cap undisturbed)
    BY DEF Write, Return, At, Step, fileVars
  <1>2. /\ pc \in [Threads -> {"idle", "lock", "number", "write"}]
        /\ rows \in Seq(RowType) /\ seq \in Nat /\ lost \in Nat /\ lines \in Nat
    BY DEF TraceTypeOK
  <1>3. pc'[t] = "idle" /\ \A u \in Threads \ {t} : pc'[u] = pc[u]
    BY <1>1, <1>2
  <1>4. mutex = t /\ \A u \in Threads \ {t} : pc[u] \notin {"number", "write"}
    BY <1>1 DEF MutexInv
  <1>5. /\ torn = <<>> /\ Text = rows /\ lost = 0 /\ seq = Len(rows) + 1
        /\ RowOf(t) \in RowType /\ RowOf(t).call = call[t] /\ call[t] \in Calls
    BY <1>1, NextRow
  <1>6. /\ rows' \in Seq(RowType) /\ Len(rows') = Len(rows) + 1 /\ Len(rows) \in Nat
        /\ \A k \in 1 .. Len(rows) : rows'[k] = rows[k]
        /\ rows'[Len(rows) + 1] = RowOf(t)
    BY <1>1, <1>2, <1>5
  <1>7. Text' = Append(rows, RowOf(t))
    <2>1. rows' \o <<>> = rows'
      BY <1>6, Joined, Zenon
    <2> QED BY <1>1, <1>5, <2>1, Zenon DEF Text
  <1>8. CallInv' /\ Len(Text') = Len(Text) + 1 /\ \A k \in 1 .. Len(Text) : Text'[k] = Text[k]
    BY <1>1, <1>5, <1>7, TextGrows
  <1>9. \A k \in 1 .. Len(rows') : k \in 1 .. Len(rows) \/ k = Len(rows) + 1
    BY <1>6
  <1>10. \A c : InRows(c) \/ c = call[t] => InRows(c)'
    <2> TAKE c
    <2>1. ASSUME InRows(c) PROVE InRows(c)'
      <3>1. PICK k \in 1 .. Len(rows) : rows[k].call = c
        BY <2>1 DEF InRows
      <3>2. k \in 1 .. Len(rows') /\ rows'[k].call = c
        BY <1>6, <3>1
      <3> QED BY <3>2 DEF InRows
    <2>2. ASSUME c = call[t] PROVE InRows(c)'
      <3>1. Len(rows) + 1 \in 1 .. Len(rows') /\ rows'[Len(rows) + 1].call = c
        BY <1>5, <1>6, <2>2
      <3> QED BY <3>1 DEF InRows
    <2> QED BY <2>1, <2>2
  <1>11. TraceTypeOK'
    BY <1>1, <1>2, <1>6 DEF TraceTypeOK
  <1>12. MutexInv'
    BY <1>1, <1>3, <1>4 DEF MutexInv
  <1>13. NumberInv'
    BY <1>1, <1>3, <1>4, <1>5, <1>6 DEF NumberInv
  <1>14. FileInv'
    BY <1>1, <1>2, <1>5, <1>6, <1>8 DEF FileInv, Cut
  <1>15. PromiseInv'
    <2>1. \A u \in Threads : Active(u) => u = t \/ Active(u)'
      BY <1>3 DEF Active
    <2> QED BY <1>1, <1>10, <2>1 DEF PromiseInv
  <1> QED BY <1>8, <1>11, <1>12, <1>13, <1>14, <1>15

LEMMA WriteLostStep ==
    ASSUME TraceInv, NEW t \in Threads, WriteLost(t)
    PROVE  TraceInv'
  <1> USE TraceAssumption DEF TraceInv
  <1>1. /\ running' = running /\ enabled' = enabled /\ seq' = seq /\ rows' = rows
        /\ lines' = lines /\ tail' = tail /\ num' = num /\ calls' = calls /\ call' = call
        /\ promised' = promised /\ flushed' = flushed
        /\ undisturbed' = {} /\ lost' = lost + 1 /\ mutex' = NoOne
        /\ pc[t] = "write" /\ pc' = [pc EXCEPT ![t] = "idle"]
    BY DEF WriteLost, At, Step, fileVars
  <1>2. /\ pc \in [Threads -> {"idle", "lock", "number", "write"}]
        /\ seq \in Nat /\ lost \in Nat /\ lines \in Nat
        /\ rows \in Seq(RowType) /\ torn \in Seq(RowType) /\ Len(torn) <= 1
        /\ Len(rows) \in Nat
    BY DEF TraceTypeOK
  <1>3. pc'[t] = "idle" /\ \A u \in Threads \ {t} : pc'[u] = pc[u]
    BY <1>1, <1>2
  <1>4. mutex = t /\ \A u \in Threads \ {t} : pc[u] \notin {"number", "write"}
    BY <1>1 DEF MutexInv
  <1>5. /\ stream # "closed" /\ stream' \in {"refused", "full"}
        /\ \/ stream = "good" /\ torn' = <<RowOf(t)>>
           \/ stream # "good" /\ torn' = torn
    BY <1>1 DEF WriteLost, MutexInv, TraceTypeOK
  <1>6. torn' \in Seq(RowType) /\ Len(torn') <= 1
    <2>1. CASE stream = "good"
      <3>1. RowOf(t) \in RowType
        BY <1>1, <2>1, NextRow
      <3>2. torn' = <<RowOf(t)>>
        BY <1>5, <2>1
      <3>3. torn' \in Seq(RowType) /\ Len(torn') = 1
        BY <3>1, <3>2, OneIsSeq, Zenon
      <3> QED BY <3>3
    <2>2. CASE stream # "good"
      BY <1>2, <1>5, <2>2
    <2> QED BY <2>1, <2>2
  <1>7. TraceTypeOK'
    BY <1>1, <1>2, <1>5, <1>6 DEF TraceTypeOK
  <1>8. MutexInv'
    BY <1>1, <1>3, <1>4, <1>5 DEF MutexInv
  <1>9. NumberInv'
    BY <1>1, <1>2, <1>3, <1>4, <1>5 DEF NumberInv, Failed
  <1>10. /\ CallInv' /\ Len(Text) <= Len(Text') /\ Len(Text') \in Nat /\ Len(Text) \in Nat
         /\ \A k \in 1 .. Len(Text) : Text'[k] = Text[k]
    <2>1. Len(Text) \in Nat
      BY TextHas
    <2>2. CASE stream = "good"
      <3>1. Text' = Append(rows, RowOf(t))
        <4>1. rows \o <<RowOf(t)>> = Append(rows, RowOf(t))
          BY <1>2, EmptyIsSeq, Joined, Zenon
        <4> QED BY <1>1, <1>5, <2>2, <4>1 DEF Text
      <3>2. stream' # "good"
        BY <1>5
      <3>3. /\ pc[t] = "write" /\ calls' = calls /\ call' = call
            /\ pc' = [pc EXCEPT ![t] = "idle"]
        BY <1>1
      <3>4. /\ CallInv' /\ Len(Text') = Len(Text) + 1
            /\ \A k \in 1 .. Len(Text) : Text'[k] = Text[k]
        BY <2>2, <3>1, <3>2, <3>3, TextGrows
      <3> QED BY <2>1, <3>4
    <2>3. CASE stream # "good"
      <3>1. Text' = Text
        BY <1>1, <1>5, <2>3 DEF Text
      <3>2. \A u \in Threads : Active(u)' => Active(u)
        BY <1>1, <1>3 DEF Active
      <3>3. \A c : InText(c)' <=> InText(c)
        BY <3>1 DEF InText
      <3>4. CallInv'
        BY <1>1, <1>5, <3>1, <3>2, <3>3 DEF CallInv
      <3> QED BY <2>1, <3>1, <3>4
    <2> QED BY <2>2, <2>3
  <1>11. PromiseInv'
    <2>1. \A c : InRows(c)' <=> InRows(c)
      BY <1>1 DEF InRows
    <2> QED BY <1>1, <2>1 DEF PromiseInv
  <1>12. FileInv'
    BY <1>1, <1>2, <1>5, <1>10 DEF FileInv, Cut
  <1> QED BY <1>7, <1>8, <1>9, <1>10, <1>11, <1>12
-----------------------------------------------------------------------------
LEMMA TraceInductive == TraceInv /\ [Next]_vars => TraceInv'
  <1> SUFFICES ASSUME TraceInv, [Next]_vars PROVE TraceInv'
    OBVIOUS
  <1>1. CASE Open \/ OpenAgain \/ Close \/ Flush
    BY <1>1, OpenStep, OpenAgainStep, CloseStep, FlushStep
  <1>2. CASE Crash \/ Ended \/ UNCHANGED vars
    BY <1>2, StillStep
  <1>3. ASSUME NEW t \in Threads, CallAppend(t) \/ InAppend(t) PROVE TraceInv'
    BY <1>3, CallStep, LockStep, NumberStep, WriteStep, WriteLostStep DEF InAppend
  <1> QED BY <1>1, <1>2, <1>3 DEF Next

LEMMA TraceInvHolds == Spec => []TraceInv
  <1> QED BY TraceInitHolds, TraceInductive, PTL DEF Spec

\* Whatever the threads, opens, closes and the disk do, rows have the numbers of
\* their places and no call has two.
THEOREM RowsAlwaysInOrder == Spec => []RowsInOrder
  <1>1. TraceInv => RowsInOrder
    <2> SUFFICES ASSUME TraceInv PROVE RowsInOrder
      OBVIOUS
    <2>1. mutex = NoOne => \A t \in Threads : pc[t] # "write"
      BY TraceAssumption DEF TraceInv, MutexInv
    <2>2. \A k \in 1 .. Len(rows) : k \in 1 .. Len(Text) /\ Text[k] = rows[k]
      BY TextHas DEF TraceInv
    <2> QED BY <2>1, <2>2 DEF TraceInv, NumberInv, CallInv, RowsInOrder
  <1> QED BY <1>1, TraceInvHolds, PTL

\* The lines that have all their fields are lines of the text.
LEMMA ReadsText ==
    ASSUME TraceInv, ~ReadTrace.throws
    PROVE  /\ Complete \in Nat \ {0} /\ Complete - 1 <= Len(Text) /\ Len(Text) \in Nat
           /\ ReadTrace.rows = RowsRead
           /\ Len(RowsRead) = Complete - 1
           /\ Cut(tail) => lines = Complete - 1
           /\ \A k \in 1 .. Complete - 1 : RowsRead[k] =
                  IF k = lines /\ Cut(tail)
                  THEN [Text[k] EXCEPT !.cache_miss = Shown(@, tail)] ELSE Text[k]
  <1>1. /\ lines \in Nat /\ Len(rows) \in Nat /\ Len(torn) \in Nat
        /\ Len(Text) = Len(rows) + Len(torn)
    BY TextHas DEF TraceInv, TraceTypeOK
  <1>2. Complete # 0 /\ ReadTrace.rows = RowsRead
    BY DEF ReadTrace
  <1>3. Complete \in Nat /\ Complete - 1 <= Len(Text) /\ (Cut(tail) => lines = Complete - 1)
    BY <1>1 DEF TraceInv, FileInv, Complete, Cut
  <1>4. Complete - 1 \in Nat
    BY <1>2, <1>3
  <1>5. /\ Len(RowsRead) = Complete - 1
        /\ \A k \in 1 .. Complete - 1 : RowsRead[k] =
               IF k = lines /\ Cut(tail)
               THEN [Text[k] EXCEPT !.cache_miss = Shown(@, tail)] ELSE Text[k]
    BY <1>4 DEF RowsRead
  <1> QED BY <1>1, <1>2, <1>3, <1>5

\* However the process ends and whatever the disk takes, what is read back has rows
\* of the numbers and calls of their places and their values, but for the last
\* number of a file that ends inside it.
THEOREM ReadsOnlyWhatWasWritten == Spec => []ReadsWhatWasWritten
  <1>1. TraceInv => ReadsWhatWasWritten
    <2> SUFFICES ASSUME TraceInv, ~ReadTrace.throws, NEW k \in 1 .. Len(ReadTrace.rows)
                 PROVE  /\ ReadTrace.rows[k].seq = k - 1
                        /\ ReadTrace.rows[k].call \in 1 .. calls
                        /\ \A j \in 1 .. k - 1 :
                               ReadTrace.rows[j].call # ReadTrace.rows[k].call
                        /\ \/ ReadTrace.rows[k].cache_miss = CacheMiss[ReadTrace.rows[k].call]
                           \/ /\ k = Len(ReadTrace.rows) /\ Cut(tail)
                              /\ ReadTrace.rows[k].cache_miss
                                     < CacheMiss[ReadTrace.rows[k].call]
      BY DEF ReadsWhatWasWritten
    <2> DEFINE read == ReadTrace.rows
    <2>1. /\ Complete \in Nat /\ Complete - 1 <= Len(Text) /\ Len(Text) \in Nat
          /\ read = RowsRead /\ Len(read) = Complete - 1
          /\ Cut(tail) => lines = Len(read)
      BY ReadsText
    <2>2. Text \in Seq(RowType)
      BY TextHas DEF TraceInv
    <2>3. ASSUME NEW i \in 1 .. Len(read)
          PROVE  /\ i \in 1 .. Len(Text) /\ Text[i] \in RowType
                 /\ read[i].seq = Text[i].seq /\ read[i].call = Text[i].call
                 /\ ~(i = lines /\ Cut(tail)) => read[i] = Text[i]
                 /\ i = lines /\ Cut(tail) =>
                        read[i].cache_miss = Shown(Text[i].cache_miss, tail)
      <3>1. i \in 1 .. Len(Text)
        BY <2>1
      <3>2. Text[i] \in RowType
        BY <2>2, <3>1
      <3>3. read[i] = IF i = lines /\ Cut(tail)
                      THEN [Text[i] EXCEPT !.cache_miss = Shown(@, tail)] ELSE Text[i]
        BY <2>1, ReadsText
      <3> HIDE DEF read
      <3> QED BY <3>1, <3>2, <3>3 DEF RowType
    <2> HIDE DEF read
    <2>4. k \in 1 .. Len(read)
      BY DEF read
    <2>5. /\ k \in 1 .. Len(Text) /\ Text[k] \in RowType
          /\ Text[k].seq = k - 1 /\ Text[k].call \in 1 .. calls
          /\ Text[k].cache_miss = CacheMiss[Text[k].call]
      BY <2>3, <2>4 DEF TraceInv, CallInv
    <2>6. \A j \in 1 .. k - 1 : read[j].call # read[k].call
      <3> TAKE j \in 1 .. k - 1
      <3>1. j \in 1 .. Len(read) /\ j # k
        BY <2>1, <2>4
      <3>2. j \in 1 .. Len(Text) /\ read[j].call = Text[j].call /\ read[k].call = Text[k].call
        BY <2>3, <2>4, <3>1
      <3> QED BY <2>5, <3>1, <3>2 DEF TraceInv, CallInv
    <2>7. \/ read[k].cache_miss = CacheMiss[read[k].call]
          \/ /\ k = Len(read) /\ Cut(tail)
             /\ read[k].cache_miss < CacheMiss[read[k].call]
      <3>1. CASE k = lines /\ Cut(tail)
        <4>1. Text[k].cache_miss >= 10 /\ Text[k].cache_miss \in Int
          <5>1. Text[k].cache_miss >= 10
            BY <3>1 DEF TraceInv, FileInv
          <5>2. Text[k].cache_miss \in Int
            BY <2>5, MissIsInt
          <5> QED BY <5>1, <5>2
        <4>2. Shown(Text[k].cache_miss, tail) < Text[k].cache_miss
          BY <4>1 DEF Shown
        <4>3. read[k].cache_miss < CacheMiss[read[k].call]
          BY <2>3, <2>4, <2>5, <3>1, <4>2
        <4> QED BY <2>1, <3>1, <4>3
      <3>2. CASE ~(k = lines /\ Cut(tail))
        BY <2>3, <2>4, <2>5, <3>2
      <3> QED BY <3>1, <3>2
    <2>8. read[k].seq = k - 1 /\ read[k].call \in 1 .. calls
      BY <2>3, <2>4, <2>5
    <2> QED BY <2>6, <2>7, <2>8 DEF read
  <1> QED BY <1>1, TraceInvHolds, PTL

\* A call that no open, close or full disk came in the way of is in the trace, and
\* in what is read back once close has written it.
THEOREM AppendsAlwaysKept == Spec => []AppendsAreKept
  <1>1. TraceInv => AppendsAreKept
    <2> SUFFICES ASSUME TraceInv PROVE AppendsAreKept
      OBVIOUS
    <2>1. \A c \in promised : \E k \in 1 .. Len(rows) : rows[k].call = c
      BY DEF TraceInv, PromiseInv, InRows
    <2>2. ASSUME stream = "closed", flushed
          PROVE  /\ ~ReadTrace.throws
                 /\ \A c \in promised : \E k \in 1 .. Len(ReadTrace.rows) :
                        ReadTrace.rows[k].call = c
      <3>1. lines = Len(rows) + 1 /\ tail = "none" /\ Len(rows) \in Nat /\ ~Cut(tail)
        BY <2>2, TextHas DEF TraceInv, FileInv, Cut
      <3>2. Complete = Len(rows) + 1 /\ Complete # 0 /\ tail # "part"
        BY <3>1 DEF Complete
      <3>3. ~ReadTrace.throws
        BY <3>2, Zenon DEF ReadTrace
      <3>4. /\ Len(ReadTrace.rows) = Len(rows)
            /\ \A k \in 1 .. Len(rows) : ReadTrace.rows[k] = rows[k]
        <4>1. \A k \in 1 .. Len(rows) : k \in 1 .. Complete - 1 /\ Text[k] = rows[k]
          BY <3>1, <3>2, TextHas DEF TraceInv
        <4> QED BY <3>1, <3>2, <3>3, <4>1, ReadsText
      <3> QED BY <2>1, <3>3, <3>4
    <2> QED BY <2>1, <2>2 DEF AppendsAreKept
  <1> QED BY <1>1, TraceInvHolds, PTL
=============================================================================
