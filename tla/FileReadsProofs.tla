---------------------------- MODULE FileReadsProofs ----------------------------
(***************************************************************************)
(* Proofs about the two programs that read files with plain reads, the     *)
(* ImageNet benchmark and the CPUPathRunner, which have no variable in     *)
(* common: first about the places and the lengths of their reads; then,    *)
(* for any lists and lengths of files, which may change at any time, about *)
(* what they hold, count, copy and report.                                 *)
(***************************************************************************)
EXTENDS ImagenetBench, CPUPathRunner, WellFoundedInduction, SequenceTheorems,
        FiniteSetTheorems, TLAPS

\* Whatever the iteration, a read starts at a place where io bytes are left in
\* the file, if it has as many at all.
THEOREM ReadStaysInFile ==
    ASSUME NEW k \in Nat, NEW io \in Nat \ {0}, NEW size \in Nat
    PROVE  /\ ReadOffset(k, io, size) \in Nat
           /\ size >= io => ReadOffset(k, io, size) + io <= size
           /\ size <= io => ReadOffset(k, io, size) = 0
  <1> DEFINE m == MaxOffset(io, size) + 1
             x == k * io
  <1>1. m \in Nat \ {0} /\ x \in Nat
    BY DEF MaxOffset
  <1> HIDE DEF m, x
  <1>2. x % m \in 0 .. (m - 1)
    BY <1>1
  <1>3. /\ size > io => m = size - io + 1
        /\ size <= io => m = 1
    BY DEF m, MaxOffset
  <1>4. ReadOffset(k, io, size) = x % m
    BY DEF ReadOffset, x, m
  <1> QED BY <1>2, <1>3, <1>4

\* Every set of natural numbers has a least element.
LEMMA LeastNumber ==
    ASSUME NEW T \in SUBSET Nat, T # {}
    PROVE  \E n \in T : \A m \in T : n <= m
  <1> DEFINE R == OpToRel(<, Nat)
  <1>1. IsWellFoundedOn(R, Nat)
    BY NatLessThanWellFounded
  <1>2. \A m, n \in Nat : <<m, n>> \in R <=> m < n
    BY DEF OpToRel
  <1> HIDE DEF R
  <1>3. \E n \in T : \A m \in T : <<m, n>> \notin R
    BY <1>1, WFMin
  <1>4. PICK n \in T : \A m \in T : <<m, n>> \notin R
    BY <1>3
  <1>5. ASSUME NEW m \in T PROVE n <= m
    <2>1. m \in Nat /\ n \in Nat /\ ~(m < n)
      BY <1>2, <1>4
    <2> QED BY <2>1
  <1> QED BY <1>5

\* The largest of the first n numbers of f, by what would be the least n without one.
LEMMA MaxOfSizes ==
    ASSUME NEW f, NEW n \in Nat \ {0}, \A k \in 1 .. n : f[k] \in Nat
    PROVE  LET S == {f[k] : k \in 1 .. n} IN
           Max(S) \in Nat /\ \A k \in 1 .. n : f[k] <= Max(S)
  <1> DEFINE Bounded(m) == \E j \in 1 .. m : \A k \in 1 .. m : f[k] <= f[j]
             T == {m \in Nat : m \in 1 .. n /\ ~Bounded(m)}
  <1>1. ASSUME T # {} PROVE FALSE
    <2>1. PICK m \in T : \A k \in T : m <= k
      BY <1>1, LeastNumber
    <2>2. CASE m = 1
      <3>1. \A k \in 1 .. 1 : f[k] <= f[1]
        OBVIOUS
      <3> QED BY <2>2, <3>1
    <2>3. CASE m # 1
      <3>1. m - 1 \in 1 .. n /\ m - 1 \in Nat /\ m \in Nat /\ ~(m <= m - 1)
        BY <2>1, <2>3
      <3>2. m - 1 \notin T
        BY <2>1, <3>1, Zenon
      <3>3. PICK j \in 1 .. m - 1 : \A k \in 1 .. m - 1 : f[k] <= f[j]
        BY <3>1, <3>2
      <3>4. f[j] \in Nat /\ f[m] \in Nat /\ j \in 1 .. m /\ m \in 1 .. m
        BY <3>1, <3>3
      <3>5. CASE f[m] <= f[j]
        BY <3>3, <3>4, <3>5
      <3>6. CASE ~(f[m] <= f[j])
        <4>1. \A k \in 1 .. m : f[k] <= f[m]
          <5> SUFFICES ASSUME NEW k \in 1 .. m, k # m PROVE f[k] <= f[m]
            BY <3>4
          <5>1. k \in 1 .. m - 1 /\ f[k] \in Nat /\ f[k] <= f[j]
            BY <3>1, <3>3
          <5> QED BY <3>4, <3>6, <5>1
        <4> QED BY <3>4, <4>1
      <3> QED BY <3>5, <3>6
    <2> QED BY <2>2, <2>3
  <1>2. PICK j \in 1 .. n : \A k \in 1 .. n : f[k] <= f[j]
    <2>1. n \notin T
      BY <1>1, Zenon
    <2>2. n \in 1 .. n
      OBVIOUS
    <2> QED BY <2>1, <2>2
  <1> DEFINE S == {f[k] : k \in 1 .. n}
  <1>3. f[j] \in S /\ \A y \in S : y \in Nat /\ f[j] >= y
    BY <1>2
  <1>4. Max(S) \in S /\ \A y \in S : Max(S) >= y
    BY <1>3 DEF Max
  <1> QED BY <1>3, <1>4

\* The largest of them and 0, of which there may be none.
LEMMA MaxOrZero ==
    ASSUME NEW f, NEW n \in Nat, \A k \in 1 .. n : f[k] \in Nat
    PROVE  LET S == {0} \cup {f[k] : k \in 1 .. n} IN
           Max(S) \in Nat /\ \A k \in 1 .. n : f[k] <= Max(S)
  <1> DEFINE g == [k \in 1 .. n + 1 |-> IF k = n + 1 THEN 0 ELSE f[k]]
             S == {0} \cup {f[k] : k \in 1 .. n}
             T == {g[k] : k \in 1 .. n + 1}
  <1>1. n + 1 \in Nat \ {0} /\ \A k \in 1 .. n : k \in 1 .. n + 1 /\ k # n + 1
    OBVIOUS
  <1>2. n + 1 \in 1 .. n + 1 /\ g[n + 1] = 0 /\ \A k \in 1 .. n : g[k] = f[k]
    BY <1>1
  <1>3. \A k \in 1 .. n + 1 : g[k] \in Nat /\ (k = n + 1 \/ (k \in 1 .. n /\ g[k] = f[k]))
    BY <1>1
  <1> HIDE DEF g
  <1>4. S = T
    BY <1>1, <1>2, <1>3
  <1>5. Max(T) \in Nat /\ \A k \in 1 .. n + 1 : g[k] <= Max(T)
    BY <1>1, <1>3, MaxOfSizes
  <1> QED BY <1>1, <1>2, <1>4, <1>5

\* The read of a file, up to its last aligned block, is a whole number of blocks,
\* of all the file's bytes, and fits a buffer that was made for a file at least
\* as long.
THEOREM AlignedReadFits ==
    ASSUME NEW align \in Nat \ {0}, NEW size \in Nat, NEW longest \in Nat, size <= longest
    PROVE  /\ AlignUp(size, align) \in Nat
           /\ AlignUp(size, align) % align = 0
           /\ size <= AlignUp(size, align)
           /\ AlignUp(size, align) <= AlignUp(longest, align)
  <1> DEFINE q == (size + align - 1) \div align
             r == (longest + align - 1) \div align
  <1>1. q \in Nat /\ q * align <= size + align - 1 /\ size + align - 1 < q * align + align
    OBVIOUS
  <1>2. r \in Nat /\ r * align <= longest + align - 1 /\ longest + align - 1 < r * align + align
    OBVIOUS
  <1>3. AlignUp(size, align) = q * align /\ AlignUp(longest, align) = r * align
    BY DEF AlignUp
  <1> HIDE DEF q, r
  <1>4. q * align \in Nat /\ (q * align) % align = 0
    BY <1>1
  <1>5. q <= r
    <2> SUFFICES ASSUME r + 1 <= q
                 PROVE  FALSE
      BY <1>1, <1>2
    <2>1. (r + 1) * align <= q * align
      BY <1>1, <1>2
    <2>2. (r + 1) * align = r * align + align
      BY <1>2
    <2> QED BY <1>1, <1>2, <2>1, <2>2
  <1>6. q * align <= r * align
    BY <1>1, <1>2, <1>5
  <1> QED BY <1>1, <1>3, <1>4, <1>6
LEMMA BytesOfOne ==
    ASSUME NEW p, NEW n \in Nat
    PROVE  IsFiniteSet({p} \X (1 .. n)) /\ Cardinality({p} \X (1 .. n)) = n
  <1>1. IsFiniteSet(1 .. n) /\ Cardinality(1 .. n) = n
    BY FS_Interval
  <1>2. IsFiniteSet({p}) /\ Cardinality({p}) = 1
    BY FS_Singleton
  <1>3. /\ IsFiniteSet({p} \X (1 .. n))
        /\ Cardinality({p} \X (1 .. n)) = Cardinality({p}) * Cardinality(1 .. n)
    BY <1>1, <1>2, FS_Product
  <1> QED BY <1>1, <1>2, <1>3

\* Two sets with nothing in common.
LEMMA DisjointCardinality ==
    ASSUME NEW S, NEW T, IsFiniteSet(S), IsFiniteSet(T), S \cap T = {}
    PROVE  /\ IsFiniteSet(S \cup T)
           /\ Cardinality(S) \in Nat /\ Cardinality(T) \in Nat
           /\ Cardinality(S \cup T) = Cardinality(S) + Cardinality(T)
  <1>1. /\ IsFiniteSet(S \cup T)
        /\ Cardinality(S \cup T) = Cardinality(S) + Cardinality(T) - Cardinality(S \cap T)
    BY FS_Union
  <1>2. Cardinality(S \cap T) = 0
    BY FS_EmptySet
  <1>3. Cardinality(S) \in Nat /\ Cardinality(T) \in Nat
    BY FS_CardinalityType
  <1> QED BY <1>1, <1>2, <1>3

\* The stages of run_one: before its loop, in the loop, and with a file in hand.
Starting == pc \in {"case", "malloc", "driver", "register"}
InFile == pc \in {"handle", "read", "copy", "count"}
Reading == pc = "open" \/ InFile

BenchTypes ==
    /\ pc \in {"case", "malloc", "driver", "register", "open", "handle", "read", "copy", "count",
               "report", "end"}
    /\ sizes \in Lists /\ paths \in PathLists
    /\ case \in 1 .. Len(paths) /\ run \in Nat
    /\ index \in 1 .. NumFiles + 1 /\ (InFile => index <= NumFiles)
    /\ host_buf \in BOOLEAN /\ run_err \in BOOLEAN
    /\ total_bytes \in Nat /\ failed_files \in Nat /\ samples \in Nat
    /\ arrived \subseteq 1 .. NumFiles

\* What the program holds at each stage: the buffer of the run, from its allocation
\* to the end of the loop; with GDS the session and the registration; and the file.
HeldByStage ==
    /\ host_buf => path # "gds" /\ (pc = "malloc" \/ Reading)
    /\ pc \in {"driver", "register", "handle"} => path = "gds"
    /\ pc = "copy" => path # "gds"
    /\ files = IF pc \in {"handle", "read"} THEN 1 ELSE 0
    /\ handles = IF pc = "read" /\ path = "gds" THEN 1 ELSE 0
    /\ sessions = IF pc = "register" \/ (Reading /\ path = "gds") THEN 1 ELSE 0
    /\ allocated = IF pc \in {"driver", "register"} \/ Reading THEN Ptrs ELSE {}
    /\ driver = [p \in Ptrs |-> IF Reading /\ path = "gds" THEN MaxAligned ELSE Unregistered]

\* The files counted and arrived so far; the one that is being counted has arrived.
CountedByStage ==
    /\ Starting => index = 1 /\ failed_files = 0 /\ samples = 0 /\ total_bytes = 0 /\ arrived = {}
    /\ Starting \/ Reading => ~run_err
    /\ pc = "report" /\ ~run_err => index = NumFiles + 1
    /\ pc # "end" =>
           /\ failed_files + samples = index - 1
           /\ Cardinality(arrived) = samples + (IF pc = "count" THEN 1 ELSE 0)
           /\ Cardinality(ArrivedBytes) = total_bytes + (IF pc = "count" THEN sizes[index] ELSE 0)
           /\ \A k \in arrived : k < index \/ (pc = "count" /\ k = index)

\* A case that succeeded, which is reported next.
Pending == pc = "report" /\ ~run_err

CsvSoFar ==
    /\ csv \in Seq(CsvLines) /\ succeeded \in Seq(CsvLines) /\ unopened \in Nat
    /\ Pending => succeeded # <<>> /\ succeeded[Len(succeeded)] = Row
    /\ unopened <= Reported
    /\ CsvTellsSuccesses

BenchInv == BenchTypes /\ HeldByStage /\ CountedByStage /\ CsvSoFar
-----------------------------------------------------------------------------
LEMMA BenchFacts ==
    ASSUME ImagenetAssumption, BenchTypes
    PROVE  /\ Ptrs = {Buffer} /\ Align \in Nat \ {0}
           /\ sizes \in Seq(Nat) /\ NumFiles \in Nat /\ DOMAIN sizes = 1 .. NumFiles
           /\ \A k \in 1 .. NumFiles : sizes[k] \in Nat
           /\ path \in PathTypes /\ Row \in CsvLines
           /\ index \in Nat /\ index > 0 /\ IsFiniteSet(arrived)
  <1>1. sizes \in Seq(Nat)
    BY DEF ImagenetAssumption, BenchTypes
  <1>2. NumFiles \in Nat /\ DOMAIN sizes = 1 .. NumFiles /\ \A k \in 1 .. NumFiles : sizes[k] \in Nat
    BY <1>1 DEF NumFiles
  <1>3. paths \in Seq(PathTypes) /\ case \in 1 .. Len(paths)
    BY DEF ImagenetAssumption, BenchTypes
  <1>4. path \in PathTypes
    BY <1>3 DEF path
  <1>5. Row \in CsvLines
    BY <1>4 DEF Row, CsvLines, BenchTypes
  <1>6. IsFiniteSet(1 .. NumFiles)
    BY <1>2, FS_Interval
  <1>7. IsFiniteSet(arrived)
    BY <1>6, FS_Subset DEF BenchTypes
  <1>8. index \in Nat /\ index > 0
    BY <1>2 DEF BenchTypes
  <1> QED BY <1>1, <1>2, <1>4, <1>5, <1>7, <1>8 DEF ImagenetAssumption

\* The buffers are as long as the longest file of the list, and any read of one.
LEMMA FilesFit ==
    ASSUME ImagenetAssumption, BenchTypes
    PROVE  /\ Max({0} \cup {sizes[k] : k \in 1 .. NumFiles}) \in Nat
           /\ \A k \in 1 .. NumFiles : sizes[k] <= Max({0} \cup {sizes[j] : j \in 1 .. NumFiles})
           /\ MaxAligned \in Nat
           /\ \A k \in 1 .. NumFiles :
                  sizes[k] <= AlignUp(sizes[k], Align) /\ AlignUp(sizes[k], Align) <= MaxAligned
  <1> DEFINE longest == Max({0} \cup {sizes[k] : k \in 1 .. NumFiles})
  <1>1. NumFiles \in Nat /\ (\A k \in 1 .. NumFiles : sizes[k] \in Nat) /\ Align \in Nat \ {0}
    BY BenchFacts
  <1>2. longest \in Nat /\ \A k \in 1 .. NumFiles : sizes[k] <= longest
    BY <1>1, MaxOrZero
  <1>3. MaxAligned = AlignUp(longest, Align)
    BY DEF MaxAligned
  <1> HIDE DEF longest
  <1>4. MaxAligned \in Nat
    BY <1>1, <1>2, <1>3, AlignedReadFits
  <1>5. ASSUME NEW k \in 1 .. NumFiles
        PROVE  sizes[k] <= AlignUp(sizes[k], Align) /\ AlignUp(sizes[k], Align) <= MaxAligned
    BY <1>1, <1>2, <1>3, AlignedReadFits
  <1> QED BY <1>2, <1>4, <1>5 DEF longest

\* A file arrives that had not.
LEMMA OneMoreArrived ==
    ASSUME ImagenetAssumption, BenchTypes, index <= NumFiles, index \notin arrived,
           arrived' = arrived \cup {index}, sizes' = sizes
    PROVE  /\ Cardinality(arrived) \in Nat /\ Cardinality(ArrivedBytes) \in Nat
           /\ Cardinality(arrived') = Cardinality(arrived) + 1
           /\ Cardinality(ArrivedBytes') = Cardinality(ArrivedBytes) + sizes[index]
  <1> DEFINE longest == Max({0} \cup {sizes[k] : k \in 1 .. NumFiles})
             mine == {index} \X (1 .. sizes[index])
  <1>1. NumFiles \in Nat /\ longest \in Nat /\ index \in 1 .. NumFiles /\ IsFiniteSet(arrived)
    BY BenchFacts, FilesFit
  <1>2. \A k \in 1 .. NumFiles : sizes[k] \in Nat /\ sizes[k] <= longest
    BY BenchFacts, FilesFit
  <1> HIDE DEF longest
  <1>3. IsFiniteSet(ArrivedBytes)
    <2>1. IsFiniteSet(1 .. NumFiles) /\ IsFiniteSet(1 .. longest)
      BY <1>1, FS_Interval
    <2>2. IsFiniteSet((1 .. NumFiles) \X (1 .. longest))
      BY <2>1, FS_Product
    <2>3. ArrivedBytes \subseteq (1 .. NumFiles) \X (1 .. longest)
      BY <1>1, <1>2 DEF ArrivedBytes, BenchTypes
    <2> QED BY <2>2, <2>3, FS_Subset
  <1>4. ArrivedBytes' = ArrivedBytes \cup mine /\ ArrivedBytes \cap mine = {}
    BY DEF ArrivedBytes
  <1>5. IsFiniteSet(mine) /\ Cardinality(mine) = sizes[index]
    <2>1. sizes[index] \in Nat
      BY <1>1, <1>2
    <2> HIDE DEF mine
    <2> QED BY <2>1, BytesOfOne DEF mine
  <1> HIDE DEF mine
  <1>6. Cardinality(ArrivedBytes') = Cardinality(ArrivedBytes) + sizes[index]
    BY <1>3, <1>4, <1>5, DisjointCardinality
  <1>7. Cardinality(arrived') = Cardinality(arrived) + 1
    BY <1>1, FS_AddElement
  <1> QED BY <1>1, <1>3, <1>6, <1>7, FS_CardinalityType

\* A step of a case leaves alone what only main changes.
LEMMA LoopStays ==
    ASSUME UNCHANGED loopVars
    PROVE  /\ sizes' = sizes /\ paths' = paths /\ run' = run /\ case' = case
           /\ path' = path /\ NumFiles' = NumFiles /\ MaxAligned' = MaxAligned /\ Row' = Row
  BY DEF loopVars, path, NumFiles, MaxAligned, Row

LEMMA CsvStays ==
    ASSUME CsvSoFar, UNCHANGED <<csvVars, succeeded>>,
           (~Pending /\ ~Pending') \/ UNCHANGED <<pc, run_err, Row>>
    PROVE  CsvSoFar'
  <1>1. /\ csv' = csv /\ unopened' = unopened /\ succeeded' = succeeded
        /\ (Pending' => Pending /\ Row' = Row)
    BY DEF csvVars, Pending
  <1>2. Reported' = Reported
    BY <1>1 DEF Reported, Pending
  <1>3. CsvTellsSuccesses'
    BY <1>1, <1>2 DEF CsvSoFar, CsvTellsSuccesses
  <1> QED BY <1>1, <1>2, <1>3 DEF CsvSoFar

\* What no read changes.
LEMMA CountsStay ==
    ASSUME UNCHANGED loopVars, UNCHANGED <<index, stats>>,
           UNCHANGED arrived \/ UNCHANGED caseVars
    PROVE  /\ ArrivedBytes' = ArrivedBytes /\ arrived' = arrived /\ index' = index
           /\ total_bytes' = total_bytes /\ failed_files' = failed_files /\ samples' = samples
           /\ sizes' = sizes /\ NumFiles' = NumFiles
  BY DEF loopVars, stats, caseVars, ArrivedBytes, NumFiles

\* The property, told of one of the contents the file may have had.
LEMMA Told ==
    ASSUME NEW old \in OldCsv, NEW n, NEW done, n = done - unopened, Reported = done,
           Tell(Before(old, n), n, csv, succeeded, done)
    PROVE  CsvTellsSuccesses
  <1>1. Tell(Before(old, Reported - unopened), Reported - unopened, csv, succeeded, Reported)
    OBVIOUS
  <1> QED BY <1>1 DEF CsvTellsSuccesses

LEMMA ToldThen ==
    ASSUME NEW old \in OldCsv, NEW n, NEW done, n = done - unopened', Reported' = done,
           Tell(Before(old, n), n, csv', succeeded', done)
    PROVE  CsvTellsSuccesses'
  <1>1. Tell(Before(old, Reported' - unopened'), Reported' - unopened', csv', succeeded', Reported')
    OBVIOUS
  <1> QED BY <1>1 DEF CsvTellsSuccesses
-----------------------------------------------------------------------------
LEMMA BenchInit == ASSUME ImagenetAssumption, Init PROVE BenchInv
  <1> USE DEF Init, DriverInit, SystemInit
  <1>1. sizes \in Seq(Nat) /\ NumFiles \in Nat
    BY DEF ImagenetAssumption, NumFiles
  <1>2. BenchTypes
    <2>1. case \in 1 .. Len(paths)
      <3>1. paths \in Seq(PathTypes) \ {<<>>}
        BY DEF ImagenetAssumption
      <3> QED BY <3>1
    <2>2. index \in 1 .. NumFiles + 1 /\ arrived \subseteq 1 .. NumFiles /\ run \in Nat
      BY <1>1
    <2>3. pc \in {"case", "end"}
      OBVIOUS
    <2>4. host_buf \in BOOLEAN /\ run_err \in BOOLEAN
      OBVIOUS
    <2>5. total_bytes \in Nat /\ failed_files \in Nat /\ samples \in Nat
      OBVIOUS
    <2> HIDE DEF Init
    <2>6. sizes \in Lists /\ paths \in PathLists
      BY DEF Init
    <2> QED BY <2>1, <2>2, <2>3, <2>4, <2>5, <2>6 DEF BenchTypes, InFile
  <1>3. HeldByStage
    BY DEF HeldByStage, Reading, InFile
  <1>4. CountedByStage
    <2>1. ArrivedBytes = {}
      BY DEF ArrivedBytes
    <2>2. Cardinality(arrived) = 0 /\ Cardinality(ArrivedBytes) = 0
      BY <2>1, FS_EmptySet
    <2> QED BY <2>2 DEF CountedByStage, Starting, Reading, InFile
  <1>5. CsvSoFar
    <2>1. csv \in Seq(CsvLines) /\ csv \in OldCsv /\ ~Pending
      BY DEF ImagenetAssumption, Pending
    <2>2. succeeded = <<>> /\ unopened = 0 /\ Len(succeeded) = 0
      OBVIOUS
    <2> HIDE DEF Init, DriverInit, SystemInit
    <2>3. Reported = 0
      BY <2>1, <2>2 DEF Reported, Pending
    <2>4. Tell(Before(csv, 0), 0, csv, succeeded, 0)
      BY <2>1 DEF Tell, Before
    <2>5. CsvTellsSuccesses
      BY <2>1, <2>2, <2>3, <2>4, Told
    <2> QED BY <2>1, <2>2, <2>3, <2>5 DEF CsvSoFar
  <1> QED BY <1>2, <1>3, <1>4, <1>5 DEF BenchInv

\* run_one gives up: before its loop, or after it.
LEMMA GiveUpStep ==
    ASSUME ImagenetAssumption, BenchInv, GiveUp, Starting \/ (pc = "open" /\ index = NumFiles + 1),
           host_buf' = FALSE, files' = 0, handles' = 0, sessions' = 0, allocated' = {},
           driver' = [p \in Ptrs |-> Unregistered],
           UNCHANGED <<loopVars, index, stats, csvVars, caseVars>>
    PROVE  BenchInv'
  <1> USE LoopStays, CountsStay DEF BenchInv, GiveUp
  <1>1. BenchTypes'
    BY DEF BenchTypes, Starting, InFile
  <1>2. HeldByStage'
    BY DEF HeldByStage, Reading, InFile
  <1>3. CountedByStage'
    BY DEF CountedByStage, Starting, Reading, InFile
  <1>4. CsvSoFar'
    BY CsvStays DEF Pending, Starting, caseVars
  <1> QED BY <1>1, <1>2, <1>3, <1>4

\* run_one goes on, with nothing counted: from one stage to the next.
LEMMA GoesOn ==
    ASSUME ImagenetAssumption, BenchTypes, CountedByStage, CsvSoFar, NEW label,
           label \in {"malloc", "driver", "register", "open", "handle", "read"}, Goes(label),
           Starting \/ pc \in {"open", "handle"}, label \in {"handle", "read"} => index <= NumFiles,
           ~Starting => label \in {"handle", "read"},
           UNCHANGED <<loopVars, index, stats, csvVars, caseVars>>, host_buf' \in BOOLEAN
    PROVE  BenchTypes' /\ CountedByStage' /\ CsvSoFar'
  <1> USE LoopStays, CountsStay DEF Goes
  <1>1. pc' = label /\ run_err' = run_err /\ pc # "end"
    BY DEF Starting
  <1>2. BenchTypes'
    BY <1>1 DEF BenchTypes, InFile
  <1>3. CountedByStage'
    BY <1>1 DEF CountedByStage, Starting, Reading, InFile
  <1>4. CsvSoFar'
    BY <1>1, CsvStays DEF Pending, Starting, caseVars
  <1> QED BY <1>2, <1>3, <1>4

LEMMA HostAllocStep == ASSUME ImagenetAssumption, BenchInv, HostAlloc PROVE BenchInv'
  <1> USE DEF BenchInv
  <1>1. /\ pc = "case" /\ host_buf = FALSE /\ files = 0 /\ handles = 0 /\ sessions = 0
        /\ allocated = {} /\ driver = [p \in Ptrs |-> Unregistered] /\ Starting
    BY DEF HostAlloc, HeldByStage, Reading, InFile, Starting
  <1>2. /\ files' = files /\ handles' = handles /\ sessions' = sessions
        /\ allocated' = allocated /\ driver' = driver
        /\ UNCHANGED <<loopVars, index, stats, csvVars, caseVars>>
    BY DEF HostAlloc, platform, systemVars
  <1>3. CASE host_buf' \in BOOLEAN /\ (host_buf' => path # "gds") /\ Goes("malloc")
    <2>1. BenchTypes' /\ CountedByStage' /\ CsvSoFar'
      BY <1>1, <1>2, <1>3, GoesOn
    <2>2. HeldByStage'
      BY <1>1, <1>2, <1>3, LoopStays DEF HeldByStage, Goes, Reading, InFile
    <2> QED BY <2>1, <2>2
  <1>4. CASE host_buf' = host_buf /\ GiveUp
    BY <1>1, <1>2, <1>4, GiveUpStep
  <1> QED BY <1>1, <1>3, <1>4 DEF HostAlloc

LEMMA DeviceAllocStep == ASSUME ImagenetAssumption, BenchInv, DeviceAlloc PROVE BenchInv'
  <1> USE DEF BenchInv
  <1>1. /\ pc = "malloc" /\ files = 0 /\ handles = 0 /\ sessions = 0 /\ host_buf \in BOOLEAN
        /\ allocated = {} /\ driver = [p \in Ptrs |-> Unregistered] /\ Starting
        /\ (host_buf => path # "gds") /\ Ptrs = {Buffer}
    BY BenchFacts DEF DeviceAlloc, HeldByStage, BenchTypes, Reading, InFile, Starting
  <1>2. /\ driver' = driver /\ UNCHANGED <<loopVars, index, stats, csvVars, caseVars>>
    BY DEF DeviceAlloc
  <1>3. CASE /\ Malloc(Buffer) /\ UNCHANGED host_buf
             /\ Goes(IF path = "gds" THEN "driver" ELSE "open")
    <2>1. /\ files' = 0 /\ handles' = 0 /\ sessions' = 0 /\ allocated' = Ptrs
          /\ host_buf' = host_buf
      BY <1>1, <1>3 DEF Malloc
    <2>2. CASE path = "gds"
      <3>1. Goes("driver")
        BY <1>3, <2>2
      <3>2. BenchTypes' /\ CountedByStage' /\ CsvSoFar'
        BY <1>1, <1>2, <2>1, <3>1, GoesOn
      <3>3. HeldByStage'
        BY <1>1, <1>2, <2>1, <2>2, <3>1, LoopStays DEF HeldByStage, Goes, Reading, InFile
      <3> QED BY <3>2, <3>3
    <2>3. CASE path # "gds"
      <3>1. Goes("open")
        BY <1>3, <2>3
      <3>2. BenchTypes' /\ CountedByStage' /\ CsvSoFar'
        BY <1>1, <1>2, <2>1, <3>1, GoesOn
      <3>3. HeldByStage'
        BY <1>1, <1>2, <2>1, <2>3, <3>1, LoopStays DEF HeldByStage, Goes, Reading, InFile
      <3> QED BY <3>2, <3>3
    <2> QED BY <2>2, <2>3
  <1>4. CASE GiveUp /\ host_buf' = FALSE /\ UNCHANGED systemVars
    BY <1>1, <1>2, <1>4, GiveUpStep DEF systemVars
  <1> QED BY <1>3, <1>4 DEF DeviceAlloc

LEMMA OpenDriverStep == ASSUME ImagenetAssumption, BenchInv, OpenDriver PROVE BenchInv'
  <1> USE DEF BenchInv
  <1>1. /\ pc = "driver" /\ files = 0 /\ handles = 0 /\ sessions = 0 /\ host_buf = FALSE
        /\ allocated = Ptrs /\ driver = [p \in Ptrs |-> Unregistered] /\ Starting
        /\ path = "gds" /\ Ptrs = {Buffer}
    BY BenchFacts DEF OpenDriver, HeldByStage, BenchTypes, Reading, InFile, Starting
  <1>2. /\ driver' = driver /\ host_buf' = host_buf
        /\ UNCHANGED <<loopVars, index, stats, csvVars, caseVars>>
    BY DEF OpenDriver
  <1>3. CASE DriverOpen /\ Goes("register")
    <2>1. BenchTypes' /\ CountedByStage' /\ CsvSoFar'
      BY <1>1, <1>2, <1>3, GoesOn
    <2>2. HeldByStage'
      BY <1>1, <1>2, <1>3, LoopStays DEF HeldByStage, DriverOpen, Goes, Reading, InFile
    <2> QED BY <2>1, <2>2
  <1>4. CASE Free({Buffer}, FALSE) /\ GiveUp
    <2>1. files' = 0 /\ handles' = 0 /\ sessions' = 0 /\ allocated' = {}
      BY <1>1, <1>4 DEF Free
    <2> QED BY <1>1, <1>2, <1>4, <2>1, GiveUpStep
  <1> QED BY <1>3, <1>4 DEF OpenDriver

LEMMA RegisterBufferStep == ASSUME ImagenetAssumption, BenchInv, RegisterBuffer PROVE BenchInv'
  <1> USE DEF BenchInv
  <1>1. /\ pc = "register" /\ files = 0 /\ handles = 0 /\ sessions = 1 /\ host_buf = FALSE
        /\ allocated = Ptrs /\ driver = [p \in Ptrs |-> Unregistered] /\ Starting
        /\ path = "gds" /\ Ptrs = {Buffer}
    BY BenchFacts DEF RegisterBuffer, HeldByStage, BenchTypes, Reading, InFile, Starting
  <1>2. /\ host_buf' = host_buf
        /\ UNCHANGED <<loopVars, index, stats, csvVars, caseVars>>
    BY DEF RegisterBuffer
  <1>3. CASE /\ driver' = Registering(Buffer, MaxAligned)
             /\ Goes("open") /\ UNCHANGED systemVars
    <2>1. driver' = [p \in Ptrs |-> MaxAligned]
      BY <1>1, <1>3 DEF Registering
    <2>2. BenchTypes' /\ CountedByStage' /\ CsvSoFar'
      BY <1>1, <1>2, <1>3, GoesOn
    <2>3. HeldByStage'
      BY <1>1, <1>2, <1>3, <2>1, LoopStays DEF HeldByStage, systemVars, Goes, Reading, InFile
    <2> QED BY <2>2, <2>3
  <1>4. CASE /\ sessions' = sessions - 1 /\ allocated' = {}
             /\ UNCHANGED <<driver, files, handles>> /\ GiveUp
    <2>1. files' = 0 /\ handles' = 0 /\ sessions' = 0 /\ driver' = driver
      BY <1>1, <1>4
    <2> QED BY <1>1, <1>2, <1>4, <2>1, GiveUpStep
  <1> QED BY <1>3, <1>4 DEF RegisterBuffer
-----------------------------------------------------------------------------
\* What is true while a file of the list is in hand.
LEMMA FileInHand ==
    ASSUME ImagenetAssumption, BenchInv, Reading
    PROVE  /\ pc # "end" /\ pc # "report" /\ ~Starting /\ ~run_err /\ Ptrs = {Buffer}
           /\ allocated = Ptrs /\ sessions = (IF path = "gds" THEN 1 ELSE 0)
           /\ driver = [p \in Ptrs |-> IF path = "gds" THEN MaxAligned ELSE Unregistered]
           /\ (host_buf => path # "gds") /\ host_buf \in BOOLEAN
           /\ index \in Nat /\ NumFiles \in Nat /\ index \in 1 .. NumFiles + 1
  <1>1. pc # "end" /\ pc # "report" /\ ~Starting
    BY DEF Reading, InFile, Starting
  <1>2. index \in 1 .. NumFiles + 1 /\ host_buf \in BOOLEAN
    BY <1>1 DEF BenchInv, BenchTypes
  <1>3. /\ allocated = Ptrs /\ sessions = (IF path = "gds" THEN 1 ELSE 0)
        /\ driver = [p \in Ptrs |-> IF path = "gds" THEN MaxAligned ELSE Unregistered]
        /\ (host_buf => path # "gds")
    BY <1>1 DEF BenchInv, HeldByStage, Starting
  <1>4. ~run_err
    BY DEF BenchInv, CountedByStage
  <1> QED BY <1>1, <1>2, <1>3, <1>4, BenchFacts DEF BenchInv

\* The loop goes on with a file closed and given up.
LEMMA FailStep ==
    ASSUME ImagenetAssumption, BenchInv, FileFails, pc \in {"open", "handle", "read", "copy"},
           index <= NumFiles, files' = 0, handles' = 0, sessions' = sessions, allocated' = allocated
    PROVE  BenchInv'
  <1> USE DEF BenchInv
  <1>1. /\ failed_files' = failed_files + 1 /\ index' = index + 1
        /\ pc' = "open" /\ run_err' = run_err
        /\ host_buf' = host_buf /\ total_bytes' = total_bytes /\ samples' = samples
        /\ arrived' = arrived /\ driver' = driver
        /\ UNCHANGED loopVars /\ UNCHANGED <<csvVars, succeeded>>
    BY DEF FileFails, NextFile, Goes, caseVars
  <1>2. Reading /\ pc # "count"
    BY DEF Reading, InFile
  <1>3. index \in Nat /\ NumFiles \in Nat /\ failed_files \in Nat /\ samples \in Nat
    BY <1>2, FileInHand DEF BenchTypes
  <1>4. BenchTypes'
    <2>1. index' \in 1 .. NumFiles + 1 /\ failed_files' \in Nat
      BY <1>1, <1>3
    <2> QED BY <1>1, <1>2, <2>1, FileInHand, LoopStays DEF BenchTypes, InFile
  <1>5. HeldByStage'
    BY <1>1, <1>2, FileInHand, LoopStays DEF HeldByStage, Reading, InFile
  <1>6. CountedByStage'
    <2>1. ArrivedBytes' = ArrivedBytes
      BY <1>1, LoopStays DEF ArrivedBytes
    <2>2. /\ Cardinality(arrived) = samples + 0
          /\ Cardinality(ArrivedBytes) = total_bytes + 0
          /\ failed_files + samples = index - 1
          /\ \A k \in arrived : k < index
      BY <1>2, FileInHand DEF CountedByStage
    <2>3. failed_files' + samples' = index' - 1
      BY <1>1, <1>3, <2>2
    <2>4. \A k \in arrived : k < index + 1
      BY <1>3, <2>2 DEF BenchTypes
    <2> QED BY <1>1, <1>2, <2>1, <2>2, <2>3, <2>4, FileInHand DEF CountedByStage, Starting, Reading, InFile
  <1>7. CsvSoFar'
    BY <1>1, CsvStays DEF Pending
  <1> QED BY <1>4, <1>5, <1>6, <1>7

LEMMA OpenFileStep == ASSUME ImagenetAssumption, BenchInv, OpenFile PROVE BenchInv'
  <1> USE DEF BenchInv
  <1>1. /\ pc = "open" /\ index <= NumFiles /\ driver' = driver /\ host_buf' = host_buf
        /\ UNCHANGED <<loopVars, index, stats, csvVars, caseVars>>
        /\ files' = files + 1 /\ handles' = handles /\ sessions' = sessions
        /\ allocated' = allocated
    BY DEF OpenFile, OpenFd
  <1>2. Reading /\ ~Starting
    BY <1>1 DEF Reading, Starting
  <1>3. files = 0 /\ handles = 0
    BY <1>1 DEF HeldByStage
  <1>4. CASE path = "gds"
    <2>1. Goes("handle")
      BY <1>4 DEF OpenFile
    <2>2. BenchTypes' /\ CountedByStage' /\ CsvSoFar'
      BY <1>1, <1>2, <2>1, FileInHand, GoesOn
    <2>3. HeldByStage'
      BY <1>1, <1>2, <1>3, <1>4, <2>1, FileInHand, LoopStays DEF HeldByStage, Goes, Reading, InFile
    <2> QED BY <2>2, <2>3
  <1>5. CASE path # "gds"
    <2>1. Goes("read")
      BY <1>5 DEF OpenFile
    <2>2. BenchTypes' /\ CountedByStage' /\ CsvSoFar'
      BY <1>1, <1>2, <2>1, FileInHand, GoesOn
    <2>3. HeldByStage'
      BY <1>1, <1>2, <1>3, <1>5, <2>1, FileInHand, LoopStays DEF HeldByStage, Goes, Reading, InFile
    <2> QED BY <2>2, <2>3
  <1> QED BY <1>4, <1>5

LEMMA RegisterHandleStep == ASSUME ImagenetAssumption, BenchInv, RegisterHandle PROVE BenchInv'
  <1> USE DEF BenchInv
  <1>1. /\ pc = "handle" /\ Goes("read") /\ driver' = driver /\ host_buf' = host_buf
        /\ UNCHANGED <<loopVars, index, stats, csvVars, caseVars>>
        /\ handles' = handles + 1 /\ files' = files /\ sessions' = sessions
        /\ allocated' = allocated
    BY DEF RegisterHandle, HandleRegister
  <1>2. Reading /\ ~Starting /\ InFile
    BY <1>1 DEF Reading, InFile, Starting
  <1>3. files = 1 /\ handles = 0 /\ path = "gds" /\ index <= NumFiles
    BY <1>1, <1>2 DEF HeldByStage, BenchTypes
  <1>4. BenchTypes' /\ CountedByStage' /\ CsvSoFar'
    BY <1>1, <1>2, <1>3, FileInHand, GoesOn
  <1>5. HeldByStage'
    BY <1>1, <1>2, <1>3, FileInHand, LoopStays DEF HeldByStage, Goes, Reading, InFile
  <1> QED BY <1>4, <1>5

\* The four ways a file fails.
LEMMA FileFailsStep ==
    ASSUME ImagenetAssumption, BenchInv,
           OpenFails \/ HandleFails \/ CopyFails \/ \E n \in Results : ReadShort(n)
    PROVE  BenchInv'
  <1> USE DEF BenchInv
  <1>1. CASE OpenFails
    <2>1. files = 0 /\ handles = 0
      BY <1>1 DEF OpenFails, HeldByStage
    <2> QED BY <1>1, <2>1, FailStep DEF OpenFails, systemVars
  <1>2. CASE HandleFails
    <2>1. files = 1 /\ handles = 0 /\ index <= NumFiles /\ pc = "handle"
      BY <1>2 DEF HandleFails, HeldByStage, BenchTypes, InFile
    <2>2. files' = 0 /\ handles' = 0 /\ sessions' = sessions /\ allocated' = allocated /\ FileFails
      BY <1>2, <2>1 DEF HandleFails, Free
    <2> QED BY <2>1, <2>2, FailStep
  <1>3. CASE CopyFails
    <2>1. files = 0 /\ handles = 0 /\ index <= NumFiles /\ pc = "copy"
      BY <1>3 DEF CopyFails, HeldByStage, BenchTypes, InFile
    <2> QED BY <1>3, <2>1, FailStep DEF CopyFails, systemVars
  <1>4. ASSUME NEW n \in Results, ReadShort(n) PROVE BenchInv'
    <2>1. /\ files = 1 /\ handles = (IF path = "gds" THEN 1 ELSE 0)
          /\ index <= NumFiles /\ pc = "read"
      BY <1>4 DEF ReadShort, HeldByStage, BenchTypes, InFile
    <2>2. files' = 0 /\ handles' = 0 /\ sessions' = sessions /\ allocated' = allocated /\ FileFails
      BY <1>4, <2>1 DEF ReadShort, CloseFile
    <2> QED BY <2>1, <2>2, FailStep
  <1> QED BY <1>1, <1>2, <1>3, <1>4
-----------------------------------------------------------------------------
\* The bytes of the file in hand are on the device.
LEMMA ArriveStep ==
    ASSUME ImagenetAssumption, BenchInv, pc \in {"read", "copy"}, pc = "read" => path = "gds",
           arrived' = arrived \cup {index}, Goes("count"),
           files' = 0, handles' = 0, sessions' = sessions, allocated' = allocated,
           UNCHANGED <<loopVars, host_buf, index, stats, csvVars, succeeded, driver>>
    PROVE  BenchInv'
  <1> USE LoopStays DEF BenchInv, Goes, stats
  <1>1. Reading /\ InFile /\ pc # "count" /\ pc' = "count"
    BY DEF Reading, InFile
  <1>2. index \in Nat /\ index \in 1 .. NumFiles
    BY <1>1, FileInHand DEF BenchTypes
  <1>3. BenchTypes'
    BY <1>1, <1>2 DEF BenchTypes, InFile
  <1>4. HeldByStage'
    BY <1>1, FileInHand DEF HeldByStage, Reading, InFile
  <1>5. CountedByStage'
    <2>1. /\ Cardinality(arrived) = samples + 0
          /\ Cardinality(ArrivedBytes) = total_bytes + 0
          /\ failed_files + samples = index - 1
          /\ \A k \in arrived : k < index
      BY <1>1, FileInHand DEF CountedByStage
    <2>2. index \notin arrived
      BY <1>2, <2>1
    <2>3. /\ Cardinality(arrived') = Cardinality(arrived) + 1
          /\ Cardinality(ArrivedBytes') = Cardinality(ArrivedBytes) + sizes[index]
      BY <1>2, <2>2, OneMoreArrived
    <2>4. samples \in Nat /\ total_bytes \in Nat
      BY DEF BenchTypes
    <2>5. Cardinality(arrived') = samples' + 1
      BY <2>1, <2>3, <2>4
    <2>6. Cardinality(ArrivedBytes') = total_bytes' + sizes'[index']
      BY <2>1, <2>3, <2>4
    <2>7. \A k \in arrived' : k < index' \/ (pc' = "count" /\ k = index')
      BY <1>1, <2>1
    <2> QED BY <1>1, <2>1, <2>5, <2>6, <2>7, FileInHand DEF CountedByStage, Starting, Reading, InFile
  <1>6. CsvSoFar'
    BY <1>1, CsvStays DEF Pending
  <1> QED BY <1>3, <1>4, <1>5, <1>6

LEMMA ReadWholeStep == ASSUME ImagenetAssumption, BenchInv, NEW n \in Results, ReadWhole(n) PROVE BenchInv'
  <1> USE LoopStays DEF BenchInv
  <1>1. /\ pc = "read" /\ CloseFile
        /\ arrived' = (IF path = "gds" THEN arrived \cup {index} ELSE arrived)
        /\ Goes(IF path = "gds" THEN "count" ELSE "copy")
        /\ UNCHANGED <<loopVars, host_buf, index, stats, csvVars, succeeded, driver>>
    BY DEF ReadWhole
  <1>2. /\ files = 1 /\ handles = (IF path = "gds" THEN 1 ELSE 0)
        /\ Reading /\ InFile /\ index <= NumFiles
    BY <1>1 DEF HeldByStage, BenchTypes, Reading, InFile
  <1>3. files' = 0 /\ handles' = 0 /\ sessions' = sessions /\ allocated' = allocated
    BY <1>1, <1>2 DEF CloseFile
  <1>4. CASE path = "gds"
    <2>1. arrived' = arrived \cup {index} /\ Goes("count")
      BY <1>1, <1>4
    <2> QED BY <1>1, <1>3, <1>4, <2>1, ArriveStep
  <1>5. CASE path # "gds"
    <2>1. arrived' = arrived /\ pc' = "copy" /\ run_err' = run_err
      BY <1>1, <1>5 DEF Goes
    <2>2. BenchTypes'
      BY <1>1, <1>2, <2>1, CountsStay DEF BenchTypes, InFile
    <2>3. HeldByStage'
      BY <1>1, <1>2, <1>3, <1>5, <2>1, FileInHand DEF HeldByStage, Reading, InFile
    <2>4. CountedByStage'
      BY <1>1, <1>2, <2>1, CountsStay DEF CountedByStage, Starting, Reading, InFile
    <2>5. CsvSoFar'
      BY <1>1, <2>1, CsvStays DEF Pending
    <2> QED BY <2>2, <2>3, <2>4, <2>5
  <1> QED BY <1>4, <1>5

LEMMA CopyStep == ASSUME ImagenetAssumption, BenchInv, Copy PROVE BenchInv'
  <1>1. files = 0 /\ handles = 0
    BY DEF Copy, BenchInv, HeldByStage
  <1> QED BY <1>1, ArriveStep DEF Copy, platform, systemVars

LEMMA CountStep == ASSUME ImagenetAssumption, BenchInv, Count PROVE BenchInv'
  <1> USE LoopStays DEF BenchInv
  <1>1. /\ pc = "count" /\ pc' = "open" /\ run_err' = run_err
        /\ samples' = samples + 1 /\ total_bytes' = total_bytes + sizes[index] /\ index' = index + 1
        /\ host_buf' = host_buf /\ failed_files' = failed_files
        /\ arrived' = arrived /\ UNCHANGED loopVars /\ UNCHANGED <<csvVars, succeeded>>
        /\ driver' = driver /\ files' = files /\ handles' = handles /\ sessions' = sessions
        /\ allocated' = allocated
    BY DEF Count, NextFile, Goes, caseVars, platform, systemVars
  <1>2. Reading /\ InFile
    BY <1>1 DEF Reading, InFile
  <1>3. /\ index \in Nat /\ index \in 1 .. NumFiles /\ NumFiles \in Nat /\ sizes[index] \in Nat
        /\ samples \in Nat /\ total_bytes \in Nat /\ failed_files \in Nat
    BY <1>2, FileInHand, BenchFacts DEF BenchTypes
  <1>4. BenchTypes'
    <2>1. index' \in 1 .. NumFiles + 1 /\ samples' \in Nat /\ total_bytes' \in Nat
      BY <1>1, <1>3
    <2> QED BY <1>1, <1>2, <2>1, FileInHand DEF BenchTypes, InFile
  <1>5. HeldByStage'
    BY <1>1, <1>2, FileInHand DEF HeldByStage, Reading, InFile
  <1>6. CountedByStage'
    <2>1. ArrivedBytes' = ArrivedBytes
      BY <1>1 DEF ArrivedBytes
    <2>2. /\ Cardinality(arrived) = samples + 1
          /\ Cardinality(ArrivedBytes) = total_bytes + sizes[index]
          /\ failed_files + samples = index - 1
          /\ \A k \in arrived : k <= index
      BY <1>1, <1>3 DEF CountedByStage, BenchTypes
    <2>3. failed_files' + samples' = index' - 1
      BY <1>1, <1>3, <2>2
    <2>4. \A k \in arrived : k < index + 1
      BY <1>3, <2>2 DEF BenchTypes
    <2>5. Cardinality(arrived') = samples' + 0 /\ Cardinality(ArrivedBytes') = total_bytes' + 0
      BY <1>1, <1>3, <2>1, <2>2
    <2> QED BY <1>1, <1>2, <2>3, <2>4, <2>5, FileInHand DEF CountedByStage, Starting, Reading, InFile
  <1>7. CsvSoFar'
    BY <1>1, CsvStays DEF Pending
  <1> QED BY <1>4, <1>5, <1>6, <1>7

\* What the csv file tells is still told when one more case has succeeded, ...
LEMMA ToldStill ==
    ASSUME NEW S, NEW cases \in Seq(S), NEW row \in S, NEW done \in Nat, done <= Len(cases),
           NEW before, NEW n, NEW lines, Tell(before, n, lines, cases, done)
    PROVE  Tell(before, n, lines, Append(cases, row), done)
  <1>1. \A c \in 1 .. done : Append(cases, row)[c] = cases[c]
    OBVIOUS
  <1> QED BY <1>1, Zenon DEF Tell

\* ... when the file could not be opened for the case that is reported, ...
LEMMA ToldWithout ==
    ASSUME NEW done \in Nat, NEW before, NEW n, NEW lines, NEW cases,
           Tell(before, n, lines, cases, done)
    PROVE  Tell(before, n, lines, cases, done + 1)
  <1>1. \A c \in 1 .. done : c \in 1 .. done + 1
    OBVIOUS
  <1> QED BY <1>1, Zenon DEF Tell

\* ... with the row of that case, ...
LEMMA ToldNext ==
    ASSUME NEW S, NEW before \in Seq(S), NEW n \in Nat, NEW lines \in Seq(S), NEW row \in S,
           NEW cases, NEW done \in Nat, cases[done + 1] = row,
           Tell(before, n, lines, cases, done)
    PROVE  Tell(before, n + 1, Append(lines, row), cases, done + 1)
  <1> DEFINE new == Append(lines, row)
             b == Len(before)
  <1>1. b \in Nat /\ Len(lines) = b + n
    BY DEF Tell
  <1>2. /\ Len(new) = Len(lines) + 1 /\ new[Len(lines) + 1] = row
        /\ \A k \in 1 .. Len(lines) : new[k] = lines[k]
    OBVIOUS
  <1> HIDE DEF new, b
  <1>3. ASSUME NEW k \in 1 .. b PROVE new[k] = before[k]
    <2>1. k \in 1 .. Len(lines) /\ k \in 1 .. Len(before)
      BY <1>1 DEF b
    <2>2. lines[k] = before[k]
      BY <2>1 DEF Tell
    <2> QED BY <1>2, <2>1, <2>2
  <1>4. ASSUME NEW k \in 1 .. n
        PROVE  /\ new[b + k] = lines[b + k]
               /\ \E c \in 1 .. done : lines[b + k] = cases[c]
    <2>1. b + k \in 1 .. Len(lines)
      BY <1>1
    <2>2. \E c \in 1 .. done : lines[b + k] = cases[c]
      BY DEF Tell, b
    <2> QED BY <1>2, <2>1, <2>2
  <1>5. new[b + (n + 1)] = row
    <2>1. b + (n + 1) = Len(lines) + 1
      BY <1>1
    <2> QED BY <1>2, <2>1
  <1>6. done + 1 \in 1 .. done + 1 /\ \A c \in 1 .. done : c \in 1 .. done + 1 /\ c < done + 1
    OBVIOUS
  <1>7. ASSUME NEW k \in 1 .. n + 1
        PROVE  \E c \in 1 .. done + 1 : new[b + k] = cases[c]
    <2>1. CASE k \in 1 .. n
      BY <1>4, <1>6, <2>1
    <2>2. CASE k = n + 1
      BY <1>5, <1>6, <2>2
    <2> QED BY <2>1, <2>2
  <1>8. ASSUME NEW k \in 2 .. n + 1
        PROVE  \E c, d \in 1 .. done + 1 :
                   c < d /\ new[b + (k - 1)] = cases[c] /\ new[b + k] = cases[d]
    <2>1. CASE k \in 2 .. n
      <3>1. PICK c \in 1 .. done, d \in 1 .. done :
                c < d /\ lines[b + (k - 1)] = cases[c] /\ lines[b + k] = cases[d]
        BY <2>1 DEF Tell, b
      <3>2. k \in 1 .. n /\ k - 1 \in 1 .. n
        BY <2>1
      <3> QED BY <1>4, <1>6, <3>1, <3>2
    <2>2. CASE k = n + 1
      <3>1. k - 1 = n /\ n \in 1 .. n
        BY <2>2
      <3>2. PICK c \in 1 .. done : lines[b + n] = cases[c]
        BY <1>4, <3>1
      <3>3. new[b + (k - 1)] = cases[c] /\ new[b + k] = cases[done + 1]
        BY <1>4, <1>5, <2>2, <3>1, <3>2
      <3> QED BY <1>6, <3>3
    <2> QED BY <2>1, <2>2
  <1>9. Len(new) = b + (n + 1)
    BY <1>1, <1>2
  <1>10. Tell(before, n + 1, new, cases, done + 1)
    BY <1>3, <1>7, <1>8, <1>9 DEF Tell, b
  <1> QED BY <1>10 DEF new

\* ... and with the header and that row, if the file was empty.
LEMMA ToldFirst ==
    ASSUME NEW S, NEW head \in S, NEW row \in S, NEW cases, NEW done \in Nat,
           cases[done + 1] = row
    PROVE  Tell(<<head>>, 1, <<head, row>>, cases, done + 1)
  <1>1. /\ Len(<<head>>) = 1 /\ <<head>>[1] = head
        /\ Len(<<head, row>>) = 2 /\ <<head, row>>[1] = head /\ <<head, row>>[2] = row
    OBVIOUS
  <1>2. done + 1 \in 1 .. done + 1
    OBVIOUS
  <1> QED BY <1>1, <1>2 DEF Tell

\* What is known of the csv file in any state.
LEMMA CsvFacts ==
    ASSUME ImagenetAssumption, BenchTypes, CsvSoFar
    PROVE  /\ Row \in CsvLines /\ Header \in CsvLines
           /\ Len(succeeded) \in Nat /\ unopened \in Nat /\ Reported - unopened \in Nat
           /\ Reported = (IF Pending THEN Len(succeeded) - 1 ELSE Len(succeeded))
           /\ Reported \in Nat /\ Reported <= Len(succeeded)
           /\ \A old \in OldCsv : old \in Seq(CsvLines)
           /\ \E old \in OldCsv :
                  Tell(Before(old, Reported - unopened), Reported - unopened, csv, succeeded, Reported)
  <1>1. Row \in CsvLines /\ Header \in CsvLines
    BY BenchFacts DEF Header, CsvLines
  <1>2. /\ succeeded \in Seq(CsvLines) /\ unopened \in Nat /\ unopened <= Reported
        /\ (Pending => succeeded # <<>>)
    BY DEF CsvSoFar
  <1> HIDE DEF CsvLines
  <1>3. Len(succeeded) \in Nat /\ (Pending => Len(succeeded) > 0)
    BY <1>2
  <1>4. Reported = (IF Pending THEN Len(succeeded) - 1 ELSE Len(succeeded))
    BY <1>3 DEF Reported, Pending
  <1>5. Reported \in Nat /\ Reported <= Len(succeeded) /\ Reported - unopened \in Nat
    BY <1>2, <1>3, <1>4
  <1>6. \E old \in OldCsv :
            Tell(Before(old, Reported - unopened), Reported - unopened, csv, succeeded, Reported)
    BY Zenon DEF CsvSoFar, CsvTellsSuccesses
  <1> QED BY <1>1, <1>2, <1>3, <1>4, <1>5, <1>6 DEF ImagenetAssumption

\* A case has succeeded and is to be reported.
LEMMA SucceedsStep ==
    ASSUME ImagenetAssumption, BenchTypes, CsvSoFar, pc # "report", pc' = "report", ~run_err,
           run_err' = run_err, Row' = Row, succeeded' = Append(succeeded, Row), UNCHANGED csvVars
    PROVE  CsvSoFar'
  <1>1. ~Pending /\ Pending' /\ csv' = csv /\ unopened' = unopened
    BY DEF Pending, csvVars
  <1>2. /\ Row \in CsvLines /\ succeeded \in Seq(CsvLines) /\ csv \in Seq(CsvLines)
        /\ unopened \in Nat /\ unopened <= Reported
        /\ Reported = Len(succeeded) /\ Len(succeeded) \in Nat /\ Reported \in Nat
    BY <1>1, CsvFacts DEF CsvSoFar
  <1> HIDE DEF Row, CsvLines
  <1>3. /\ succeeded' \in Seq(CsvLines) /\ Len(succeeded') = Len(succeeded) + 1
        /\ succeeded'[Len(succeeded')] = Row /\ succeeded' # <<>>
    <2>1. /\ Append(succeeded, Row) \in Seq(CsvLines)
          /\ Len(Append(succeeded, Row)) = Len(succeeded) + 1
          /\ Append(succeeded, Row)[Len(succeeded) + 1] = Row /\ Append(succeeded, Row) # <<>>
      BY <1>2, AppendProperties
    <2> QED BY <2>1
  <1>4. Reported' = Len(succeeded)
    BY <1>1, <1>2, <1>3 DEF Reported, Pending
  <1>5. PICK old \in OldCsv :
            Tell(Before(old, Reported - unopened), Reported - unopened, csv, succeeded, Reported)
    BY CsvFacts
  <1>6. Tell(Before(old, Reported - unopened), Reported - unopened, csv, succeeded', Reported)
    <2>1. Reported <= Len(succeeded)
      BY <1>2
    <2>2. Tell(Before(old, Reported - unopened), Reported - unopened, csv, Append(succeeded, Row), Reported)
      BY <1>2, <1>5, <2>1, ToldStill
    <2> QED BY <2>2
  <1>7. CsvTellsSuccesses'
    <2> DEFINE n == Reported - unopened
    <2>1. Reported' = Reported /\ n = Reported - unopened' /\ csv' = csv
      BY <1>1, <1>2, <1>4
    <2>2. Tell(Before(old, n), n, csv', succeeded', Reported)
      BY <1>6, <2>1
    <2> HIDE DEF n
    <2> QED BY <2>1, <2>2, ToldThen
  <1> QED BY <1>1, <1>2, <1>3, <1>4, <1>7 DEF CsvSoFar

LEMMA TeardownStep == ASSUME ImagenetAssumption, BenchInv, Teardown PROVE BenchInv'
  <1> USE LoopStays DEF BenchInv
  <1>1. /\ pc = "open" /\ index > NumFiles
        /\ sessions' = sessions - (IF path = "gds" THEN 1 ELSE 0)
        /\ driver' = (IF path = "gds" THEN Deregistering({Buffer}) ELSE driver)
        /\ allocated' = {} /\ host_buf' = FALSE /\ files' = files /\ handles' = handles
        /\ \/ samples = 0 /\ GiveUp /\ succeeded' = succeeded
           \/ samples # 0 /\ Goes("report") /\ succeeded' = Append(succeeded, Row)
        /\ UNCHANGED <<loopVars, index, stats, csvVars, arrived>>
    BY DEF Teardown
  <1>2. Reading /\ files = 0 /\ handles = 0
    BY <1>1 DEF Reading, HeldByStage
  <1>3. index = NumFiles + 1
    BY <1>1, <1>2, FileInHand
  <1>4. sessions' = 0 /\ driver' = [p \in Ptrs |-> Unregistered]
    BY <1>1, <1>2, FileInHand DEF Deregistering
  <1>5. CASE samples = 0
    BY <1>1, <1>2, <1>3, <1>4, <1>5, GiveUpStep DEF caseVars
  <1>6. CASE samples # 0
    <2>1. pc' = "report" /\ run_err' = run_err /\ succeeded' = Append(succeeded, Row)
      BY <1>1, <1>6 DEF Goes
    <2>2. BenchTypes'
      BY <1>1, <1>2, <2>1, CountsStay DEF BenchTypes, InFile
    <2>3. HeldByStage'
      BY <1>1, <1>2, <1>4, <2>1 DEF HeldByStage, Reading, InFile
    <2>4. CountedByStage'
      BY <1>1, <1>2, <1>3, <2>1, CountsStay DEF CountedByStage, Starting, Reading, InFile
    <2>5. CsvSoFar'
      BY <1>1, <1>2, <2>1, FileInHand, SucceedsStep
    <2> QED BY <2>2, <2>3, <2>4, <2>5
  <1> QED BY <1>1, <1>5, <1>6
-----------------------------------------------------------------------------
\* The report of a case, with its row if there is one.
LEMMA AppendCsvStep ==
    ASSUME ImagenetAssumption, BenchTypes, CsvSoFar, AppendCsv, pc = "report", pc' # "report",
           succeeded' = succeeded
    PROVE  CsvSoFar'
  <1>1. CASE run_err /\ UNCHANGED csvVars
    BY <1>1, CsvStays DEF Pending
  <1>2. CASE ~run_err /\ csv' \in {csv, csv \o Lines} /\ unopened' \in Int
             /\ \/ csv' = csv \o Lines /\ unopened' = unopened
                \/ csv' = csv /\ unopened' = unopened + 1
    <2>1. Pending /\ ~Pending' /\ csv \in Seq(CsvLines) /\ succeeded \in Seq(CsvLines)
      BY <1>2 DEF Pending, CsvSoFar
    <2> DEFINE done == Len(succeeded) - 1
               n == done - unopened
    <2>2. /\ Row \in CsvLines /\ Header \in CsvLines /\ Reported = done
          /\ unopened \in Nat /\ done \in Nat /\ n \in Nat /\ done + 1 = Len(succeeded)
          /\ succeeded[done + 1] = Row
      BY <2>1, CsvFacts DEF CsvSoFar
    <2>3. PICK old \in OldCsv : old \in Seq(CsvLines) /\ Tell(Before(old, n), n, csv, succeeded, done)
      BY <2>2, CsvFacts
    <2>4. Reported' = done + 1
      BY <2>1, <2>2 DEF Reported, Pending
    <2> HIDE DEF Header, Row, CsvLines, done, n
    <2>5. Before(old, n) \in Seq(CsvLines)
      BY <2>2, <2>3 DEF Before
    <2>6. CASE csv' = csv /\ unopened' = unopened + 1
      <3>1. Tell(Before(old, n), n, csv', succeeded', done + 1)
        BY <2>2, <2>3, <2>6, ToldWithout
      <3>2. n = (done + 1) - unopened'
        BY <2>2, <2>6 DEF n
      <3>3. unopened' \in Nat /\ unopened' <= Reported'
        BY <2>2, <2>4, <2>6 DEF n
      <3> QED BY <2>1, <2>4, <2>6, <3>1, <3>2, <3>3, ToldThen DEF CsvSoFar
    <2>7. CASE csv' = csv \o Lines /\ unopened' = unopened
      <3>1. n + 1 = (done + 1) - unopened' /\ n + 1 > 0 /\ unopened' <= Reported'
        BY <2>2, <2>4, <2>7 DEF n
      <3>2. csv' \in Seq(CsvLines) /\ Tell(Before(old, n + 1), n + 1, csv', succeeded', done + 1)
        <4>1. CASE csv = <<>>
          <5>1. old = <<>> /\ n = 0
            <6>1. Len(csv) = 0 /\ Len(csv) = Len(Before(old, n)) + n /\ Len(Before(old, n)) \in Nat
              BY <2>3, <2>5, <4>1 DEF Tell
            <6>2. Len(Before(old, n)) = 0 /\ n = 0
              <7> DEFINE m == Len(Before(old, n))
              <7>1. m \in Nat /\ n \in Nat /\ 0 = m + n
                BY <2>2, <6>1
              <7> HIDE DEF m
              <7>2. m = 0 /\ n = 0
                BY <7>1
              <7> QED BY <7>2 DEF m
            <6>3. Before(old, n) = <<>>
              BY <2>5, <6>2
            <6> QED BY <6>2, <6>3 DEF Before
          <5>2. csv' = <<Header, Row>>
            BY <2>2, <2>7, <4>1 DEF Lines
          <5>3. Before(old, n + 1) = <<Header>>
            BY <5>1, <3>1 DEF Before
          <5>4. Tell(<<Header>>, 1, <<Header, Row>>, succeeded, done + 1)
            BY <2>2, ToldFirst
          <5>5. <<Header, Row>> \in Seq(CsvLines)
            BY <2>2
          <5> QED BY <5>1, <5>2, <5>3, <5>4, <5>5
        <4>2. CASE csv # <<>>
          <5>1. csv' = Append(csv, Row)
            BY <2>1, <2>2, <2>7, <4>2, AppendIsConcat DEF Lines
          <5>2. Before(old, n + 1) = Before(old, n)
            <6>1. CASE old = <<>> /\ n = 0
              <7>1. Len(csv) = 0
                BY <2>3, <6>1 DEF Tell, Before
              <7> QED BY <2>1, <4>2, <7>1
            <6>2. CASE old # <<>> \/ n > 0
              BY <2>2, <6>2 DEF Before
            <6> QED BY <2>2, <6>1, <6>2
          <5>3. Tell(Before(old, n), n + 1, Append(csv, Row), succeeded, done + 1)
            BY <2>1, <2>2, <2>3, <2>5, ToldNext
          <5>4. Append(csv, Row) \in Seq(CsvLines)
            BY <2>1, <2>2
          <5> QED BY <5>1, <5>2, <5>3, <5>4
        <4> QED BY <4>1, <4>2
      <3> QED BY <2>1, <2>2, <2>4, <2>7, <3>1, <3>2, ToldThen DEF CsvSoFar
    <2> QED BY <1>2, <2>6, <2>7
  <1>3. ~run_err => unopened \in Nat
    BY DEF CsvSoFar
  <1> QED BY <1>1, <1>2, <1>3 DEF AppendCsv, csvVars

LEMMA ReportStep == ASSUME ImagenetAssumption, BenchInv, Report PROVE BenchInv'
  <1> USE DEF BenchInv
  <1>1. /\ pc = "report" /\ pc' \in {"case", "end"}
        /\ index' = 1 /\ total_bytes' = 0 /\ failed_files' = 0 /\ samples' = 0
        /\ arrived' = {} /\ run_err' = FALSE
        /\ sizes' = sizes /\ paths' = paths /\ host_buf' = host_buf
        /\ driver' = driver /\ files' = files /\ handles' = handles /\ sessions' = sessions
        /\ allocated' = allocated
    BY DEF Report, platform, systemVars
  <1>2. NumFiles \in Nat /\ NumFiles' = NumFiles
    BY <1>1, BenchFacts DEF BenchTypes, NumFiles
  <1>3. case' \in 1 .. Len(paths) /\ run' \in Nat
    <2>1. paths \in Seq(PathTypes) \ {<<>>} /\ case \in 1 .. Len(paths) /\ run \in Nat
      BY DEF BenchTypes, ImagenetAssumption
    <2>2. \/ case < Len(paths) /\ case' = case + 1 /\ run' = run
          \/ case' = 1 /\ run' = run + 1
          \/ case' = case /\ run' = run
      BY DEF Report
    <2>3. Len(paths) \in Nat
      BY <2>1
    <2> QED BY <2>1, <2>2, <2>3
  <1>4. BenchTypes'
    <2>1. index' \in 1 .. NumFiles' + 1 /\ arrived' \subseteq 1 .. NumFiles'
      BY <1>1, <1>2
    <2> QED BY <1>1, <1>2, <1>3, <2>1 DEF BenchTypes, InFile
  <1>5. HeldByStage'
    BY <1>1 DEF HeldByStage, Reading, InFile
  <1>6. CountedByStage'
    <2>1. ArrivedBytes' = {}
      BY <1>1 DEF ArrivedBytes
    <2>2. Cardinality(arrived') = 0 /\ Cardinality(ArrivedBytes') = 0
      BY <1>1, <2>1, FS_EmptySet
    <2> QED BY <1>1, <2>2 DEF CountedByStage, Starting, Reading, InFile
  <1>7. CsvSoFar'
    BY <1>1, AppendCsvStep DEF Report
  <1> QED BY <1>4, <1>5, <1>6, <1>7

LEMMA StaysStep == ASSUME BenchInv, Ended \/ UNCHANGED vars PROVE BenchInv'
  <1>1. /\ UNCHANGED <<pc, loopVars, host_buf, run_err, csvVars, succeeded, driver, systemVars>>
        /\ UNCHANGED <<arrived, index, stats>>
    BY DEF Ended, vars, platform, caseVars
  <1>2. BenchTypes'
    BY <1>1, LoopStays, CountsStay DEF BenchInv, BenchTypes, InFile
  <1>3. HeldByStage'
    BY <1>1, LoopStays DEF BenchInv, HeldByStage, Reading, InFile, systemVars
  <1>4. CountedByStage'
    BY <1>1, LoopStays, CountsStay DEF BenchInv, CountedByStage, Starting, Reading, InFile
  <1>5. CsvSoFar'
    BY <1>1, CsvStays, LoopStays DEF BenchInv
  <1> QED BY <1>2, <1>3, <1>4, <1>5 DEF BenchInv

LEMMA BenchInductive == ASSUME ImagenetAssumption, BenchInv, [Next]_vars PROVE BenchInv'
  <1>1. ASSUME NEW n \in Results, ReadWhole(n) \/ ReadShort(n) PROVE BenchInv'
    BY <1>1, ReadWholeStep, FileFailsStep
  <1>2. ASSUME OpenFails \/ HandleFails \/ CopyFails PROVE BenchInv'
    BY <1>2, FileFailsStep
  <1>3. CASE Ended \/ UNCHANGED vars
    BY <1>3, StaysStep
  <1> QED
    BY <1>1, <1>2, <1>3, HostAllocStep, DeviceAllocStep, OpenDriverStep, RegisterBufferStep,
       OpenFileStep, RegisterHandleStep, CopyStep, CountStep, TeardownStep, ReportStep DEF Next

LEMMA BenchInvHolds == Spec => []BenchInv
  <1>1. Init => BenchInv
    BY BenchInit, ImagenetAssumption
  <1>2. BenchInv /\ [Next]_vars => BenchInv'
    BY BenchInductive, ImagenetAssumption
  <1> QED BY <1>1, <1>2, PTL DEF Spec
-----------------------------------------------------------------------------
\* Whatever calls fail and whatever becomes of the files: at the end of a case each
\* file of the list is a failure or a sample, and the bytes of its throughput are those
\* of the files that arrived.
THEOREM FilesAlwaysCounted == Spec => []EveryFileCounted
  <1>1. BenchInv => EveryFileCounted
    <2> SUFFICES ASSUME BenchInv, pc \in {"open", "report"} PROVE EveryFileCounted
      BY DEF EveryFileCounted
    <2>1. /\ Cardinality(arrived) = samples + 0 /\ Cardinality(ArrivedBytes) = total_bytes + 0
          /\ samples \in Nat /\ total_bytes \in Nat
          /\ failed_files + samples = index - 1
          /\ (pc = "report" /\ ~run_err => index = NumFiles + 1)
      BY DEF BenchInv, BenchTypes, CountedByStage
    <2>2. samples = Cardinality(arrived) /\ total_bytes = Cardinality(ArrivedBytes)
      BY <2>1
    <2> QED BY <2>1, <2>2 DEF EveryFileCounted
  <1> QED BY <1>1, BenchInvHolds, PTL

\* However a case ends, it has given back its memory, its session and its files, and
\* no read goes past its buffers.
THEOREM RunAlwaysGivesBack == Spec => []RunGivesBack
  <1>1. BenchInv => RunGivesBack
    <2> SUFFICES ASSUME BenchInv PROVE RunGivesBack
      OBVIOUS
    <2> USE ImagenetAssumption DEF BenchInv
    <2>1. pc \in {"case", "report", "end"} => NothingHeld /\ ~host_buf
      BY DEF HeldByStage, NothingHeld, DriverHolds, Reading, InFile
    <2>2. pc \in {"open", "copy", "count"} => files = 0 /\ handles = 0
      BY DEF HeldByStage
    <2>3. RegistrationsAreLive
      <3> SUFFICES ASSUME DriverHolds # {} PROVE sessions > 0 /\ DriverHolds \subseteq allocated
        BY DEF RegistrationsAreLive
      <3>1. Reading /\ path = "gds"
        BY DEF HeldByStage, DriverHolds
      <3> QED BY <3>1 DEF HeldByStage, DriverHolds
    <2>4. ASSUME pc = "read"
          PROVE  Buffer \in allocated /\ Wanted <= MaxAligned /\ (path = "gds" => Wanted <= driver[Buffer])
      <3>1. Reading /\ InFile
        BY <2>4 DEF Reading, InFile
      <3>2. index \in 1 .. NumFiles /\ allocated = Ptrs /\ Ptrs = {Buffer}
        BY <3>1, FileInHand DEF BenchTypes
      <3>3. /\ sizes[index] \in Nat /\ MaxAligned \in Nat /\ Align \in Nat \ {0}
            /\ sizes[index] <= AlignUp(sizes[index], Align)
            /\ AlignUp(sizes[index], Align) <= MaxAligned
        BY <3>2, BenchFacts, FilesFit
      <3>4. AlignUp(sizes[index], Align) \in Nat
        <4>1. sizes[index] <= sizes[index]
          BY <3>3
        <4> QED BY <3>3, <4>1, AlignedReadFits
      <3>5. Wanted <= MaxAligned
        BY <3>3, <3>4 DEF Wanted
      <3>6. path = "gds" => driver[Buffer] = MaxAligned
        BY <3>1, <3>2, FileInHand
      <3> QED BY <3>2, <3>5, <3>6
    <2> QED BY <2>1, <2>2, <2>3, <2>4 DEF RunGivesBack
  <1> QED BY <1>1, BenchInvHolds, PTL

\* Whatever fails and whatever the csv file had: what is added are rows of cases in
\* which run_one returned no error, in the order of the cases, and of all of those but
\* as many as the file could not be opened for; the header comes first if and only if
\* the file had nothing and gets a row.
THEOREM CsvAlwaysTells == Spec => []CsvTellsSuccesses
  <1>1. BenchInv => CsvTellsSuccesses
    BY DEF BenchInv, CsvSoFar
  <1> QED BY <1>1, BenchInvHolds, PTL
-----------------------------------------------------------------------------
\* How far init is: what it has opened and allocated, and of what size.
InitSoFar ==
    /\ cpu_pc \in {"open", "stat", "memalign", "malloc"} =>
           /\ ~initialized /\ total_read = 0 /\ device_buffer = FALSE
           /\ fd = (cpu_pc # "open") /\ host_buffer = (cpu_pc = "malloc")
    /\ cpu_pc \in {"stat", "memalign", "malloc"} => asked.io_size # 0
    /\ initialized \/ cpu_pc \in {"memalign", "malloc"} => io_size # 0
    /\ initialized => fd /\ host_buffer /\ device_buffer
    /\ cpu_pc \in {"read", "memcpy", "finish"} => initialized

\* The size taken in init is the file's, until another process changes it.
SizeTaken ==
    /\ resizes \in Nat
    /\ (initialized \/ cpu_pc \in {"memalign", "malloc"}) /\ resizes = 0 => file_size = file

\* How far a run is, and what the last one has left.
RunSoFar ==
    /\ cpu_pc \in {"read", "memcpy", "finish"} => copied = i * io_size
    /\ cpu_pc \in {"read", "memcpy"} => i < iterations
    /\ cpu_pc = "read" => total_read < io_size
    /\ cpu_pc = "memcpy" => total_read = io_size
    /\ cpu_pc = "finish" => i = iterations
    /\ Idle /\ initialized /\ result = "ok" /\ metrics > 0 => copied = metrics * io_size

CPUInv ==
    /\ CPUTypeOK /\ HoldsWhatItKnows /\ EndOfFileIsReal
    /\ InitSoFar /\ SizeTaken /\ RunSoFar
-----------------------------------------------------------------------------
LEMMA CPUNumbers ==
    ASSUME CPUAssumption, CPUTypeOK
    PROVE  /\ io_size \in Nat /\ file_size \in Nat /\ file \in Nat
           /\ asked.io_size \in Sizes /\ asked.is_read \in BOOLEAN
           /\ iterations \in Nat /\ i \in Nat /\ i <= iterations
           /\ total_read \in Nat /\ total_read <= io_size
           /\ copied \in Nat /\ metrics \in Nat
           /\ initialized \in BOOLEAN /\ fd \in BOOLEAN
           /\ host_buffer \in BOOLEAN /\ device_buffer \in BOOLEAN
  BY DEF CPUAssumption, CPUTypeOK

LEMMA CPUInitHolds == ASSUME CPUAssumption, CPUInit PROVE CPUInv
  <1> USE DEF CPUInit, NoSystem
  <1>1. CPUTypeOK
    <2>1. system \in [DOMAIN NoSystem -> Nat]
      OBVIOUS
    <2>2. i \in 0 .. iterations /\ total_read \in 0 .. io_size /\ copied \in Nat
      OBVIOUS
    <2>3. asked \in [io_size : Sizes, is_read : BOOLEAN]
      OBVIOUS
    <2> QED BY <2>1, <2>2, <2>3 DEF CPUTypeOK
  <1>2. HoldsWhatItKnows /\ EndOfFileIsReal
    BY DEF HoldsWhatItKnows, EndOfFileIsReal
  <1>3. InitSoFar /\ SizeTaken /\ RunSoFar
    BY DEF InitSoFar, SizeTaken, RunSoFar, Idle
  <1> QED BY <1>1, <1>2, <1>3 DEF CPUInv

\* A cleanup gives back all there is.
LEMMA CleanupGivesBack ==
    ASSUME CPUAssumption, CPUInv, Cleanup
    PROVE  /\ initialized' = FALSE /\ fd' = FALSE /\ host_buffer' = FALSE /\ device_buffer' = FALSE
           /\ io_size' = 0 /\ file_size' = 0
           /\ system' = NoSystem
  <1>1. system = [files  |-> IF fd THEN 1 ELSE 0,
                  host   |-> IF host_buffer THEN 1 ELSE 0,
                  device |-> IF device_buffer THEN 1 ELSE 0]
    BY DEF CPUInv, HoldsWhatItKnows
  <1>2. /\ system.files - (IF fd THEN 1 ELSE 0) = 0
        /\ system.host - (IF host_buffer THEN 1 ELSE 0) = 0
        /\ system.device - (IF device_buffer THEN 1 ELSE 0) = 0
    BY <1>1
  <1> QED BY <1>2 DEF Cleanup, NoSystem

\* A call that ends with nothing left, or that begins so.
LEMMA EmptyHands ==
    ASSUME CPUAssumption, CPUInv, Cleanup, total_read' = 0,
           asked' \in [io_size : Sizes, is_read : BOOLEAN],
           result' \in {"none", "ok", "failed", "eof"},
           cpu_pc' \in {"idle", "open"},
           UNCHANGED <<i, iterations, copied, metrics, file, resizes>>
    PROVE  CPUInv'
  <1> USE DEF CPUInv
  <1>1. /\ initialized' = FALSE /\ fd' = FALSE /\ host_buffer' = FALSE /\ device_buffer' = FALSE
        /\ io_size' = 0 /\ file_size' = 0 /\ system' = NoSystem
    BY CleanupGivesBack
  <1>2. CPUTypeOK'
    <2>1. system' \in [DOMAIN NoSystem -> Nat]
      BY <1>1 DEF NoSystem
    <2>2. total_read' \in 0 .. io_size'
      BY <1>1
    <2>3. cpu_pc' \in {"idle", "open", "stat", "memalign", "malloc", "read", "memcpy", "finish"}
      OBVIOUS
    <2> QED BY <1>1, <2>1, <2>2, <2>3 DEF CPUTypeOK
  <1>3. HoldsWhatItKnows'
    BY <1>1 DEF HoldsWhatItKnows, NoSystem, Idle
  <1>4. EndOfFileIsReal' /\ InitSoFar' /\ SizeTaken' /\ RunSoFar'
    BY <1>1 DEF EndOfFileIsReal, InitSoFar, SizeTaken, RunSoFar
  <1> QED BY <1>2, <1>3, <1>4

LEMMA InitCallStep ==
    ASSUME CPUAssumption, CPUInv, NEW size \in Sizes, NEW isRead \in BOOLEAN, InitCall(size, isRead)
    PROVE  CPUInv'
  <1>1. asked' \in [io_size : Sizes, is_read : BOOLEAN]
    BY DEF InitCall
  <1> QED BY <1>1, EmptyHands DEF InitCall

LEMMA CleanupCallStep == ASSUME CPUAssumption, CPUInv, CleanupCall PROVE CPUInv'
  <1>1. asked \in [io_size : Sizes, is_read : BOOLEAN] /\ result \in {"none", "ok", "failed", "eof"}
    BY DEF CPUInv, CPUTypeOK
  <1> QED BY <1>1, EmptyHands DEF CleanupCall, Idle

LEMMA InitFailsStep == ASSUME CPUAssumption, CPUInv, InitFails PROVE CPUInv'
  <1>1. asked \in [io_size : Sizes, is_read : BOOLEAN] /\ total_read = 0
    BY DEF CPUInv, CPUTypeOK, InitSoFar, InitFails
  <1> QED BY <1>1, EmptyHands DEF InitFails, Fails, loop

\* A call that ends and changes nothing but its result.
LEMMA EndStep ==
    ASSUME CPUAssumption, CPUInv, cpu_pc' = "idle", result' \in {"failed", "eof"},
           cpu_pc \in {"idle", "open", "read", "memcpy"},
           result' = "eof" => file_size < io_size \/ resizes > 0,
           UNCHANGED <<asked, initialized, resources, i, iterations, total_read, copied,
                       metrics, file, resizes>>
    PROVE  CPUInv'
  <1> USE DEF CPUInv, resources
  <1>1. CPUTypeOK'
    BY DEF CPUTypeOK
  <1>2. HoldsWhatItKnows'
    <2>1. /\ initialized \in BOOLEAN /\ fd \in BOOLEAN
          /\ host_buffer \in BOOLEAN /\ device_buffer \in BOOLEAN
      BY CPUNumbers
    <2>2. (initialized <=> fd) /\ fd = host_buffer /\ fd = device_buffer
      BY <2>1 DEF InitSoFar, HoldsWhatItKnows, Idle
    <2> QED BY <2>2 DEF HoldsWhatItKnows
  <1>3. EndOfFileIsReal' /\ InitSoFar' /\ SizeTaken' /\ RunSoFar'
    BY DEF EndOfFileIsReal, InitSoFar, SizeTaken, RunSoFar
  <1> QED BY <1>1, <1>2, <1>3
-----------------------------------------------------------------------------
LEMMA OpenStep == ASSUME CPUAssumption, CPUInv, OpenSource PROVE CPUInv'
  <1> USE DEF CPUInv
  <1>1. CASE /\ asked.io_size # 0 /\ asked.is_read
             /\ fd' = TRUE /\ system' = [system EXCEPT !.files = @ + 1]
             /\ cpu_pc' = "stat" /\ UNCHANGED result
    <2>1. /\ cpu_pc = "open" /\ initialized' = initialized
          /\ asked' = asked /\ host_buffer' = host_buffer /\ device_buffer' = device_buffer
          /\ io_size' = io_size /\ file_size' = file_size /\ i' = i /\ iterations' = iterations
          /\ total_read' = total_read /\ copied' = copied /\ metrics' = metrics
          /\ file' = file /\ resizes' = resizes
      BY DEF OpenSource, loop
    <2>2. fd = FALSE /\ host_buffer = FALSE /\ device_buffer = FALSE /\ ~initialized
      BY <2>1, CPUNumbers DEF InitSoFar
    <2>3. system = [files |-> 0, host |-> 0, device |-> 0]
      BY <2>2 DEF HoldsWhatItKnows
    <2>4. system' = [files |-> 1, host |-> 0, device |-> 0]
      BY <1>1, <2>3
    <2>5. HoldsWhatItKnows'
      BY <1>1, <2>1, <2>2, <2>4 DEF HoldsWhatItKnows, Idle
    <2>6. CPUTypeOK'
      BY <1>1, <2>1, <2>4 DEF CPUTypeOK, NoSystem
    <2>7. EndOfFileIsReal' /\ InitSoFar' /\ SizeTaken' /\ RunSoFar'
      BY <1>1, <2>1, <2>2 DEF EndOfFileIsReal, InitSoFar, SizeTaken, RunSoFar, Idle
    <2> QED BY <2>5, <2>6, <2>7
  <1>2. CASE Fails("failed") /\ UNCHANGED <<fd, system>>
    BY <1>2, EndStep DEF OpenSource, Fails, resources, loop
  <1> QED BY <1>1, <1>2 DEF OpenSource

LEMMA StatStep == ASSUME CPUAssumption, CPUInv, Stat PROVE CPUInv'
  <1> USE DEF CPUInv, Stat, loop
  <1>1. HoldsWhatItKnows'
    BY DEF HoldsWhatItKnows, Idle
  <1>2. CPUTypeOK'
    <2>1. total_read = 0 /\ asked.io_size \in Sizes /\ asked.io_size \in Nat
      BY CPUNumbers DEF InitSoFar
    <2>2. (total_read \in 0 .. io_size)'
      BY <2>1
    <2> QED BY <2>1, <2>2 DEF CPUTypeOK
  <1>3. EndOfFileIsReal' /\ InitSoFar' /\ SizeTaken' /\ RunSoFar'
    BY DEF EndOfFileIsReal, InitSoFar, SizeTaken, RunSoFar, Idle
  <1> QED BY <1>1, <1>2, <1>3

LEMMA AllocHostStep == ASSUME CPUAssumption, CPUInv, AllocHost PROVE CPUInv'
  <1> USE DEF CPUInv, AllocHost, loop
  <1>1. fd = TRUE /\ host_buffer = FALSE /\ device_buffer = FALSE /\ ~initialized
    BY CPUNumbers DEF InitSoFar
  <1>2. system = [files |-> 1, host |-> 0, device |-> 0]
    BY <1>1 DEF HoldsWhatItKnows
  <1>3. system' = [files |-> 1, host |-> 1, device |-> 0]
    BY <1>2
  <1>4. HoldsWhatItKnows'
    BY <1>1, <1>3 DEF HoldsWhatItKnows, Idle
  <1>5. CPUTypeOK'
    BY <1>3 DEF CPUTypeOK, NoSystem
  <1>6. EndOfFileIsReal' /\ InitSoFar' /\ SizeTaken' /\ RunSoFar'
    BY <1>1 DEF EndOfFileIsReal, InitSoFar, SizeTaken, RunSoFar, Idle
  <1> QED BY <1>4, <1>5, <1>6

LEMMA AllocDeviceStep == ASSUME CPUAssumption, CPUInv, AllocDevice PROVE CPUInv'
  <1> USE DEF CPUInv, AllocDevice
  <1>1. fd = TRUE /\ host_buffer = TRUE /\ device_buffer = FALSE /\ ~initialized /\ io_size # 0
    BY CPUNumbers DEF InitSoFar
  <1>2. system = [files |-> 1, host |-> 1, device |-> 0]
    BY <1>1 DEF HoldsWhatItKnows
  <1>3. system' = [files |-> 1, host |-> 1, device |-> 1]
    BY <1>2
  <1>4. HoldsWhatItKnows'
    BY <1>1, <1>3 DEF HoldsWhatItKnows, Idle
  <1>5. CPUTypeOK'
    BY <1>3 DEF CPUTypeOK, NoSystem
  <1>6. EndOfFileIsReal' /\ InitSoFar' /\ SizeTaken' /\ RunSoFar'
    BY <1>1 DEF EndOfFileIsReal, InitSoFar, SizeTaken, RunSoFar, Idle
  <1> QED BY <1>4, <1>5, <1>6
-----------------------------------------------------------------------------
LEMMA RunRefusedStep == ASSUME CPUAssumption, CPUInv, NEW n \in RunLengths, RunRefused(n) PROVE CPUInv'
  BY EndStep DEF RunRefused, Fails, Idle, loop

LEMMA RunCallStep == ASSUME CPUAssumption, CPUInv, NEW n \in RunLengths, RunCall(n) PROVE CPUInv'
  <1> USE DEF CPUInv, RunCall, resources
  <1>1. n \in Nat /\ n > 0 /\ io_size \in Nat /\ io_size # 0 /\ initialized /\ Idle
    BY CPUNumbers DEF InitSoFar
  <1>2. HoldsWhatItKnows'
    BY DEF HoldsWhatItKnows, Idle
  <1>3. CPUTypeOK'
    <2>1. (i \in 0 .. iterations /\ total_read \in 0 .. io_size /\ copied \in Nat)'
      BY <1>1
    <2> QED BY <2>1 DEF CPUTypeOK
  <1>4. RunSoFar'
    <2>1. (copied = i * io_size /\ i < iterations /\ total_read < io_size /\ cpu_pc = "read")'
      BY <1>1
    <2> QED BY <2>1 DEF RunSoFar, Idle
  <1>5. EndOfFileIsReal' /\ InitSoFar' /\ SizeTaken'
    BY <1>1 DEF EndOfFileIsReal, InitSoFar, SizeTaken
  <1> QED BY <1>2, <1>3, <1>4, <1>5

LEMMA ReadSomeStep == ASSUME CPUAssumption, CPUInv, NEW n \in 1 .. io_size, ReadSome(n) PROVE CPUInv'
  <1> USE DEF CPUInv
  <1>1. /\ cpu_pc = "read" /\ n \in 1 .. (io_size - total_read)
        /\ total_read' = total_read + n
        /\ cpu_pc' = IF total_read' < io_size THEN "read" ELSE "memcpy"
        /\ asked' = asked /\ result' = result /\ initialized' = initialized
        /\ fd' = fd /\ host_buffer' = host_buffer /\ device_buffer' = device_buffer
        /\ io_size' = io_size /\ file_size' = file_size /\ system' = system
        /\ i' = i /\ iterations' = iterations /\ copied' = copied /\ metrics' = metrics
        /\ file' = file /\ resizes' = resizes
    BY DEF ReadSome, resources
  <1>2. io_size \in Nat /\ total_read \in Nat
    BY CPUNumbers
  <1>3. total_read' \in 0 .. io_size /\ (cpu_pc' = "memcpy" => total_read' = io_size)
    BY <1>1, <1>2
  <1>4. HoldsWhatItKnows'
    BY <1>1 DEF HoldsWhatItKnows, Idle
  <1>5. CPUTypeOK'
    BY <1>1, <1>3 DEF CPUTypeOK
  <1>6. RunSoFar'
    BY <1>1, <1>3 DEF RunSoFar, Idle
  <1>7. EndOfFileIsReal' /\ InitSoFar' /\ SizeTaken'
    BY <1>1 DEF EndOfFileIsReal, InitSoFar, SizeTaken
  <1> QED BY <1>4, <1>5, <1>6, <1>7

\* There is nothing more to read only in a file that is smaller than one I/O or
\* not as long as it was.
LEMMA EndIsReal ==
    ASSUME CPUAssumption, CPUInv, cpu_pc = "read", Available = 0
    PROVE  file_size < io_size \/ resizes > 0
  <1> SUFFICES ASSUME file_size >= io_size, resizes = 0
               PROVE  FALSE
    BY CPUNumbers DEF CPUInv, SizeTaken
  <1> DEFINE start == ReadOffset(i, io_size, file_size)
  <1>1. /\ io_size \in Nat \ {0} /\ i \in Nat /\ file_size \in Nat /\ total_read \in Nat
        /\ total_read < io_size /\ file = file_size
    BY CPUNumbers DEF CPUInv, InitSoFar, SizeTaken, RunSoFar
  <1>2. start \in Nat /\ start + io_size <= file_size
    <2>1. start = ReadOffset(i, io_size, file_size)
      BY DEF ReadOffset, MaxOffset, ReadOffset, MaxOffset
    <2> HIDE DEF start
    <2> QED BY <1>1, <2>1, ReadStaysInFile
  <1>3. Available = IF file > start + total_read THEN file - (start + total_read) ELSE 0
    BY DEF Available, ReadAt
  <1> HIDE DEF start
  <1> QED BY <1>1, <1>2, <1>3

LEMMA ReadEndsStep == ASSUME CPUAssumption, CPUInv, ReadEnds PROVE CPUInv'
  <1>1. result' = "eof" => file_size < io_size \/ resizes > 0
    BY EndIsReal DEF ReadEnds, Fails
  <1> QED BY <1>1, EndStep DEF ReadEnds, Fails, loop

LEMMA MemcpyStep == ASSUME CPUAssumption, CPUInv, Memcpy PROVE CPUInv'
  <1> USE DEF CPUInv
  <1>1. CASE /\ copied' = copied + io_size
             /\ i' = i + 1 /\ total_read' = 0
             /\ cpu_pc' = IF i' < iterations THEN "read" ELSE "finish"
             /\ UNCHANGED result
    <2>1. /\ cpu_pc = "memcpy" /\ asked' = asked /\ initialized' = initialized
          /\ fd' = fd /\ host_buffer' = host_buffer /\ device_buffer' = device_buffer
          /\ io_size' = io_size /\ file_size' = file_size /\ system' = system
          /\ iterations' = iterations /\ metrics' = metrics
          /\ file' = file /\ resizes' = resizes
      BY DEF Memcpy, resources
    <2>2. /\ io_size \in Nat /\ io_size # 0 /\ i \in Nat /\ iterations \in Nat
          /\ copied \in Nat /\ i < iterations /\ copied = i * io_size
      BY <2>1, CPUNumbers DEF InitSoFar, RunSoFar
    <2>3. copied' = i' * io_size'
      <3>1. (i + 1) * io_size = i * io_size + io_size
        BY <2>2
      <3> QED BY <1>1, <2>1, <2>2, <3>1
    <2>4. HoldsWhatItKnows'
      BY <1>1, <2>1 DEF HoldsWhatItKnows, Idle
    <2>5. CPUTypeOK'
      <3>1. i' \in 0 .. iterations' /\ total_read' \in 0 .. io_size' /\ copied' \in Nat
        BY <1>1, <2>1, <2>2
      <3> QED BY <1>1, <2>1, <3>1 DEF CPUTypeOK
    <2>6. RunSoFar'
      <3>1. /\ cpu_pc' \in {"read", "finish"} /\ (cpu_pc' = "read" => i' < iterations')
            /\ (cpu_pc' = "finish" => i' = iterations') /\ total_read' < io_size'
        BY <1>1, <2>1, <2>2
      <3> QED BY <2>3, <3>1 DEF RunSoFar, Idle
    <2>7. EndOfFileIsReal' /\ InitSoFar' /\ SizeTaken'
      BY <1>1, <2>1 DEF EndOfFileIsReal, InitSoFar, SizeTaken
    <2> QED BY <2>4, <2>5, <2>6, <2>7
  <1>2. CASE Fails("failed") /\ UNCHANGED <<copied, i, total_read>>
    BY <1>2, EndStep DEF Memcpy, Fails
  <1> QED BY <1>1, <1>2 DEF Memcpy

LEMMA FinishRunStep == ASSUME CPUAssumption, CPUInv, FinishRun PROVE CPUInv'
  <1> USE DEF CPUInv, FinishRun, resources
  <1>1. fd = TRUE /\ host_buffer = TRUE /\ device_buffer = TRUE /\ initialized = TRUE
    BY CPUNumbers DEF InitSoFar
  <1>2. HoldsWhatItKnows'
    BY <1>1 DEF HoldsWhatItKnows
  <1>3. CPUTypeOK'
    BY DEF CPUTypeOK
  <1>4. copied' = metrics' * io_size'
    BY DEF RunSoFar
  <1>5. EndOfFileIsReal' /\ InitSoFar' /\ SizeTaken' /\ RunSoFar'
    BY <1>4 DEF EndOfFileIsReal, InitSoFar, SizeTaken, RunSoFar
  <1> QED BY <1>2, <1>3, <1>5

LEMMA ResizeStep == ASSUME CPUAssumption, CPUInv, NEW size \in FileSizes, Resize(size) PROVE CPUInv'
  <1> USE DEF CPUInv, Resize, resources, loop
  <1>1. HoldsWhatItKnows'
    BY DEF HoldsWhatItKnows, Idle
  <1>2. CPUTypeOK'
    BY DEF CPUTypeOK
  <1>3. resizes \in Nat /\ resizes' \in Nat /\ resizes' > 0
    BY DEF SizeTaken
  <1>4. EndOfFileIsReal' /\ InitSoFar' /\ SizeTaken' /\ RunSoFar'
    BY <1>3 DEF EndOfFileIsReal, InitSoFar, SizeTaken, RunSoFar, Idle
  <1> QED BY <1>1, <1>2, <1>4

LEMMA NoStep == ASSUME CPUAssumption, CPUInv, UNCHANGED cpuVars PROVE CPUInv'
  BY DEF CPUInv, cpuVars, resources, loop, CPUTypeOK, HoldsWhatItKnows, EndOfFileIsReal, InitSoFar,
     SizeTaken, RunSoFar, Idle

LEMMA CPUInductive == ASSUME CPUAssumption, CPUInv, [CPUNext]_cpuVars PROVE CPUInv'
  <1>1. CASE InCall
    <2>1. ASSUME NEW n \in 1 .. io_size, ReadSome(n) PROVE CPUInv'
      BY <2>1, ReadSomeStep
    <2> QED
      BY <1>1, <2>1, OpenStep, StatStep, AllocHostStep, AllocDeviceStep, InitFailsStep,
         ReadEndsStep, MemcpyStep, FinishRunStep DEF InCall
  <1>2. CASE Call
    <2>1. ASSUME NEW size \in Sizes, NEW isRead \in BOOLEAN, InitCall(size, isRead)
          PROVE  CPUInv'
      BY <2>1, InitCallStep
    <2>2. ASSUME NEW n \in RunLengths, RunCall(n) \/ RunRefused(n) PROVE CPUInv'
      BY <2>2, RunCallStep, RunRefusedStep
    <2> QED BY <1>2, <2>1, <2>2, CleanupCallStep DEF Call
  <1>3. ASSUME NEW size \in FileSizes, Resize(size) PROVE CPUInv'
    BY <1>3, ResizeStep
  <1>4. CASE UNCHANGED cpuVars
    BY <1>4, NoStep
  <1> QED BY <1>1, <1>2, <1>3, <1>4 DEF CPUNext

LEMMA CPUInvHolds == CPUSpec => []CPUInv
  <1>1. CPUInit => CPUInv
    BY CPUInitHolds, CPUAssumption
  <1>2. CPUInv /\ [CPUNext]_cpuVars => CPUInv'
    BY CPUInductive, CPUAssumption
  <1> QED BY <1>1, <1>2, PTL DEF CPUSpec
-----------------------------------------------------------------------------
\* Whatever fails in init, and however often it and cleanup are called: the process
\* holds the file and the memory the members name, and nothing when the runner is
\* idle and not initialized.
THEOREM RunnerHoldsWhatItKnows == CPUSpec => []HoldsWhatItKnows
  <1>1. CPUInv => HoldsWhatItKnows
    BY DEF CPUInv
  <1> QED BY <1>1, CPUInvHolds, PTL

\* However short the reads: a buffer goes to the device only when it is full, and a
\* run that returns true has copied io_size bytes in each iteration.
THEOREM WholeReadsCopied == CPUSpec => []CopiesWholeReads
  <1>1. CPUInv => CopiesWholeReads
    BY DEF CPUInv, RunSoFar, CopiesWholeReads
  <1> QED BY <1>1, CPUInvHolds, PTL

\* No run reaches the end of a file that has one whole I/O and was left alone.
THEOREM EndOfFileAlwaysReal == CPUSpec => []EndOfFileIsReal
  <1>1. CPUInv => EndOfFileIsReal
    BY DEF CPUInv
  <1> QED BY <1>1, CPUInvHolds, PTL
=============================================================================
