-------------------------- MODULE MicrobenchProofs --------------------------
(***************************************************************************)
(* Proofs about the microbenchmark, for any number of workers and requests *)
(* and any depth of the queue: what the workers share is closed after the  *)
(* last of them, no failure is lost, an error stops every worker after one *)
(* more batch at most, although rr.error is read without the lock, and a   *)
(* case that is reported ok has done every request once.                   *)
(***************************************************************************)
EXTENDS Microbench, Percentiles, FiniteSetTheorems, TLAPS

Labels == {"none", "alloc", "register", "fail", "write", "batch", "pread", "record",
           "check", "free", "done"}

\* The types the proofs rely on.
MicroShape ==
    /\ SystemTypeOK /\ DriverTypeOK
    /\ cfg \in Configs
    /\ pc \in {"begin", "open", "driver", "handle", "spawn", "join", "teardown", "report", "end"}
    /\ case \in 1 .. Len(cases)
    /\ rr \in [ok : BOOLEAN, error : BOOLEAN]
    /\ wpc \in [Workers -> Labels] /\ after \in [Workers -> {"batch", "check"}]
    /\ next \in [Workers -> Nat] /\ batchEnd \in [Workers -> Nat]
    /\ atError \in [Workers -> Nat]

\* What main has open at each of its steps, and where the workers may be.
MainInv ==
    /\ files = IF pc \in {"driver", "handle", "spawn", "join", "teardown"} THEN 1 ELSE 0
    /\ sessions = IF path = "gds" /\ pc \in {"handle", "spawn", "join", "teardown"} THEN 1 ELSE 0
    /\ handles = IF path = "gds" /\ pc \in {"spawn", "join", "teardown"} THEN 1 ELSE 0
    /\ pc \in {"driver", "handle"} => path = "gds"
    /\ pc \in {"begin", "open", "driver", "handle"} => \A t \in Workers : wpc[t] = "none"
    /\ pc \in {"teardown", "report", "end"} => \A t \in Workers : ~Running(t)
    /\ DriverHolds # {} => path = "gds" /\ pc \in {"spawn", "join", "teardown"}

\* A worker has its buffers until it frees them.
BuffersInv ==
    \A t \in allocated \cup host_buf :
        t \in Workers /\ wpc[t] \notin {"none", "alloc", "done"}

\* A worker that has not begun has done nothing; a batch is at most as long as
\* the queue is deep.
NotBegun(t) == wpc[t] = "none" => next[t] = 0 /\ batchEnd[t] = 0 /\ atError[t] = 0

InBatch(t) ==
    wpc[t] \in {"pread", "record"} => next[t] < batchEnd[t] /\ batchEnd[t] <= next[t] + cfg.qd

\* The failures of a worker, before and after it has come to its end.
Kept(t) ==
    /\ wpc[t] \in {"alloc", "register", "batch", "check", "free", "done"} /\ next[t] < batchEnd[t]
       => rr.error
    /\ wpc[t] \in {"free", "done"} /\ next[t] < End(t) => rr.error \/ lat_mu # NoOne
    /\ /\ path = "gds" /\ wpc[t] \in {"batch", "pread", "record", "check"}
       /\ t \notin DriverHolds
       => rr.error
    /\ wpc[t] = "register" => path = "gds"

\* How far a worker may go from where it was when the error became visible.
Prompt(t) ==
    rr.error =>
        /\ next[t] <= atError[t] + cfg.qd
        /\ \/ wpc[t] \in {"none", "alloc", "register", "batch"}
           \/ wpc[t] \in {"fail", "write"} /\ after[t] = "batch"
           => next[t] = atError[t]
        /\ wpc[t] \in {"pread", "record"} => batchEnd[t] <= atError[t] + cfg.qd

WorkerInv(t) == NotBegun(t) /\ InBatch(t) /\ Kept(t) /\ Prompt(t)

MicroInv == MicroShape /\ MainInv /\ BuffersInv /\ \A t \in Workers : WorkerInv(t)
-----------------------------------------------------------------------------
\* What the assumptions on the constants say of the cases, and of the current one.
LEMMA CasesTyped ==
    \A k \in 1 .. Len(cases) :
        cases[k] \in [path : {"buffered", "direct", "gds"}, io_size : Nat \ {0}]
  <1> DEFINE S == [path : {"buffered", "direct", "gds"}, io_size : Nat \ {0}]
  <1>1. cases \in Seq(S)
    BY MicrobenchAssumption
  <1> HIDE DEF S
  <1>2. \A k \in 1 .. Len(cases) : cases[k] \in S
    BY ONLY <1>1
  <1> QED BY <1>2 DEF S

LEMMA ConfigFacts ==
    ASSUME MicroShape
    PROVE  /\ cfg.threads \in Nat \ {0} /\ cfg.requests \in Nat \ {0} /\ cfg.qd \in Nat \ {0}
           /\ Workers \subseteq Ptrs /\ Workers \subseteq Nat /\ NoOne \notin Workers
           /\ io_size \in Nat \ {0} /\ path \in {"buffered", "direct", "gds"}
  <1> USE MicrobenchAssumption DEF MicroShape
  <1>1. cfg \in [threads : Nat \ {0}, requests : Nat \ {0}, qd : Nat \ {0},
                 aligned : BOOLEAN, pattern : {"seq", "rand"}]
    OBVIOUS
  <1>2. Workers \subseteq Ptrs
    BY DEF Workers
  <1>3. cases[case] \in [path : {"buffered", "direct", "gds"}, io_size : Nat \ {0}]
    BY CasesTyped
  <1>4. Workers \subseteq Nat
    <2>1. cfg.threads \in Nat
      BY <1>1
    <2> QED BY <2>1 DEF Workers
  <1>5. io_size \in Nat \ {0} /\ path \in {"buffered", "direct", "gds"}
    BY <1>3 DEF io_size, path
  <1>6. /\ cfg.threads \in Nat \ {0} /\ cfg.requests \in Nat \ {0} /\ cfg.qd \in Nat \ {0}
        /\ NoOne \notin Workers
    BY <1>1, <1>2
  <1> QED BY <1>2, <1>4, <1>5, <1>6

\* The first request of a worker has a number.
LEMMA FirstOfNat ==
    ASSUME MicroShape, NEW t \in Nat
    PROVE  FirstOf(t) \in Nat
  <1> DEFINE per == cfg.requests \div cfg.threads
             rem == cfg.requests % cfg.threads
  <1>1. per \in Nat /\ rem \in Nat
    BY ConfigFacts
  <1>2. FirstOf(t) = t * per + (IF t < rem THEN t ELSE rem)
    BY DEF FirstOf
  <1> HIDE DEF per, rem
  <1>3. t * per \in Nat
    BY <1>1
  <1> QED BY <1>1, <1>2, <1>3

LEMMA MicroInitHolds == Init => MicroInv
  <1> SUFFICES ASSUME Init PROVE MicroInv
    OBVIOUS
  <1> USE MicrobenchAssumption DEF Init, SystemInit, DriverInit
  <1>1. DriverHolds = {} /\ DriverTypeOK
    BY DEF DriverHolds, DriverTypeOK, Unregistered
  <1>2. Zero \in [Workers -> Nat] /\ \A t \in Workers : Zero[t] = 0
    BY DEF Zero
  <1>3. MicroShape
    <2>1. wpc \in [Workers -> Labels] /\ after \in [Workers -> {"batch", "check"}]
      BY DEF Labels
    <2> QED BY <1>1, <1>2, <2>1 DEF MicroShape, SystemTypeOK
  <1>4. MainInv /\ BuffersInv
    BY <1>1 DEF MainInv, BuffersInv
  <1>5. ASSUME NEW t \in Workers PROVE WorkerInv(t)
    BY <1>2 DEF WorkerInv, NotBegun, InBatch, Kept, Prompt
  <1> QED BY <1>3, <1>4, <1>5 DEF MicroInv
-----------------------------------------------------------------------------
\* A worker that has not begun, whatever main does.
LEMMA IdleWorker ==
    ASSUME MicroShape, cfg' = cfg, NEW t \in Workers, wpc'[t] = "none",
           next'[t] = 0, batchEnd'[t] = 0, atError'[t] = 0
    PROVE  WorkerInv(t)'
  <1>1. cfg'.qd \in Nat
    BY ConfigFacts
  <1> QED BY <1>1 DEF WorkerInv, NotBegun, InBatch, Kept, Prompt

\* The steps of main before it starts a worker.
LEMMA BeforeWorkers ==
    ASSUME MicroInv, pc \in {"begin", "open", "driver", "handle"},
           UNCHANGED <<cfg, case, sharedVars, workerVars, driver>>,
           rr' \in {rr, [ok |-> FALSE, error |-> TRUE]},
           pc' \in {"open", "driver", "handle", "spawn", "report"},
           files' = IF pc' \in {"driver", "handle", "spawn"} THEN 1 ELSE 0,
           sessions' = IF path = "gds" /\ pc' \in {"handle", "spawn"} THEN 1 ELSE 0,
           handles' = IF path = "gds" /\ pc' = "spawn" THEN 1 ELSE 0,
           pc' \in {"driver", "handle"} => path = "gds",
           allocated' \subseteq allocated
    PROVE  MicroInv'
  <1> USE DEF MicroInv, sharedVars, workerVars
  <1>1. Workers' = Workers /\ path' = path
    BY DEF Workers, path
  <1>2. \A t \in Workers : wpc[t] = "none"
    BY DEF MainInv
  <1>3. MicroShape'
    <2>1. SystemTypeOK'
      BY DEF MicroShape, SystemTypeOK
    <2>2. rr' \in [ok : BOOLEAN, error : BOOLEAN]
      <3>1. rr \in [ok : BOOLEAN, error : BOOLEAN]
        BY DEF MicroShape
      <3>2. [ok |-> FALSE, error |-> TRUE] \in [ok : BOOLEAN, error : BOOLEAN]
        BY ONLY Zenon
      <3>3. rr' = rr \/ rr' = [ok |-> FALSE, error |-> TRUE]
        BY Zenon
      <3> QED BY ONLY <3>1, <3>2, <3>3, Zenon
    <2>3. pc' \in {"open", "driver", "handle", "spawn", "report"}
      OBVIOUS
    <2> QED BY <1>1, <2>1, <2>2, <2>3, Zenon DEF MicroShape, DriverTypeOK
  <1>4. DriverHolds = {} /\ DriverHolds' = DriverHolds
    BY DEF MainInv, DriverHolds
  <1>5. MainInv'
    BY <1>1, <1>2, <1>4 DEF MainInv, Running
  <1>6. BuffersInv'
    BY <1>1, <1>2 DEF BuffersInv
  <1>7. ASSUME NEW t \in Workers PROVE WorkerInv(t)'
    <2>1. next'[t] = 0 /\ batchEnd'[t] = 0 /\ atError'[t] = 0 /\ wpc'[t] = "none"
      BY <1>2 DEF WorkerInv, NotBegun
    <2> QED BY <2>1, IdleWorker
  <1> QED BY <1>1, <1>3, <1>5, <1>6, <1>7

LEMMA BeginCaseStep == MicroInv /\ BeginCase => MicroInv'
  <1> SUFFICES ASSUME MicroInv, BeginCase PROVE MicroInv'
    OBVIOUS
  <1> USE DEF BeginCase, platform, systemVars
  <1>1. /\ pc = "begin" /\ pc' \in {"open", "report"}
        /\ rr' \in {rr, [ok |-> FALSE, error |-> TRUE]}
    BY DEF GiveUp, Goes
  <1>2. files' = 0 /\ sessions' = 0 /\ handles' = 0
    BY <1>1 DEF MicroInv, MainInv
  <1> QED BY <1>1, <1>2, BeforeWorkers

LEMMA OpenStep == MicroInv /\ Open => MicroInv'
  <1> SUFFICES ASSUME MicroInv, Open PROVE MicroInv'
    OBVIOUS
  <1> USE DEF Open, OpenFd, systemVars
  <1>1. files = 0 /\ sessions = 0 /\ handles = 0 /\ pc = "open"
    BY DEF MicroInv, MainInv
  <1>2. rr' \in {rr, [ok |-> FALSE, error |-> TRUE]} /\ allocated' = allocated
    BY DEF GiveUp, Goes
  <1>3. CASE OpenFd /\ Goes(IF path = "gds" THEN "driver" ELSE "spawn")
    BY <1>1, <1>2, <1>3, BeforeWorkers DEF Goes
  <1>4. CASE GiveUp /\ UNCHANGED systemVars
    BY <1>1, <1>2, <1>4, BeforeWorkers DEF GiveUp
  <1> QED BY <1>3, <1>4

LEMMA OpenDriverStep == MicroInv /\ OpenDriver => MicroInv'
  <1> SUFFICES ASSUME MicroInv, OpenDriver PROVE MicroInv'
    OBVIOUS
  <1> USE DEF OpenDriver, DriverOpen, Free
  <1>1. files = 1 /\ sessions = 0 /\ handles = 0 /\ pc = "driver" /\ path = "gds"
    BY DEF MicroInv, MainInv
  <1>2. rr' \in {rr, [ok |-> FALSE, error |-> TRUE]} /\ allocated' = allocated
    BY DEF GiveUp, Goes
  <1>3. CASE DriverOpen /\ Goes("handle")
    BY <1>1, <1>2, <1>3, BeforeWorkers DEF Goes
  <1>4. CASE Free({}, TRUE) /\ GiveUp
    BY <1>1, <1>2, <1>4, BeforeWorkers DEF GiveUp
  <1> QED BY <1>3, <1>4

LEMMA RegisterHandleStep == MicroInv /\ RegisterHandle => MicroInv'
  <1> SUFFICES ASSUME MicroInv, RegisterHandle PROVE MicroInv'
    OBVIOUS
  <1> USE DEF RegisterHandle, HandleRegister
  <1>1. files = 1 /\ sessions = 1 /\ handles = 0 /\ pc = "handle" /\ path = "gds"
    BY DEF MicroInv, MainInv
  <1>2. rr' \in {rr, [ok |-> FALSE, error |-> TRUE]} /\ allocated' = allocated
    BY DEF GiveUp, Goes
  <1>3. CASE HandleRegister /\ Goes("spawn")
    BY <1>1, <1>2, <1>3, BeforeWorkers DEF Goes
  <1>4. CASE sessions' = sessions - 1 /\ files' = files - 1 /\ handles' = handles /\ GiveUp
    BY <1>1, <1>2, <1>4, BeforeWorkers DEF GiveUp
  <1> QED BY <1>3, <1>4

\* Main waits for the workers, and ends the case.
LEMMA JoinStep == MicroInv /\ Join => MicroInv'
  <1> SUFFICES ASSUME MicroInv, Join PROVE MicroInv'
    OBVIOUS
  <1> USE DEF MicroInv, Join, Goes, sharedVars, workerVars, platform, systemVars
  <1>1. Workers' = Workers /\ path' = path /\ DriverHolds' = DriverHolds
    BY DEF Workers, path, DriverHolds
  <1>2. MicroShape' /\ MainInv' /\ BuffersInv'
    BY <1>1 DEF MicroShape, SystemTypeOK, DriverTypeOK, MainInv, Running, BuffersInv
  <1>3. ASSUME NEW t \in Workers PROVE WorkerInv(t)'
    BY <1>1, <1>3 DEF WorkerInv, NotBegun, InBatch, Kept, Prompt, End, FirstOf
  <1> QED BY <1>1, <1>2, <1>3

LEMMA TeardownStep == MicroInv /\ Teardown => MicroInv'
  <1> SUFFICES ASSUME MicroInv, Teardown PROVE MicroInv'
    OBVIOUS
  <1> USE DEF MicroInv, Teardown, sharedVars, workerVars
  <1>1. Workers' = Workers /\ path' = path
    BY DEF Workers, path
  <1>2. /\ pc = "teardown" /\ pc' = "report" /\ files = 1
        /\ sessions = (IF path = "gds" THEN 1 ELSE 0)
        /\ handles = (IF path = "gds" THEN 1 ELSE 0)
        /\ \A t \in Workers : ~Running(t)
    BY DEF MainInv
  <1>3. files' = 0 /\ sessions' = 0 /\ handles' = 0
    BY <1>2
  <1>4. DriverTypeOK' /\ DriverHolds' = {}
    BY DEF DriverTypeOK, DriverHolds, Deregistering, Unregistered, MicroShape, MainInv
  <1>5. rr' \in [ok : BOOLEAN, error : BOOLEAN] /\ rr'.error = rr.error
    BY DEF MicroShape
  <1>6. MicroShape'
    BY <1>1, <1>2, <1>3, <1>4, <1>5 DEF MicroShape, SystemTypeOK
  <1>7. MainInv' /\ BuffersInv'
    BY <1>1, <1>2, <1>3, <1>4 DEF MainInv, BuffersInv, Running
  <1>8. ASSUME NEW t \in Workers PROVE WorkerInv(t)'
    <2>1. wpc[t] \in {"none", "done"}
      BY <1>2 DEF Running
    <2> QED BY <1>1, <1>5, <2>1 DEF WorkerInv, NotBegun, InBatch, Kept, Prompt, End, FirstOf
  <1> QED BY <1>1, <1>6, <1>7, <1>8

LEMMA NextCaseStep == MicroInv /\ NextCase => MicroInv'
  <1> SUFFICES ASSUME MicroInv, NextCase PROVE MicroInv'
    OBVIOUS
  <1> USE DEF MicroInv, NextCase, platform, systemVars
  <1>1. Workers' = Workers /\ DriverHolds' = DriverHolds /\ cfg' = cfg
    BY DEF Workers, DriverHolds
  <1>2. /\ pc = "report" /\ pc' \in {"begin", "end"}
        /\ files = 0 /\ sessions = 0 /\ handles = 0 /\ DriverHolds = {}
        /\ \A t \in Workers : ~Running(t)
    BY DEF MainInv
  <1>3. /\ wpc' = [t \in Workers |-> "none"] /\ after' = [t \in Workers |-> "batch"]
        /\ next' = Zero /\ batchEnd' = Zero /\ atError' = Zero
        /\ Zero \in [Workers -> Nat] /\ \A t \in Workers : Zero[t] = 0
    BY DEF Zero
  <1>4. rr' \in [ok : BOOLEAN, error : BOOLEAN] /\ case' \in 1 .. Len(cases)
    <2>1. Len(cases) \in Nat
      BY MicrobenchAssumption
    <2> QED BY <2>1 DEF MicroShape
  <1>5. MicroShape'
    <2>1. wpc' \in [Workers -> Labels] /\ after' \in [Workers -> {"batch", "check"}]
      BY <1>3 DEF Labels
    <2> QED BY <1>1, <1>2, <1>3, <1>4, <2>1 DEF MicroShape, SystemTypeOK, DriverTypeOK
  <1>6. allocated = {} /\ host_buf = {}
    BY <1>2 DEF BuffersInv, Running
  <1>7. MainInv' /\ BuffersInv'
    BY <1>1, <1>2, <1>3, <1>6 DEF MainInv, BuffersInv, Running
  <1>8. ASSUME NEW t \in Workers PROVE WorkerInv(t)'
    BY <1>1, <1>3, IdleWorker
  <1> QED BY <1>1, <1>5, <1>7, <1>8
-----------------------------------------------------------------------------
\* The step of a worker as the others see it: they stay where they are.
LEMMA OthersKept ==
    ASSUME NEW u \in Workers, WorkerInv(u),
           UNCHANGED <<cfg, case, rr>>, wpc'[u] = wpc[u], after'[u] = after[u],
           next'[u] = next[u], batchEnd'[u] = batchEnd[u], atError'[u] = atError[u],
           lat_mu # NoOne => lat_mu' # NoOne,
           u \in DriverHolds => u \in DriverHolds'
    PROVE  WorkerInv(u)'
  <1>1. path' = path /\ End(u)' = End(u)
    BY DEF path, End, FirstOf
  <1>2. NotBegun(u)' /\ InBatch(u)'
    BY DEF WorkerInv, NotBegun, InBatch
  <1>3. Kept(u)'
    BY <1>1 DEF WorkerInv, Kept
  <1>4. Prompt(u)'
    BY DEF WorkerInv, Prompt
  <1> QED BY <1>2, <1>3, <1>4 DEF WorkerInv

\* And as main sees it, which is at spawn or join.
LEMMA MainKept ==
    ASSUME MicroInv, NEW t \in Workers, Running(t),
           UNCHANGED <<cfg, case, pc, files, sessions, handles>>,
           DriverHolds' # {} => path = "gds"
    PROVE  MainInv'
  <1>1. Workers' = Workers /\ path' = path
    BY DEF Workers, path
  <1>2. pc \in {"spawn", "join"}
    BY DEF MicroInv, MicroShape, MainInv, Running
  <1> QED BY <1>1, <1>2 DEF MicroInv, MainInv

\* Main starts worker t.
LEMMA SpawnStep == \A t \in Workers : MicroInv /\ Spawn(t) => MicroInv'
  <1> SUFFICES ASSUME NEW t \in Workers, MicroInv, Spawn(t) PROVE MicroInv'
    OBVIOUS
  <1> USE DEF MicroInv, Spawn, Goes, platform, systemVars
  <1>1. Workers' = Workers /\ path' = path /\ DriverHolds' = DriverHolds
    BY DEF Workers, path, DriverHolds
  <1>2. t \in Nat /\ FirstOf(t) \in Nat /\ cfg.qd \in Nat
    <2>1. t \in Nat /\ cfg.qd \in Nat
      BY ConfigFacts
    <2> QED BY <2>1, FirstOfNat
  <1>3. MicroShape'
    <2>1. wpc' \in [Workers -> Labels]
      BY DEF MicroShape, Labels
    <2>2. next' \in [Workers -> Nat] /\ atError' \in [Workers -> Nat]
      BY <1>2 DEF MicroShape
    <2>3. pc' \in {"spawn", "join"}
      OBVIOUS
    <2> QED BY <1>1, <2>1, <2>2, <2>3 DEF MicroShape, SystemTypeOK, DriverTypeOK
  <1>4. MainInv'
    BY <1>1 DEF MainInv
  <1>5. BuffersInv'
    BY <1>1 DEF BuffersInv, MicroShape
  <1>6. WorkerInv(t)'
    <2>1. /\ wpc'[t] = "alloc" /\ next'[t] = FirstOf(t) /\ atError'[t] = FirstOf(t)
          /\ batchEnd'[t] = 0
      BY DEF MicroShape, WorkerInv, NotBegun
    <2> QED BY <1>2, <2>1 DEF WorkerInv, NotBegun, InBatch, Kept, Prompt
  <1>7. ASSUME NEW u \in Workers, u # t PROVE WorkerInv(u)'
    <2>1. wpc'[u] = wpc[u] /\ next'[u] = next[u] /\ atError'[u] = atError[u]
      BY <1>7 DEF MicroShape
    <2> QED BY <1>1, <2>1, OthersKept
  <1> QED BY <1>1, <1>3, <1>4, <1>5, <1>6, <1>7

\* The steps of a worker that leave the others, the error and its buffers alone.
LEMMA OwnStep ==
    ASSUME MicroInv, NEW t \in Workers, Running(t), WorkerInv(t)',
           UNCHANGED <<cfg, case, pc, rr, atError, host_buf, platform>>,
           NEW label \in Labels \ {"none", "alloc", "done"}, wpc' = [wpc EXCEPT ![t] = label],
           lat_mu # NoOne => lat_mu' # NoOne,
           next' \in [Workers -> Nat], batchEnd' \in [Workers -> Nat],
           after' \in [Workers -> {"batch", "check"}],
           \A u \in Workers \ {t} :
               next'[u] = next[u] /\ batchEnd'[u] = batchEnd[u] /\ after'[u] = after[u]
    PROVE  MicroInv'
  <1> USE DEF MicroInv, platform, systemVars
  <1>1. Workers' = Workers /\ path' = path /\ DriverHolds' = DriverHolds
    BY DEF Workers, path, DriverHolds
  <1>2. MicroShape'
    <2>1. wpc' \in [Workers -> Labels]
      BY DEF MicroShape
    <2> QED BY <1>1, <2>1 DEF MicroShape, SystemTypeOK, DriverTypeOK
  <1>3. MainInv'
    BY <1>1, MainKept DEF MainInv
  <1>4. BuffersInv'
    BY <1>1 DEF BuffersInv, MicroShape
  <1>5. ASSUME NEW u \in Workers PROVE WorkerInv(u)'
    <2>1. CASE u # t
      <3>1. wpc'[u] = wpc[u]
        BY <2>1 DEF MicroShape
      <3> QED BY <1>1, <2>1, <3>1, OthersKept
    <2> QED BY <2>1
  <1> QED BY <1>1, <1>2, <1>3, <1>4, <1>5

LEMMA BatchStep == \A t \in Workers : MicroInv /\ Batch(t) => MicroInv'
  <1> SUFFICES ASSUME NEW t \in Workers, MicroInv, Batch(t) PROVE MicroInv'
    OBVIOUS
  <1> USE DEF Batch, At, Step, sharedVars
  <1>1. wpc[t] = "batch" /\ Running(t) /\ WorkerInv(t) /\ cfg.qd \in Nat \ {0}
    BY ConfigFacts DEF MicroInv, Running
  <1>2. next[t] \in Nat /\ atError[t] \in Nat /\ wpc \in [Workers -> Labels]
        /\ batchEnd \in [Workers -> Nat] /\ t \in Nat
    BY ConfigFacts DEF MicroInv, MicroShape
  <1>3. UNCHANGED <<cfg, case, pc, rr, atError, host_buf, platform, lat_mu, next, after>>
    BY DEF mainVars
  <1>4. path' = path /\ DriverHolds' = DriverHolds /\ End(t)' = End(t)
    BY <1>3 DEF path, DriverHolds, platform, End, FirstOf
  <1>5. CASE next[t] < End(t) /\ Step(t, "pread")
             /\ batchEnd' = [batchEnd EXCEPT ![t] =
                                IF next[t] + cfg.qd < End(t) THEN next[t] + cfg.qd ELSE End(t)]
    <2>1. End(t) \in Nat
      BY <1>2, FirstOfNat DEF End, MicroInv
    <2>2. batchEnd' \in [Workers -> Nat] /\ \A u \in Workers \ {t} : batchEnd'[u] = batchEnd[u]
      BY <1>1, <1>2, <1>5, <2>1
    <2>3. next[t] < batchEnd'[t] /\ batchEnd'[t] <= next[t] + cfg.qd
      BY <1>1, <1>2, <1>5, <2>1
    <2>4. wpc' = [wpc EXCEPT ![t] = "pread"] /\ wpc'[t] = "pread"
      BY <1>2, <1>5
    <2>5. WorkerInv(t)'
      BY <1>1, <1>2, <1>3, <1>4, <2>3, <2>4 DEF WorkerInv, NotBegun, InBatch, Kept, Prompt
    <2>6. "pread" \in Labels \ {"none", "alloc", "done"} /\ next \in [Workers -> Nat]
          /\ after \in [Workers -> {"batch", "check"}]
      BY DEF Labels, MicroInv, MicroShape
    <2> QED BY <1>1, <1>3, <2>2, <2>4, <2>5, <2>6, OwnStep
  <1>6. CASE ~(next[t] < End(t)) /\ Step(t, "free") /\ UNCHANGED batchEnd
    <2>1. wpc' = [wpc EXCEPT ![t] = "free"] /\ wpc'[t] = "free"
      BY <1>2, <1>6
    <2>2. WorkerInv(t)'
      BY <1>1, <1>2, <1>3, <1>4, <1>6, <2>1 DEF WorkerInv, NotBegun, InBatch, Kept, Prompt
    <2>3. "free" \in Labels \ {"none", "alloc", "done"} /\ next \in [Workers -> Nat]
          /\ after \in [Workers -> {"batch", "check"}]
      BY DEF Labels, MicroInv, MicroShape
    <2> QED BY <1>1, <1>2, <1>3, <1>6, <2>1, <2>2, <2>3, OwnStep
  <1> QED BY <1>5, <1>6

LEMMA ReadStep == \A t \in Workers : MicroInv /\ Read(t) => MicroInv'
  <1> SUFFICES ASSUME NEW t \in Workers, MicroInv, Read(t) PROVE MicroInv'
    OBVIOUS
  <1> USE DEF Read, At, Step
  <1>1. wpc[t] = "pread" /\ Running(t) /\ WorkerInv(t) /\ cfg.qd \in Nat \ {0}
    BY ConfigFacts DEF MicroInv, Running
  <1>2. /\ next \in [Workers -> Nat] /\ wpc \in [Workers -> Labels]
        /\ batchEnd \in [Workers -> Nat] /\ after \in [Workers -> {"batch", "check"}]
        /\ next[t] \in Nat /\ atError[t] \in Nat /\ batchEnd[t] \in Nat
    BY DEF MicroInv, MicroShape
  <1>3. UNCHANGED <<cfg, case, pc, rr, atError, host_buf, platform, lat_mu, next, batchEnd>>
    BY DEF mainVars
  <1>4. path' = path /\ DriverHolds' = DriverHolds /\ End(t)' = End(t)
    BY <1>3 DEF path, DriverHolds, platform, End, FirstOf
  <1>5. CASE Step(t, "record") /\ UNCHANGED after
    <2>1. wpc' = [wpc EXCEPT ![t] = "record"] /\ wpc'[t] = "record"
      BY <1>2, <1>5
    <2>2. WorkerInv(t)'
      BY <1>1, <1>2, <1>3, <1>4, <2>1 DEF WorkerInv, NotBegun, InBatch, Kept, Prompt
    <2>3. "record" \in Labels \ {"none", "alloc", "done"}
      BY DEF Labels
    <2> QED BY <1>1, <1>2, <1>3, <1>5, <2>1, <2>2, <2>3, OwnStep
  <1>6. CASE Step(t, "fail") /\ after' = [after EXCEPT ![t] = "check"]
    <2>1. wpc' = [wpc EXCEPT ![t] = "fail"] /\ wpc'[t] = "fail" /\ after'[t] = "check"
      BY <1>2, <1>6
    <2>2. /\ after' \in [Workers -> {"batch", "check"}]
          /\ \A u \in Workers \ {t} : after'[u] = after[u]
      BY <1>2, <1>6
    <2>3. WorkerInv(t)'
      BY <1>1, <1>2, <1>3, <1>4, <2>1 DEF WorkerInv, NotBegun, InBatch, Kept, Prompt
    <2>4. "fail" \in Labels \ {"none", "alloc", "done"}
      BY DEF Labels
    <2> QED BY <1>1, <1>2, <1>3, <2>1, <2>2, <2>3, <2>4, OwnStep
  <1> QED BY <1>5, <1>6

LEMMA RecordStep == \A t \in Workers : MicroInv /\ Record(t) => MicroInv'
  <1> SUFFICES ASSUME NEW t \in Workers, MicroInv, Record(t) PROVE MicroInv'
    OBVIOUS
  <1> USE DEF Record, At, Step
  <1>1. wpc[t] = "record" /\ Running(t) /\ WorkerInv(t) /\ cfg.qd \in Nat \ {0}
    BY ConfigFacts DEF MicroInv, Running
  <1>2. /\ next \in [Workers -> Nat] /\ wpc \in [Workers -> Labels]
        /\ batchEnd \in [Workers -> Nat] /\ after \in [Workers -> {"batch", "check"}]
        /\ next[t] \in Nat /\ atError[t] \in Nat /\ batchEnd[t] \in Nat
    BY DEF MicroInv, MicroShape
  <1>3. UNCHANGED <<cfg, case, pc, rr, atError, host_buf, platform, lat_mu, batchEnd, after>>
    BY DEF mainVars
  <1>4. path' = path /\ DriverHolds' = DriverHolds /\ End(t)' = End(t)
    BY <1>3 DEF path, DriverHolds, platform, End, FirstOf
  <1>5. /\ next' \in [Workers -> Nat] /\ next'[t] = next[t] + 1
        /\ \A u \in Workers \ {t} : next'[u] = next[u]
    BY <1>2
  <1>6. /\ next[t] < batchEnd[t] /\ batchEnd[t] <= next[t] + cfg.qd
        /\ rr.error => next[t] <= atError[t] + cfg.qd /\ batchEnd[t] <= atError[t] + cfg.qd
    BY <1>1 DEF WorkerInv, InBatch, Prompt
  <1>7. PICK label \in {"pread", "check"} :
            /\ Step(t, label)
            /\ label = "pread" <=> next'[t] < batchEnd[t]
    OBVIOUS
  <1>8. wpc' = [wpc EXCEPT ![t] = label] /\ wpc'[t] = label
    BY <1>2, <1>7
  <1>9. WorkerInv(t)'
    <2>1. NotBegun(t)' /\ InBatch(t)'
      BY <1>1, <1>2, <1>3, <1>5, <1>6, <1>7, <1>8 DEF NotBegun, InBatch
    <2>2. Kept(t)'
      BY <1>1, <1>2, <1>3, <1>4, <1>5, <1>7, <1>8 DEF WorkerInv, Kept
    <2>3. Prompt(t)'
      BY <1>1, <1>2, <1>3, <1>5, <1>6, <1>7, <1>8 DEF Prompt
    <2> QED BY <2>1, <2>2, <2>3 DEF WorkerInv
  <1>10. label \in Labels \ {"none", "alloc", "done"}
    BY <1>7 DEF Labels
  <1> QED BY <1>1, <1>2, <1>3, <1>5, <1>8, <1>9, <1>10, OwnStep

LEMMA BeginErrorStep == \A t \in Workers : MicroInv /\ BeginError(t) => MicroInv'
  <1> SUFFICES ASSUME NEW t \in Workers, MicroInv, BeginError(t) PROVE MicroInv'
    OBVIOUS
  <1> USE DEF BeginError, At, Step
  <1>1. wpc[t] = "fail" /\ Running(t) /\ WorkerInv(t) /\ lat_mu = NoOne
    BY DEF MicroInv, Running
  <1>2. /\ next \in [Workers -> Nat] /\ wpc \in [Workers -> Labels]
        /\ batchEnd \in [Workers -> Nat] /\ after \in [Workers -> {"batch", "check"}]
    BY DEF MicroInv, MicroShape
  <1>3. UNCHANGED <<cfg, case, pc, rr, atError, host_buf, platform, next, batchEnd, after>>
    BY DEF mainVars
  <1>4. wpc' = [wpc EXCEPT ![t] = "write"] /\ wpc'[t] = "write"
    BY <1>2
  <1>5. WorkerInv(t)'
    BY <1>1, <1>2, <1>3, <1>4 DEF WorkerInv, NotBegun, InBatch, Kept, Prompt
  <1>6. "write" \in Labels \ {"none", "alloc", "done"}
    BY DEF Labels
  <1> QED BY <1>1, <1>2, <1>3, <1>4, <1>5, <1>6, OwnStep

LEMMA CheckStep == \A t \in Workers : MicroInv /\ Check(t) => MicroInv'
  <1> SUFFICES ASSUME NEW t \in Workers, MicroInv, Check(t) PROVE MicroInv'
    OBVIOUS
  <1> USE DEF Check, At, Step, sharedVars
  <1>1. wpc[t] = "check" /\ Running(t) /\ WorkerInv(t)
    BY DEF MicroInv, Running
  <1>2. /\ next \in [Workers -> Nat] /\ wpc \in [Workers -> Labels]
        /\ batchEnd \in [Workers -> Nat] /\ after \in [Workers -> {"batch", "check"}]
        /\ rr.error \in BOOLEAN
    BY DEF MicroInv, MicroShape
  <1>3. UNCHANGED <<cfg, case, pc, rr, atError, host_buf, platform, lat_mu, next, batchEnd, after>>
    BY DEF mainVars
  <1>4. path' = path /\ DriverHolds' = DriverHolds /\ End(t)' = End(t)
    BY <1>3 DEF path, DriverHolds, platform, End, FirstOf
  <1>5. PICK label \in {"free", "batch"} :
            /\ Step(t, label)
            /\ label = "free" => rr.error \/ lat_mu # NoOne
            /\ label = "batch" => ~rr.error
    BY <1>2 DEF MaySee
  <1>6. wpc' = [wpc EXCEPT ![t] = label] /\ wpc'[t] = label
    BY <1>2, <1>5
  <1>7. WorkerInv(t)'
    BY <1>1, <1>3, <1>4, <1>5, <1>6 DEF WorkerInv, NotBegun, InBatch, Kept, Prompt
  <1>8. label \in Labels \ {"none", "alloc", "done"}
    BY <1>5 DEF Labels
  <1> QED BY <1>1, <1>2, <1>3, <1>6, <1>7, <1>8, OwnStep

\* A worker that leaves an error: every worker is as far as it may be.
LEMMA EndErrorStep == \A t \in Workers : MicroInv /\ EndError(t) => MicroInv'
  <1> SUFFICES ASSUME NEW t \in Workers, MicroInv, EndError(t) PROVE MicroInv'
    OBVIOUS
  <1> USE DEF MicroInv, EndError, At, Step, platform, systemVars
  <1>1. Workers' = Workers /\ path' = path /\ DriverHolds' = DriverHolds /\ cfg' = cfg
    BY DEF Workers, path, DriverHolds
  <1>2. /\ next \in [Workers -> Nat] /\ wpc \in [Workers -> Labels]
        /\ batchEnd \in [Workers -> Nat] /\ after \in [Workers -> {"batch", "check"}]
        /\ atError \in [Workers -> Nat] /\ cfg.qd \in Nat \ {0}
        /\ rr \in [ok : BOOLEAN, error : BOOLEAN]
    BY ConfigFacts DEF MicroShape
  <1>3. wpc[t] = "write" /\ Running(t) /\ wpc' = [wpc EXCEPT ![t] = after[t]]
        /\ after[t] \in {"batch", "check"}
    BY <1>2 DEF Running
  <1>4. rr' \in [ok : BOOLEAN, error : BOOLEAN] /\ rr'.error = TRUE
    BY <1>2
  <1>5. atError' \in [Workers -> Nat] /\ atError' = IF rr.error THEN atError ELSE next
    BY <1>2
  <1>6. MicroShape'
    <2>1. wpc' \in [Workers -> Labels]
      BY <1>2, <1>3 DEF Labels
    <2> QED BY <1>1, <1>2, <1>4, <1>5, <2>1 DEF MicroShape, SystemTypeOK, DriverTypeOK
  <1>7. MainInv'
    BY <1>1, <1>3, MainKept DEF MainInv
  <1>8. BuffersInv'
    BY <1>1, <1>2, <1>3 DEF BuffersInv
  <1>9. ASSUME NEW u \in Workers PROVE WorkerInv(u)'
    <2>1. WorkerInv(u) /\ next'[u] = next[u] /\ batchEnd'[u] = batchEnd[u] /\ after'[u] = after[u]
          /\ next[u] \in Nat /\ batchEnd[u] \in Nat /\ atError[u] \in Nat
      BY <1>2
    <2>2. wpc'[u] = IF u = t THEN after[t] ELSE wpc[u]
      BY <1>2, <1>3
    <2>3. NotBegun(u)'
      BY <1>3, <1>5, <2>1, <2>2 DEF WorkerInv, NotBegun
    <2>4. InBatch(u)'
      BY <1>1, <1>3, <2>1, <2>2 DEF WorkerInv, InBatch
    <2>5. Kept(u)'
      BY <1>1, <1>3, <1>4, <2>1, <2>2 DEF WorkerInv, Kept
    <2>6. Prompt(u)'
      <3>1. CASE rr.error
        BY <1>1, <1>3, <1>5, <2>1, <2>2, <3>1 DEF WorkerInv, Prompt
      <3>2. CASE ~rr.error
        BY <1>1, <1>2, <1>3, <1>5, <2>1, <2>2, <3>2 DEF WorkerInv, InBatch, Prompt
      <3> QED BY <3>1, <3>2
    <2> QED BY <2>3, <2>4, <2>5, <2>6 DEF WorkerInv
  <1> QED BY <1>1, <1>6, <1>7, <1>8, <1>9

\* The steps of a worker that take its buffers or give them back, and that
\* register and deregister them.
LEMMA BuffersStep ==
    ASSUME MicroInv, NEW t \in Workers, Running(t), WorkerInv(t)',
           UNCHANGED <<mainVars, pc, sharedVars, next, batchEnd, files, sessions, handles>>,
           NEW label \in Labels \ {"none", "alloc"}, wpc' = [wpc EXCEPT ![t] = label],
           after' \in [Workers -> {"batch", "check"}],
           \A u \in Workers \ {t} : after'[u] = after[u],
           allocated' \cup host_buf' \subseteq
               (allocated \cup host_buf \cup {t}) \ (IF label = "done" THEN {t} ELSE {}),
           DriverTypeOK', \A u \in Workers \ {t} : u \in DriverHolds => u \in DriverHolds',
           DriverHolds' # {} => path = "gds"
    PROVE  MicroInv'
  <1> USE DEF MicroInv, mainVars, sharedVars
  <1>1. Workers' = Workers /\ path' = path
    BY DEF Workers, path
  <1>2. wpc \in [Workers -> Labels] /\ wpc' \in [Workers -> Labels] /\ wpc'[t] = label
    BY DEF MicroShape
  <1>3. \A u \in Workers \ {t} : wpc'[u] = wpc[u]
    BY DEF MicroShape
  <1>4. allocated' \subseteq Workers /\ Workers \subseteq Ptrs
    BY ConfigFacts DEF BuffersInv
  <1>5. MicroShape'
    BY <1>1, <1>2, <1>4 DEF MicroShape, SystemTypeOK
  <1>6. MainInv'
    BY MainKept
  <1>7. BuffersInv'
    <2> SUFFICES ASSUME NEW u \in allocated' \cup host_buf'
                 PROVE  u \in Workers /\ wpc'[u] \notin {"none", "alloc", "done"}
      BY <1>1 DEF BuffersInv
    <2>1. CASE u = t
      BY <1>2, <2>1
    <2>2. CASE u # t
      BY <1>3, <2>2 DEF BuffersInv
    <2> QED BY <2>1, <2>2
  <1>8. ASSUME NEW u \in Workers, u # t PROVE WorkerInv(u)'
    BY <1>3, <1>8, OthersKept
  <1> QED BY <1>1, <1>5, <1>6, <1>7, <1>8

LEMMA AllocStep == \A t \in Workers : MicroInv /\ Alloc(t) => MicroInv'
  <1> SUFFICES ASSUME NEW t \in Workers, MicroInv, Alloc(t) PROVE MicroInv'
    OBVIOUS
  <1> USE DEF Alloc, At, Step
  <1>1. wpc[t] = "alloc" /\ Running(t) /\ WorkerInv(t) /\ pc \in {"spawn", "join"}
    BY DEF MicroInv, Running, MainInv, MicroShape
  <1>2. wpc \in [Workers -> Labels] /\ after \in [Workers -> {"batch", "check"}]
    BY DEF MicroInv, MicroShape
  <1>3. UNCHANGED <<cfg, case, rr, lat_mu, next, batchEnd, atError, after, driver>>
    BY DEF mainVars, sharedVars
  <1>4. path' = path /\ DriverHolds' = DriverHolds /\ End(t)' = End(t)
    BY <1>3 DEF path, DriverHolds, End, FirstOf
  <1>5. PICK label \in {"register", "batch"} :
            Step(t, label) /\ (label = "batch" <=> path # "gds")
    OBVIOUS
  <1>6. wpc' = [wpc EXCEPT ![t] = label] /\ wpc'[t] = label /\ label \in Labels
    BY <1>2, <1>5 DEF Labels
  <1>7. WorkerInv(t)'
    BY <1>1, <1>3, <1>4, <1>5, <1>6 DEF WorkerInv, NotBegun, InBatch, Kept, Prompt
  <1>8. UNCHANGED <<files, sessions, handles>> /\ allocated' \subseteq allocated \cup {t}
    BY DEF Malloc, systemVars
  <1>9. host_buf' \subseteq host_buf \cup {t}
    OBVIOUS
  <1>10. DriverTypeOK' /\ (DriverHolds' # {} => path = "gds")
    BY <1>3, <1>4 DEF MicroInv, MicroShape, MainInv, DriverTypeOK
  <1>11. /\ label \in Labels \ {"none", "alloc"} /\ after' \in [Workers -> {"batch", "check"}]
         /\ \A u \in Workers \ {t} : after'[u] = after[u] /\ (u \in DriverHolds => u \in DriverHolds')
    BY <1>2, <1>3, <1>4, <1>5, <1>6
  <1>12. allocated' \cup host_buf' \subseteq
             (allocated \cup host_buf \cup {t}) \ (IF label = "done" THEN {t} ELSE {})
    BY <1>5, <1>8, <1>9
  <1>13. UNCHANGED <<mainVars, pc, sharedVars, next, batchEnd, files, sessions, handles>>
    BY <1>8
  <1> QED BY <1>1, <1>6, <1>7, <1>10, <1>11, <1>12, <1>13, BuffersStep

LEMMA RegisterStep == \A t \in Workers : MicroInv /\ Register(t) => MicroInv'
  <1> SUFFICES ASSUME NEW t \in Workers, MicroInv, Register(t) PROVE MicroInv'
    OBVIOUS
  <1> USE DEF Register, At, Step
  <1>1. wpc[t] = "register" /\ Running(t) /\ WorkerInv(t)
    BY DEF MicroInv, Running
  <1>2. /\ wpc \in [Workers -> Labels] /\ after' \in [Workers -> {"batch", "check"}]
        /\ after'[t] = "batch" /\ \A u \in Workers \ {t} : after'[u] = after[u]
    BY DEF MicroInv, MicroShape
  <1>3. UNCHANGED <<cfg, case, rr, lat_mu, next, batchEnd, atError, host_buf, systemVars>>
    BY DEF mainVars, sharedVars
  <1>4. path' = path /\ End(t)' = End(t)
    BY <1>3 DEF path, End, FirstOf
  <1>5. path = "gds" /\ t \in Ptrs /\ io_size \in Nat \ {0} /\ driver \in [Ptrs -> Nat]
    BY <1>1, ConfigFacts DEF MicroInv, WorkerInv, Kept, MicroShape, DriverTypeOK
  <1>6. CASE driver' = Registering(t, io_size) /\ Step(t, "batch")
    <2>1. driver' \in [Ptrs -> Nat] /\ DriverHolds' = DriverHolds \cup {t}
      BY <1>5, <1>6 DEF Registering, DriverHolds, Unregistered
    <2>2. wpc' = [wpc EXCEPT ![t] = "batch"] /\ wpc'[t] = "batch"
      BY <1>2, <1>6
    <2>3. WorkerInv(t)'
      BY <1>1, <1>2, <1>3, <1>4, <2>1, <2>2 DEF WorkerInv, NotBegun, InBatch, Kept, Prompt
    <2>4. "batch" \in Labels \ {"none", "alloc"}
      BY DEF Labels
    <2> QED BY <1>1, <1>2, <1>3, <1>5, <2>1, <2>2, <2>3, <2>4, BuffersStep
            DEF DriverTypeOK, systemVars
  <1>7. CASE Step(t, "fail") /\ UNCHANGED driver
    <2>1. DriverTypeOK' /\ DriverHolds' = DriverHolds
      BY <1>5, <1>7 DEF DriverTypeOK, DriverHolds
    <2>2. wpc' = [wpc EXCEPT ![t] = "fail"] /\ wpc'[t] = "fail"
      BY <1>2, <1>7
    <2>3. WorkerInv(t)'
      BY <1>1, <1>2, <1>3, <1>4, <2>1, <2>2 DEF WorkerInv, NotBegun, InBatch, Kept, Prompt
    <2>4. "fail" \in Labels \ {"none", "alloc"}
      BY DEF Labels
    <2> QED BY <1>1, <1>2, <1>3, <1>5, <2>1, <2>2, <2>3, <2>4, BuffersStep DEF systemVars
  <1> QED BY <1>6, <1>7

LEMMA FreeBuffersStep == \A t \in Workers : MicroInv /\ FreeBuffers(t) => MicroInv'
  <1> SUFFICES ASSUME NEW t \in Workers, MicroInv, FreeBuffers(t) PROVE MicroInv'
    OBVIOUS
  <1> USE DEF FreeBuffers, At, Step, Free
  <1>1. wpc[t] = "free" /\ Running(t) /\ WorkerInv(t)
    BY DEF MicroInv, Running
  <1>2. /\ wpc \in [Workers -> Labels] /\ after \in [Workers -> {"batch", "check"}]
        /\ driver \in [Ptrs -> Nat] /\ files \in Nat
    BY DEF MicroInv, MicroShape, DriverTypeOK, SystemTypeOK
  <1>3. UNCHANGED <<cfg, case, rr, lat_mu, next, batchEnd, atError, after, files>>
    BY <1>2 DEF mainVars, sharedVars
  <1>4. path' = path /\ End(t)' = End(t)
    BY <1>3 DEF path, End, FirstOf
  <1>5. wpc' = [wpc EXCEPT ![t] = "done"] /\ wpc'[t] = "done"
    BY <1>2
  <1>6. WorkerInv(t)'
    BY <1>1, <1>3, <1>4, <1>5 DEF WorkerInv, NotBegun, InBatch, Kept, Prompt
  <1>7. /\ driver' \in [Ptrs -> Nat] /\ DriverHolds' \subseteq DriverHolds
        /\ \A u \in Workers \ {t} : u \in DriverHolds => u \in DriverHolds'
    BY <1>2 DEF Deregistering, DriverHolds, Unregistered
  <1>8. DriverHolds' # {} => path = "gds"
    BY <1>7 DEF MicroInv, MainInv
  <1>9. "done" \in Labels \ {"none", "alloc"}
    BY DEF Labels
  <1> QED BY <1>1, <1>2, <1>3, <1>5, <1>6, <1>7, <1>8, <1>9, BuffersStep DEF DriverTypeOK
-----------------------------------------------------------------------------
LEMMA MicroInductive == MicroInv /\ [Next]_vars => MicroInv'
  <1> SUFFICES ASSUME MicroInv, [Next]_vars PROVE MicroInv'
    OBVIOUS
  <1>1. CASE Main
    BY <1>1, BeginCaseStep, OpenStep, OpenDriverStep, RegisterHandleStep, JoinStep,
       TeardownStep, NextCaseStep, SpawnStep DEF Main
  <1>2. ASSUME NEW t \in Workers, Worker(t) PROVE MicroInv'
    BY <1>2, AllocStep, RegisterStep, BatchStep, ReadStep, RecordStep, BeginErrorStep,
       EndErrorStep, CheckStep, FreeBuffersStep DEF Worker
  <1>3. CASE UNCHANGED vars
    <2> USE DEF vars, mainVars, sharedVars, workerVars, platform, systemVars
    <2>1. Workers' = Workers /\ path' = path /\ DriverHolds' = DriverHolds
      BY <1>3 DEF Workers, path, DriverHolds
    <2>2. MicroShape' /\ MainInv' /\ BuffersInv'
      BY <1>3, <2>1 DEF MicroInv, MicroShape, SystemTypeOK, DriverTypeOK, MainInv, BuffersInv, Running
    <2>3. ASSUME NEW t \in Workers PROVE WorkerInv(t)'
      BY <1>3, <2>1, OthersKept DEF MicroInv
    <2> QED BY <2>1, <2>2, <2>3 DEF MicroInv
  <1> QED BY <1>1, <1>2, <1>3 DEF Next

LEMMA MicroInvHolds == Spec => []MicroInv
  <1> QED BY MicroInitHolds, MicroInductive, PTL DEF Spec

\* However many workers there are, main closes what they share after the last of
\* them has ended, and a case leaves nothing to the next.
THEOREM TeardownAlwaysLast == Spec => []TeardownIsLast
  <1>1. MicroInv => TeardownIsLast
    <2> SUFFICES ASSUME MicroInv PROVE TeardownIsLast
      OBVIOUS
    <2>1. ASSUME NEW t \in Workers, Running(t)
          PROVE  files = 1 /\ (path = "gds" => sessions = 1 /\ handles = 1)
      BY <2>1 DEF MicroInv, MicroShape, MainInv, Running
    <2>2. ASSUME pc \in {"begin", "report", "end"}
          PROVE  NothingHeld /\ host_buf = {}
      <3>1. \A t \in Workers : wpc[t] \in {"none", "done"}
        BY <2>2 DEF MicroInv, MainInv, Running
      <3>2. allocated = {} /\ host_buf = {}
        BY <3>1 DEF MicroInv, BuffersInv
      <3> QED BY <2>2, <3>2 DEF MicroInv, MainInv, NothingHeld
    <2> QED BY <2>1, <2>2 DEF TeardownIsLast
  <1> QED BY <1>1, MicroInvHolds, PTL

\* No failure of any worker is lost, although the buffers are not checked, and
\* the workers look at the error without the lock.
THEOREM FailuresAlwaysKept == Spec => []FailuresAreKept
  <1>1. MicroInv => FailuresAreKept
    BY DEF MicroInv, WorkerInv, Kept, FailuresAreKept
  <1> QED BY <1>1, MicroInvHolds, PTL

\* After an error is visible no worker does more than one batch.
THEOREM AlwaysStopsPromptly == Spec => []StopsPromptly
  <1>1. MicroInv => StopsPromptly
    <2> SUFFICES ASSUME MicroInv, rr.error, NEW t \in Workers
                 PROVE  next[t] - atError[t] <= cfg.qd
      BY DEF StopsPromptly
    <2>1. next[t] \in Nat /\ atError[t] \in Nat /\ cfg.qd \in Nat
      BY ConfigFacts DEF MicroInv, MicroShape
    <2>2. next[t] <= atError[t] + cfg.qd
      BY DEF MicroInv, WorkerInv, Prompt
    <2> QED BY <2>1, <2>2
  <1> QED BY <1>1, MicroInvHolds, PTL
-----------------------------------------------------------------------------
\* The shares are cut by a quotient and its remainder.
LEMMA SharesCut ==
    ASSUME MicroShape
    PROVE  \E per, rem \in Nat :
               /\ rem < cfg.threads /\ cfg.requests = cfg.threads * per + rem
               /\ \A t \in Nat : FirstOf(t) = t * per + (IF t < rem THEN t ELSE rem)
  <1> DEFINE per == cfg.requests \div cfg.threads
             rem == cfg.requests % cfg.threads
  <1>1. cfg.threads \in Nat \ {0} /\ cfg.requests \in Nat
    BY ConfigFacts
  <1>2. per \in Nat /\ rem \in Nat /\ rem < cfg.threads
        /\ cfg.requests = cfg.threads * per + rem
    BY <1>1
  <1>3. \A t \in Nat : FirstOf(t) = t * per + (IF t < rem THEN t ELSE rem)
    BY DEF FirstOf
  <1> HIDE DEF per, rem
  <1> QED BY <1>2, <1>3

\* They follow each other, from the first request to the last.
LEMMA SharesInOrder ==
    ASSUME MicroShape
    PROVE  /\ FirstOf(0) = 0 /\ FirstOf(cfg.threads) = cfg.requests
           /\ \A t, u \in Nat : t <= u => FirstOf(t) <= FirstOf(u)
  <1>1. PICK per \in Nat, rem \in Nat :
            /\ rem < cfg.threads /\ cfg.requests = cfg.threads * per + rem
            /\ \A t \in Nat : FirstOf(t) = t * per + (IF t < rem THEN t ELSE rem)
    BY SharesCut
  <1>2. cfg.threads \in Nat /\ cfg.requests \in Nat
    BY ConfigFacts
  <1>3. FirstOf(0) = 0 /\ FirstOf(cfg.threads) = cfg.requests
    BY <1>1, <1>2
  <1>4. ASSUME NEW t \in Nat, NEW u \in Nat, t <= u PROVE FirstOf(t) <= FirstOf(u)
    <2>1. t * per \in Nat /\ u * per \in Nat /\ t * per <= u * per
      <3>1. PICK d \in Nat : u = t + d
        BY <1>4
      <3>2. (t + d) * per = t * per + d * per /\ t * per \in Nat /\ d * per \in Nat
        BY ONLY per \in Nat, t \in Nat, d \in Nat
      <3> QED BY <3>1, <3>2
    <2>2. /\ FirstOf(t) = t * per + (IF t < rem THEN t ELSE rem)
          /\ FirstOf(u) = u * per + (IF u < rem THEN u ELSE rem)
      BY <1>1, Zenon
    <2> DEFINE x == t * per
               y == u * per
    <2>3. x \in Nat /\ y \in Nat /\ x <= y
      BY <2>1
    <2>4. /\ FirstOf(t) = x + (IF t < rem THEN t ELSE rem)
          /\ FirstOf(u) = y + (IF u < rem THEN u ELSE rem)
      BY <2>2
    <2> HIDE DEF x, y
    <2> QED BY ONLY <1>4, <2>3, <2>4, t \in Nat, u \in Nat, rem \in Nat
  <1> QED BY <1>3, <1>4

\* Every request is in the share of a worker.
LEMMA SharesCover ==
    ASSUME MicroShape, NEW r \in Requests
    PROVE  \E t \in Workers : FirstOf(t) <= r /\ r < End(t)
  <1>1. PICK per \in Nat, rem \in Nat :
            /\ rem < cfg.threads /\ cfg.requests = cfg.threads * per + rem
            /\ \A t \in Nat : FirstOf(t) = t * per + (IF t < rem THEN t ELSE rem)
    BY SharesCut
  <1>2. cfg.threads \in Nat \ {0} /\ r \in Nat /\ r < cfg.threads * per + rem
    BY <1>1, ConfigFacts DEF Requests
  <1>3. CASE r < rem * (per + 1)
    <2> DEFINE t == r \div (per + 1)
    <2>1. t \in Nat /\ t * (per + 1) <= r /\ r < t * (per + 1) + (per + 1)
      BY <1>2
    <2> HIDE DEF t
    <2>2. t < rem
      <3> SUFFICES ASSUME rem <= t PROVE FALSE
        BY <2>1
      <3>1. rem * (per + 1) <= t * (per + 1)
        BY <2>1
      <3> QED BY <1>2, <1>3, <2>1, <3>1
    <2>3. t * (per + 1) = t * per + t /\ (t + 1) * per = t * per + per /\ t * per \in Nat
      <3>1. t \in Nat
        BY <2>1
      <3>2. t * (per + 1) = t * per + t
        BY ONLY <3>1, per \in Nat
      <3>3. (t + 1) * per = t * per + per
        BY ONLY <3>1, per \in Nat
      <3>4. t * per \in Nat
        BY ONLY <3>1, per \in Nat
      <3> QED BY <3>2, <3>3, <3>4
    <2>4. FirstOf(t) = t * per + t /\ FirstOf(t + 1) = t * per + per + (t + 1)
      <3>1. t \in Nat /\ t + 1 \in Nat /\ t < rem /\ (t + 1 < rem \/ t + 1 = rem)
        BY <1>1, <2>1, <2>2
      <3>2. /\ FirstOf(t) = t * per + (IF t < rem THEN t ELSE rem)
            /\ FirstOf(t + 1) = (t + 1) * per + (IF t + 1 < rem THEN t + 1 ELSE rem)
        BY <1>1, <3>1, Zenon
      <3>3. (IF t + 1 < rem THEN t + 1 ELSE rem) = t + 1
        BY <3>1
      <3> QED BY <2>3, <3>1, <3>2, <3>3, Zenon
    <2>5. t \in Workers
      BY <1>1, <1>2, <2>1, <2>2 DEF Workers
    <2> QED BY <1>2, <2>1, <2>3, <2>4, <2>5 DEF End
  <1>4. CASE rem * (per + 1) <= r
    <2>1. rem * (per + 1) = rem * per + rem /\ rem * per \in Nat
      BY <1>1
    <2>2. per # 0
      BY <1>2, <1>4
    <2> DEFINE q == (r - rem * (per + 1)) \div per
    <2>3. q \in Nat /\ q * per <= r - rem * (per + 1) /\ r - rem * (per + 1) < q * per + per
      <3> DEFINE x == r - rem * (per + 1)
      <3>1. x \in Nat /\ per \in Nat \ {0}
        BY <1>2, <1>4, <2>1, <2>2
      <3> HIDE DEF x
      <3>2. x \div per \in Nat /\ (x \div per) * per <= x /\ x < (x \div per) * per + per
        BY <3>1
      <3> QED BY <3>2 DEF x
    <2> DEFINE t == rem + q
    <2> HIDE DEF q
    <2>4. /\ t \in Nat /\ t * per = rem * per + q * per /\ q * per \in Nat
          /\ (t + 1) * per = rem * per + q * per + per
      <3>1. q \in Nat /\ q * per \in Nat
        BY ONLY <2>3, per \in Nat
      <3>2. (rem + q) * per = rem * per + q * per
        BY ONLY <3>1, per \in Nat, rem \in Nat
      <3>3. (rem + q + 1) * per = (rem + q) * per + per
        BY ONLY <3>1, per \in Nat, rem \in Nat
      <3> QED BY <3>1, <3>2, <3>3
    <2>5. FirstOf(t) = t * per + rem /\ FirstOf(t + 1) = (t + 1) * per + rem
      <3>1. t \in Nat /\ t + 1 \in Nat /\ ~(t < rem) /\ ~(t + 1 < rem)
        BY <1>1, <2>3
      <3>2. /\ FirstOf(t) = t * per + (IF t < rem THEN t ELSE rem)
            /\ FirstOf(t + 1) = (t + 1) * per + (IF t + 1 < rem THEN t + 1 ELSE rem)
        BY <1>1, <3>1, Zenon
      <3> QED BY <3>1, <3>2, Zenon
    <2>6. FirstOf(t) <= r /\ r < FirstOf(t + 1)
      BY <1>2, <2>1, <2>3, <2>4, <2>5
    <2>7. t < cfg.threads
      <3> SUFFICES ASSUME cfg.threads <= t PROVE FALSE
        BY <1>2, <2>4
      <3>1. cfg.requests <= FirstOf(t)
        BY <1>2, <2>4, SharesInOrder
      <3> QED BY <1>1, <1>2, <2>4, <2>5, <2>6, <3>1, ConfigFacts
    <2>8. t \in Workers
      BY <1>2, <2>4, <2>7 DEF Workers
    <2> QED BY <2>6, <2>8 DEF End
  <1> QED BY <1>1, <1>2, <1>3, <1>4

\* And of one only.
LEMMA SharesDisjoint ==
    ASSUME MicroShape, NEW t \in Workers, NEW u \in Workers, NEW r \in Nat,
           FirstOf(t) <= r, r < End(t), FirstOf(u) <= r, r < End(u)
    PROVE  t = u
  <1>1. t \in Nat /\ u \in Nat
    BY ConfigFacts
  <1>2. /\ t < u => End(t) <= FirstOf(u)
        /\ u < t => End(u) <= FirstOf(t)
    BY <1>1, SharesInOrder DEF End
  <1>3. FirstOf(t) \in Nat /\ FirstOf(u) \in Nat /\ End(t) \in Nat /\ End(u) \in Nat
    BY <1>1, FirstOfNat DEF End
  <1> QED BY <1>1, <1>2, <1>3
-----------------------------------------------------------------------------
\* A worker has done the requests of its share in front of next.
Done == {r \in Requests :
            \E t \in Workers : wpc[t] # "none" /\ FirstOf(t) <= r /\ r < next[t]}

ShareInv(t) ==
    wpc[t] # "none" =>
        /\ FirstOf(t) <= next[t] /\ next[t] <= End(t)
        /\ wpc[t] \in {"pread", "record"} => batchEnd[t] <= End(t)

CountInv ==
    /\ lat_us = [r \in Requests |-> IF r \in Done THEN 1 ELSE 0]
    /\ total_bytes = io_size * Cardinality(Done)

\* When the result is decided all workers have ended and no one writes the error.
ResultInv ==
    /\ lat_mu # NoOne => lat_mu \in Workers /\ wpc[lat_mu] = "write"
    /\ pc = "join" => \A t \in Workers : wpc[t] # "none"
    /\ pc = "teardown" => \A t \in Workers : wpc[t] = "done"
    /\ pc # "report" => ~rr.ok
    /\ rr.ok => ~rr.error /\ \A t \in Workers : wpc[t] = "done"

CompleteInv == (\A t \in Workers : ShareInv(t)) /\ CountInv /\ ResultInv

LEMMA CompleteInit == Init => CompleteInv
  <1> SUFFICES ASSUME Init PROVE CompleteInv
    OBVIOUS
  <1> USE MicrobenchAssumption DEF Init
  <1>1. \A t \in Workers : wpc[t] = "none"
    OBVIOUS
  <1>2. Done = {} /\ Cardinality({}) = 0
    BY <1>1, FS_EmptySet DEF Done
  <1>3. MicroShape
    BY MicroInitHolds DEF MicroInv
  <1>4. io_size \in Nat
    BY <1>3, ConfigFacts
  <1>5. CountInv
    BY <1>2, <1>4 DEF CountInv, NotYet
  <1>6. ResultInv /\ \A t \in Workers : ShareInv(t)
    BY <1>1 DEF ResultInv, ShareInv
  <1> QED BY <1>5, <1>6 DEF CompleteInv

\* The steps that complete no request.
LEMMA QuietStep ==
    ASSUME MicroInv, CompleteInv, UNCHANGED <<cfg, case, next, lat_us, total_bytes>>,
           \A t \in Workers :
               /\ wpc'[t] = "none" <=> wpc[t] = "none"
               /\ wpc'[t] \in {"pread", "record"} =>
                      \/ wpc[t] \in {"pread", "record"} /\ batchEnd'[t] = batchEnd[t]
                      \/ batchEnd'[t] <= End(t)
    PROVE  CountInv' /\ \A t \in Workers' : ShareInv(t)'
  <1>1. /\ Workers' = Workers /\ Requests' = Requests /\ io_size' = io_size
        /\ \A t : FirstOf(t)' = FirstOf(t) /\ End(t)' = End(t)
    BY DEF Workers, Requests, io_size, End, FirstOf
  <1>2. Done' = Done
    BY <1>1 DEF Done
  <1>3. CountInv'
    BY <1>1, <1>2 DEF CompleteInv, CountInv
  <1>4. ASSUME NEW t \in Workers PROVE ShareInv(t)'
    BY <1>1 DEF CompleteInv, ShareInv
  <1> QED BY <1>1, <1>3, <1>4

\* A step of a worker, as far as the result is concerned.
LEMMA WorkerResult ==
    ASSUME MicroInv, CompleteInv, NEW t \in Workers, Running(t), UNCHANGED <<cfg, pc>>,
           rr'.ok = rr.ok, NEW label \in Labels \ {"none"}, wpc' = [wpc EXCEPT ![t] = label],
           \/ lat_mu' = NoOne
           \/ lat_mu' = t /\ label = "write"
           \/ lat_mu' = lat_mu /\ wpc[t] # "write"
    PROVE  ResultInv'
  <1> USE DEF CompleteInv, ResultInv
  <1>1. pc \in {"spawn", "join"} /\ ~rr.ok
    BY DEF MicroInv, MicroShape, MainInv, Running
  <1>2. Workers' = Workers /\ wpc'[t] = label /\ \A u \in Workers \ {t} : wpc'[u] = wpc[u]
    BY DEF Workers, MicroInv, MicroShape
  <1>3. lat_mu' # NoOne => lat_mu' \in Workers /\ wpc'[lat_mu'] = "write"
    BY <1>2
  <1>4. pc = "join" => \A u \in Workers : wpc'[u] # "none"
    BY <1>2
  <1> QED BY <1>1, <1>2, <1>3, <1>4

LEMMA QuietWorkerStep ==
    ASSUME MicroInv, CompleteInv, NEW t \in Workers, Worker(t), ~Record(t)
    PROVE  CompleteInv'
  <1> USE DEF At, Step
  <1>1. /\ wpc \in [Workers -> Labels] /\ rr \in [ok : BOOLEAN, error : BOOLEAN]
        /\ batchEnd \in [Workers -> Nat] /\ after[t] \in {"batch", "check"}
    BY DEF MicroInv, MicroShape
  <1>2. /\ UNCHANGED <<cfg, case, pc, next, lat_us, total_bytes>> /\ rr'.ok = rr.ok
        /\ wpc[t] \notin {"none", "done"}
    BY <1>1 DEF Worker, Alloc, Register, Batch, Read, BeginError, EndError, Check, FreeBuffers,
                mainVars, sharedVars
  <1>3. PICK label \in Labels \ {"none"} :
            /\ wpc' = [wpc EXCEPT ![t] = label]
            /\ \/ lat_mu' = NoOne
               \/ lat_mu' = t /\ label = "write"
               \/ lat_mu' = lat_mu /\ wpc[t] # "write"
            /\ label \in {"pread", "record"} =>
                   \/ wpc[t] = "pread" /\ UNCHANGED batchEnd
                   \/ batchEnd'[t] <= End(t)
    <2>1. CASE Alloc(t)
      <3>1. lat_mu' = lat_mu /\ wpc[t] # "write"
        BY <2>1 DEF Alloc, sharedVars
      <3>2. CASE path = "gds"
        <4>1. wpc' = [wpc EXCEPT ![t] = "register"] /\ "register" \in Labels \ {"none"}
          BY <2>1, <3>2 DEF Alloc, Labels
        <4> QED BY <3>1, <4>1
      <3>3. CASE path # "gds"
        <4>1. wpc' = [wpc EXCEPT ![t] = "batch"] /\ "batch" \in Labels \ {"none"}
          BY <2>1, <3>3 DEF Alloc, Labels
        <4> QED BY <3>1, <4>1
      <3> QED BY <3>2, <3>3
    <2>2. CASE Register(t)
      BY <2>2 DEF Register, sharedVars, Labels
    <2>3. CASE Batch(t)
      <3>1. End(t) \in Nat /\ next[t] \in Nat /\ cfg.qd \in Nat
        <4>1. t + 1 \in Nat
          BY ConfigFacts DEF MicroInv
        <4> QED BY <4>1, FirstOfNat, ConfigFacts DEF End, MicroInv, MicroShape
      <3>2. CASE next[t] < End(t)
        <4>1. batchEnd'[t] <= End(t)
          BY <1>1, <2>3, <3>1, <3>2 DEF Batch
        <4> QED BY <2>3, <3>2, <4>1 DEF Batch, sharedVars, Labels
      <3>3. CASE ~(next[t] < End(t))
        BY <2>3, <3>3 DEF Batch, sharedVars, Labels
      <3> QED BY <3>2, <3>3
    <2>4. CASE Read(t)
      BY <2>4 DEF Read, Labels
    <2>5. CASE BeginError(t)
      <3>1. wpc' = [wpc EXCEPT ![t] = "write"] /\ lat_mu' = t
        BY <2>5 DEF BeginError, sharedVars
      <3>2. "write" \in Labels \ {"none"}
        BY DEF Labels
      <3> QED BY <3>1, <3>2
    <2>6. CASE EndError(t)
      BY <1>1, <2>6 DEF EndError, Labels
    <2>7. CASE Check(t)
      BY <2>7 DEF Check, sharedVars, Labels
    <2>8. CASE FreeBuffers(t)
      <3>1. wpc' = [wpc EXCEPT ![t] = "done"] /\ lat_mu' = lat_mu /\ wpc[t] # "write"
        BY <2>8 DEF FreeBuffers, sharedVars
      <3>2. "done" \in Labels \ {"none"}
        BY DEF Labels
      <3> QED BY <3>1, <3>2
    <2> QED BY <2>1, <2>2, <2>3, <2>4, <2>5, <2>6, <2>7, <2>8 DEF Worker
  <1>4. ResultInv'
    BY <1>2, <1>3, WorkerResult DEF Running
  <1>5. batchEnd' = batchEnd \/ \A u \in Workers \ {t} : batchEnd'[u] = batchEnd[u]
    BY <1>1 DEF Worker, Alloc, Register, Batch, Read, BeginError, EndError, Check, FreeBuffers
  <1>6. ASSUME NEW u \in Workers
        PROVE  /\ wpc'[u] = "none" <=> wpc[u] = "none"
               /\ wpc'[u] \in {"pread", "record"} =>
                      \/ wpc[u] \in {"pread", "record"} /\ batchEnd'[u] = batchEnd[u]
                      \/ batchEnd'[u] <= End(u)
    <2>1. wpc'[u] = IF u = t THEN label ELSE wpc[u]
      BY <1>1, <1>3
    <2>2. CASE u = t
      BY <1>2, <1>3, <2>1, <2>2
    <2>3. CASE u # t
      BY <1>5, <2>1, <2>3
    <2> QED BY <2>2, <2>3
  <1>7. CountInv' /\ \A u \in Workers' : ShareInv(u)'
    BY <1>2, <1>6, QuietStep
  <1> QED BY <1>4, <1>7 DEF CompleteInv

\* A request done: it is one of the worker's share, of nobody else's.
LEMMA RecordCounts ==
    ASSUME MicroInv, CompleteInv, NEW t \in Workers, Record(t)
    PROVE  CompleteInv'
  <1> USE DEF At, Step
  <1>1. /\ wpc \in [Workers -> Labels] /\ next \in [Workers -> Nat]
        /\ batchEnd \in [Workers -> Nat] /\ t \in Nat /\ next[t] \in Nat /\ batchEnd[t] \in Nat
        /\ io_size \in Nat /\ cfg.threads \in Nat /\ cfg.requests \in Nat
        /\ \A u \in Workers : u \in Nat /\ u + 1 <= cfg.threads
    <2>1. cfg.threads \in Nat /\ cfg.requests \in Nat /\ io_size \in Nat /\ Workers \subseteq Nat
      BY ConfigFacts DEF MicroInv
    <2>2. \A u \in Workers : u + 1 <= cfg.threads
      BY <2>1 DEF Workers
    <2> QED BY <2>1, <2>2 DEF MicroInv, MicroShape
  <1>2. \A u \in Workers : FirstOf(u) \in Nat /\ End(u) \in Nat /\ End(u) <= cfg.requests
    BY <1>1, FirstOfNat, SharesInOrder DEF End, MicroInv
  <1>3. /\ wpc[t] = "record" /\ UNCHANGED <<cfg, case, pc, rr, lat_mu, batchEnd>>
        /\ next' = [next EXCEPT ![t] = next[t] + 1]
        /\ lat_us' = [lat_us EXCEPT ![next[t]] = lat_us[next[t]] + 1]
        /\ total_bytes' = total_bytes + io_size
    BY DEF Record, mainVars
  <1>4. PICK label \in {"pread", "check"} :
            wpc' = [wpc EXCEPT ![t] = label] /\ (label = "pread" => next'[t] < batchEnd[t])
    BY DEF Record
  <1>5. /\ Workers' = Workers /\ Requests' = Requests /\ io_size' = io_size
        /\ \A u \in Workers : FirstOf(u)' = FirstOf(u) /\ End(u)' = End(u)
    BY <1>3 DEF Workers, Requests, io_size, End, FirstOf
  <1> DEFINE r == next[t]
  <1>6. /\ FirstOf(t) <= r /\ r < batchEnd[t] /\ batchEnd[t] <= End(t)
        /\ \A u \in Workers : wpc[u] # "none" => next[u] <= End(u)
    BY <1>3 DEF MicroInv, WorkerInv, InBatch, CompleteInv, ShareInv
  <1>7. r \in Requests
    BY <1>1, <1>2, <1>6 DEF Requests
  <1>8. r \notin Done
    <2> SUFFICES ASSUME NEW u \in Workers, wpc[u] # "none", FirstOf(u) <= r, r < next[u]
                 PROVE  FALSE
      BY DEF Done
    <2>1. r < End(u) /\ r < End(t)
      <3>1. next[u] \in Nat
        BY <1>1
      <3> QED BY <1>1, <1>2, <1>6, <3>1
    <2>2. u = t
      BY <1>1, <1>6, <2>1, SharesDisjoint DEF MicroInv
    <2> QED BY <1>1, <2>2
  <1>9. \A u \in Workers : /\ next'[u] = IF u = t THEN r + 1 ELSE next[u]
                           /\ wpc'[u] = IF u = t THEN label ELSE wpc[u]
    BY <1>1, <1>3, <1>4
  <1>10. Done' = Done \cup {r}
    <2>1. ASSUME NEW q \in Requests
          PROVE  q \in Done' <=> q \in Done \/ q = r
      <3>1. q \in Nat
        BY <1>1 DEF Requests
      <3>2. q \in Done' <=> \E u \in Workers : wpc'[u] # "none" /\ FirstOf(u) <= q /\ q < next'[u]
        BY <1>5 DEF Done
      <3>3. q \in Done <=> \E u \in Workers : wpc[u] # "none" /\ FirstOf(u) <= q /\ q < next[u]
        BY DEF Done
      <3>4. ASSUME NEW u \in Workers
            PROVE  (wpc'[u] # "none" /\ FirstOf(u) <= q /\ q < next'[u]) <=>
                       \/ wpc[u] # "none" /\ FirstOf(u) <= q /\ q < next[u]
                       \/ u = t /\ q = r
        BY <1>1, <1>2, <1>3, <1>6, <1>9, <3>1
      <3> QED BY <3>2, <3>3, <3>4
    <2>2. Done' \subseteq Requests /\ Done \subseteq Requests
      BY <1>5 DEF Done
    <2> HIDE DEF r
    <2> QED BY <1>7, <2>1, <2>2
  <1>11. IsFiniteSet(Done)
    <2>1. IsFiniteSet(Requests)
      <3>1. 0 \in Int /\ cfg.requests - 1 \in Int
        BY <1>1
      <3>2. IsFiniteSet(0 .. cfg.requests - 1)
        BY <3>1, FS_Interval
      <3> QED BY <3>2 DEF Requests
    <2> QED BY <2>1, FS_Subset DEF Done
  <1>12. CountInv'
    <2>1. Cardinality(Done') = Cardinality(Done) + 1 /\ Cardinality(Done) \in Nat
      <3>1. Cardinality(Done) \in Nat
        BY <1>11, FS_CardinalityType
      <3>2. Cardinality(Done \cup {r}) = Cardinality(Done) + 1
        BY <1>8, <1>11, FS_AddElement
      <3> QED BY <1>10, <3>1, <3>2
    <2>2. total_bytes' = io_size * Cardinality(Done')
      <3> DEFINE n == Cardinality(Done)
      <3>1. n \in Nat /\ total_bytes = io_size * n
        BY <2>1 DEF CompleteInv, CountInv
      <3> HIDE DEF n
      <3>2. io_size * (n + 1) = io_size * n + io_size
        BY ONLY <1>1, <3>1
      <3>3. Cardinality(Done') = n + 1
        BY <2>1 DEF n
      <3> QED BY <1>3, <3>1, <3>2, <3>3
    <2>3. lat_us' = [q \in Requests |-> IF q \in Done \cup {r} THEN 1 ELSE 0]
      <3>1. lat_us = [q \in Requests |-> IF q \in Done THEN 1 ELSE 0]
        BY DEF CompleteInv, CountInv
      <3>2. lat_us[r] = 0
        BY <1>7, <1>8, <3>1
      <3>3. lat_us' = [lat_us EXCEPT ![r] = 1]
        BY <1>3, <3>2
      <3> HIDE DEF r
      <3> QED BY <1>7, <3>1, <3>3
    <2> QED BY <1>5, <1>10, <2>2, <2>3 DEF CountInv
  <1>13. ASSUME NEW u \in Workers PROVE ShareInv(u)'
    <2>1. CASE u = t
      BY <1>1, <1>2, <1>3, <1>4, <1>5, <1>6, <1>9, <2>1 DEF ShareInv
    <2>2. CASE u # t
      BY <1>3, <1>5, <1>9, <2>2 DEF CompleteInv, ShareInv
    <2> QED BY <2>1, <2>2
  <1>14. ResultInv'
    <2>1. label \in Labels \ {"none"}
      BY <1>4 DEF Labels
    <2> QED BY <1>3, <1>4, <2>1, WorkerResult DEF Running
  <1> QED BY <1>5, <1>12, <1>13, <1>14 DEF CompleteInv

\* The steps of main.
LEMMA SpawnCounts ==
    ASSUME MicroInv, CompleteInv, NEW t \in Workers, Spawn(t)
    PROVE  CompleteInv'
  <1> USE DEF Goes
  <1>1. /\ UNCHANGED <<cfg, case, rr, lat_mu, lat_us, total_bytes, batchEnd>>
        /\ wpc[t] = "none" /\ pc = "spawn" /\ pc' = IF t + 1 < cfg.threads THEN "spawn" ELSE "join"
    BY DEF Spawn
  <1>2. \A u \in Workers : /\ wpc'[u] = IF u = t THEN "alloc" ELSE wpc[u]
                           /\ next'[u] = IF u = t THEN FirstOf(t) ELSE next[u]
    BY DEF Spawn, MicroInv, MicroShape
  <1>3. t \in Nat /\ t + 1 \in Nat /\ FirstOf(t) \in Nat /\ FirstOf(t) <= End(t)
    <2>1. t \in Nat
      BY ConfigFacts DEF MicroInv
    <2> QED BY <2>1, FirstOfNat, SharesInOrder DEF End, MicroInv
  <1>4. /\ Workers' = Workers /\ Requests' = Requests /\ io_size' = io_size
        /\ \A u \in Workers : FirstOf(u)' = FirstOf(u) /\ End(u)' = End(u)
    BY <1>1 DEF Workers, Requests, io_size, End, FirstOf
  <1>5. Done' = Done
    <2>1. ASSUME NEW q \in Requests
          PROVE  q \in Done' <=> q \in Done
      <3>1. q \in Nat
        BY ConfigFacts DEF Requests, MicroInv
      <3>2. q \in Done' <=> \E u \in Workers : wpc'[u] # "none" /\ FirstOf(u) <= q /\ q < next'[u]
        BY <1>4 DEF Done
      <3>3. q \in Done <=> \E u \in Workers : wpc[u] # "none" /\ FirstOf(u) <= q /\ q < next[u]
        BY DEF Done
      <3>4. ~(FirstOf(t) <= q /\ q < FirstOf(t))
        BY <1>3, <3>1
      <3>5. ASSUME NEW u \in Workers
            PROVE  (wpc'[u] # "none" /\ FirstOf(u) <= q /\ q < next'[u]) <=>
                   (wpc[u] # "none" /\ FirstOf(u) <= q /\ q < next[u])
        BY <1>1, <1>2, <3>4, Zenon
      <3> QED BY <3>2, <3>3, <3>5
    <2>2. Done' \subseteq Requests /\ Done \subseteq Requests
      BY <1>4 DEF Done
    <2> QED BY <2>1, <2>2
  <1>6. CountInv'
    BY <1>1, <1>4, <1>5 DEF CompleteInv, CountInv
  <1>7. ASSUME NEW u \in Workers PROVE ShareInv(u)'
    BY <1>1, <1>2, <1>3, <1>4 DEF CompleteInv, ShareInv
  <1>8. ResultInv'
    <2>1. pc' = "join" => \A u \in Workers : u = t \/ u \in 0 .. t - 1
      BY <1>1, <1>3, ConfigFacts DEF Workers, MicroInv
    <2>2. \A u \in 0 .. t - 1 : wpc[u] # "none"
      BY DEF Spawn
    <2>3. pc' = "join" => \A u \in Workers : wpc'[u] # "none"
      BY <1>2, <2>1, <2>2
    <2>4. lat_mu # NoOne => lat_mu \in Workers /\ wpc'[lat_mu] = "write"
      BY <1>1, <1>2 DEF CompleteInv, ResultInv
    <2>5. ~rr.ok
      BY <1>1 DEF CompleteInv, ResultInv
    <2> QED BY <1>1, <1>4, <2>3, <2>4, <2>5 DEF ResultInv
  <1> QED BY <1>4, <1>6, <1>7, <1>8 DEF CompleteInv

LEMMA NextCaseCounts ==
    ASSUME MicroInv, CompleteInv, NextCase
    PROVE  CompleteInv'
  <1>1. /\ pc = "report" /\ pc' \in {"begin", "end"} /\ cfg' = cfg /\ lat_mu' = lat_mu
        /\ rr'.ok = FALSE /\ total_bytes' = 0 /\ lat_us' = NotYet
        /\ wpc' = [t \in Workers |-> "none"]
    BY DEF NextCase
  <1>2. Workers' = Workers /\ Requests' = Requests
    BY <1>1 DEF Workers, Requests
  <1>3. Done' = {} /\ Cardinality({}) = 0
    BY <1>1, <1>2, FS_EmptySet DEF Done
  <1>4. io_size' \in Nat
    <2>1. MicroShape'
      BY NextCaseStep DEF MicroInv
    <2>2. case' \in 1 .. Len(cases)
      BY <2>1 DEF MicroShape
    <2>3. cases[case'] \in [path : {"buffered", "direct", "gds"}, io_size : Nat \ {0}]
      BY <2>2, CasesTyped
    <2> QED BY <2>3 DEF io_size
  <1>5. CountInv'
    BY <1>1, <1>2, <1>3, <1>4 DEF CountInv, NotYet
  <1>6. lat_mu = NoOne
    BY <1>1 DEF CompleteInv, ResultInv, MicroInv, MainInv, Running
  <1> QED BY <1>1, <1>2, <1>5, <1>6 DEF CompleteInv, ShareInv, ResultInv

LEMMA QuietMainStep ==
    ASSUME MicroInv, CompleteInv,
           BeginCase \/ Open \/ OpenDriver \/ RegisterHandle \/ Join \/ Teardown
    PROVE  CompleteInv'
  <1>1. UNCHANGED <<cfg, case, lat_mu, lat_us, total_bytes, next, wpc, batchEnd>>
    BY DEF BeginCase, Open, OpenDriver, RegisterHandle, Join, Teardown, sharedVars, workerVars
  <1>2. CountInv' /\ \A t \in Workers' : ShareInv(t)'
    BY <1>1, QuietStep
  <1>3. Workers' = Workers
    BY <1>1 DEF Workers
  <1>4. rr \in [ok : BOOLEAN, error : BOOLEAN]
    BY DEF MicroInv, MicroShape
  <1>5. CASE BeginCase \/ Open \/ OpenDriver \/ RegisterHandle
    <2>1. pc' \notin {"join", "teardown"} /\ ~rr'.ok
      <3>1. ~rr.ok
        BY <1>5 DEF CompleteInv, ResultInv, BeginCase, Open, OpenDriver, RegisterHandle
      <3>2. pc' \in {"open", "driver", "handle", "spawn", "report"}
        BY <1>5 DEF BeginCase, Open, OpenDriver, RegisterHandle, GiveUp, Goes
      <3>3. rr' = rr \/ rr' = [ok |-> FALSE, error |-> TRUE]
        BY <1>5 DEF BeginCase, Open, OpenDriver, RegisterHandle, GiveUp, Goes
      <3>4. ~rr'.ok
        BY <3>1, <3>3
      <3> QED BY <3>2, <3>4
    <2> QED BY <1>1, <1>2, <1>3, <2>1 DEF CompleteInv, ResultInv
  <1>6. CASE Join
    <2>1. \A t \in Workers : wpc[t] = "done"
      BY <1>6 DEF Join, Running, CompleteInv, ResultInv
    <2> QED BY <1>1, <1>2, <1>3, <1>6, <2>1 DEF Join, Goes, CompleteInv, ResultInv
  <1>7. CASE Teardown
    <2>1. pc = "teardown" /\ pc' = "report" /\ rr'.ok = ~rr.error /\ rr'.error = rr.error
      BY <1>4, <1>7 DEF Teardown
    <2>2. \A t \in Workers : wpc[t] = "done"
      BY <2>1 DEF CompleteInv, ResultInv
    <2> QED BY <1>1, <1>2, <1>3, <2>1, <2>2 DEF CompleteInv, ResultInv
  <1> QED BY <1>5, <1>6, <1>7

LEMMA CompleteInductive == MicroInv /\ CompleteInv /\ [Next]_vars => CompleteInv'
  <1> SUFFICES ASSUME MicroInv, CompleteInv, [Next]_vars PROVE CompleteInv'
    OBVIOUS
  <1>1. CASE Main
    BY <1>1, QuietMainStep, SpawnCounts, NextCaseCounts DEF Main
  <1>2. ASSUME NEW t \in Workers, Worker(t) PROVE CompleteInv'
    BY <1>2, QuietWorkerStep, RecordCounts
  <1>3. CASE UNCHANGED vars
    <2> USE DEF vars, mainVars, sharedVars, workerVars
    <2>1. CountInv' /\ \A t \in Workers' : ShareInv(t)'
      BY <1>3, QuietStep
    <2>2. ResultInv'
      BY <1>3 DEF CompleteInv, ResultInv, Workers
    <2> QED BY <2>1, <2>2 DEF CompleteInv
  <1> QED BY <1>1, <1>2, <1>3 DEF Next

\* A case reported ok has done every request once and counted all its bytes.
THEOREM OkAlwaysComplete == Spec => []OkMeansComplete
  <1>1. MicroInv /\ CompleteInv => OkMeansComplete
    <2> SUFFICES ASSUME MicroInv, CompleteInv, pc = "report", rr.ok
                 PROVE  /\ lat_us = [r \in Requests |-> 1]
                        /\ total_bytes = cfg.requests * io_size
      BY DEF OkMeansComplete
    <2>1. /\ cfg.requests \in Nat /\ io_size \in Nat /\ cfg.threads \in Nat
          /\ Workers \subseteq Nat /\ next \in [Workers -> Nat]
      BY ConfigFacts DEF MicroInv, MicroShape
    <2>2. ~rr.error /\ \A t \in Workers : wpc[t] = "done"
      BY DEF CompleteInv, ResultInv
    <2>3. lat_mu = NoOne
      BY <2>2 DEF CompleteInv, ResultInv
    <2>4. \A t \in Workers : End(t) \in Nat /\ ~(next[t] < End(t))
      BY <2>1, <2>2, <2>3, FirstOfNat DEF MicroInv, WorkerInv, Kept, End
    <2>5. Done = Requests
      <3> SUFFICES ASSUME NEW r \in Requests PROVE r \in Done
        BY DEF Done
      <3>1. PICK t \in Workers : FirstOf(t) <= r /\ r < End(t)
        BY SharesCover DEF MicroInv
      <3>2. r < next[t]
        BY <2>1, <2>4, <3>1 DEF Requests
      <3> QED BY <2>2, <3>1, <3>2 DEF Done
    <2>6. Cardinality(Requests) = cfg.requests
      <3>1. 0 \in Int /\ cfg.requests - 1 \in Int
        BY <2>1
      <3>2. Cardinality(0 .. cfg.requests - 1) =
                IF 0 > cfg.requests - 1 THEN 0 ELSE cfg.requests - 1 - 0 + 1
        BY <3>1, FS_Interval
      <3> QED BY <2>1, <3>2 DEF Requests
    <2>7. total_bytes = io_size * cfg.requests /\ lat_us = [r \in Requests |-> 1]
      BY <2>5, <2>6 DEF CompleteInv, CountInv
    <2>8. io_size * cfg.requests = cfg.requests * io_size
      BY ONLY <2>1
    <2> QED BY <2>7, <2>8
  <1> QED BY <1>1, MicroInvHolds, CompleteInit, CompleteInductive, PTL DEF Spec
-----------------------------------------------------------------------------
\* The places the workers read at.
\* Every slot the microbenchmark may choose, in order or at random, lies in a
\* file of at least io bytes.
THEOREM SlotsStayInFile ==
    ASSUME NEW io \in Nat \ {0}, NEW size \in Nat, size >= io,
           NEW slot \in 0 .. SlotCount(io, size) - 1
    PROVE  /\ SlotOffset(slot, io) \in Nat
           /\ SlotOffset(slot, io) + io <= size
           /\ SlotOffset(slot, io) % io = 0
  <1>1. slot \in Nat
    BY DEF SlotCount
  <1>2. SlotOffset(slot, io) \in Nat
    BY <1>1 DEF SlotOffset
  <1>3. SlotOffset(slot, io) + io <= size
    <2>1. CASE size = io
      BY <1>1, <2>1 DEF SlotCount, SlotOffset
    <2>2. CASE size > io
      <3> DEFINE q == (size - io) \div io
      <3>1. q \in Nat /\ q * io <= size - io
        BY <2>2
      <3>2. slot <= q
        BY <2>2, <3>1 DEF SlotCount
      <3> HIDE DEF q
      <3>3. slot * io <= q * io
        BY <1>1, <3>1, <3>2
      <3> QED BY <1>1, <3>1, <3>3 DEF SlotOffset
    <2> QED BY <2>1, <2>2
  <1>4. SlotOffset(slot, io) % io = 0
    BY <1>1 DEF SlotOffset
  <1> QED BY <1>2, <1>3, <1>4

\* So does what the workers take from them, but for the shift of the unaligned mode.
LEMMA OffsetsInFile ==
    ASSUME MicroInv, io_size <= file_size, NEW r \in Nat
    PROVE  OffsetsOf(r) \subseteq 0 .. file_size + Shift
  <1> DEFINE count == SlotCount(io_size, file_size)
  <1>1. io_size \in Nat \ {0} /\ file_size \in Nat /\ Shift \in Nat
    BY ConfigFacts, MicrobenchAssumption DEF MicroInv
  <1>2. count \in Nat \ {0}
    <2> DEFINE q == (file_size - io_size) \div io_size
    <2>1. file_size > io_size => q \in Nat
      BY <1>1
    <2> HIDE DEF q
    <2>2. count = IF file_size > io_size THEN q + 1 ELSE 1
      BY DEF SlotCount, q
    <2> QED BY <1>1, <2>1, <2>2
  <1> HIDE DEF count
  <1>3. r % count \in 0 .. count - 1
    BY <1>2
  <1>4. ASSUME NEW slot \in 0 .. count - 1
        PROVE  /\ SlotOffset(slot, io_size) \in 0 .. file_size + Shift
               /\ SlotOffset(slot, io_size) + Shift \in 0 .. file_size + Shift
    <2>1. SlotOffset(slot, io_size) \in Nat /\ SlotOffset(slot, io_size) + io_size <= file_size
      BY <1>1, SlotsStayInFile DEF count
    <2> QED BY <1>1, <2>1
  <1>5. ASSUME NEW o \in OffsetsOf(r) PROVE o \in 0 .. file_size + Shift
    <2>1. PICK slot \in 0 .. count - 1 :
              o = SlotOffset(slot, io_size) + (IF cfg.aligned THEN 0 ELSE Shift)
      BY <1>3, <1>5 DEF OffsetsOf, count
    <2>2. SlotOffset(slot, io_size) \in Nat
      BY <1>4
    <2> QED BY <1>4, <2>1, <2>2
  <1> QED BY <1>5

\* Where the workers read, and how far their numbers go.
PlacesInv ==
    /\ moved \in Nat
    /\ pc \in {"open", "driver", "handle", "spawn", "join", "teardown"} => io_size <= file_size
    /\ off \in [Workers -> 0 .. file_size + Shift]
    /\ \A t \in Workers : batchEnd[t] <= cfg.requests /\ atError[t] <= cfg.requests

LEMMA PlacesInit == Init => PlacesInv
  <1> SUFFICES ASSUME Init PROVE PlacesInv
    OBVIOUS
  <1>1. MicroShape
    BY MicroInitHolds DEF MicroInv
  <1>2. cfg.requests \in Nat /\ file_size \in Nat /\ Shift \in Nat
    BY <1>1, ConfigFacts, MicrobenchAssumption
  <1> QED BY <1>2 DEF Init, PlacesInv, Zero

\* A worker's share ends at the last request.
LEMMA SharesEnd ==
    ASSUME MicroInv, NEW t \in Workers
    PROVE  /\ FirstOf(t) \in Nat /\ FirstOf(t) <= cfg.requests
           /\ End(t) \in Nat /\ End(t) <= cfg.requests
  <1>1. t \in Nat /\ t + 1 \in Nat /\ t <= cfg.threads /\ t + 1 <= cfg.threads
        /\ cfg.threads \in Nat
    BY ConfigFacts DEF MicroInv, Workers
  <1>2. FirstOf(t) \in Nat /\ FirstOf(t + 1) \in Nat
    BY <1>1, FirstOfNat DEF MicroInv
  <1>3. FirstOf(t) <= FirstOf(cfg.threads) /\ FirstOf(t + 1) <= FirstOf(cfg.threads)
        /\ FirstOf(cfg.threads) = cfg.requests
    BY <1>1, SharesInOrder DEF MicroInv
  <1> QED BY <1>2, <1>3 DEF End

LEMMA PlacesMain == MicroInv /\ PlacesInv /\ Main => PlacesInv'
  <1> SUFFICES ASSUME MicroInv, PlacesInv, Main PROVE PlacesInv'
    OBVIOUS
  <1>1. file_size \in Nat /\ Shift \in Nat /\ cfg.requests \in Nat /\ io_size \in Nat
    BY ConfigFacts, MicrobenchAssumption DEF MicroInv
  <1>2. CASE BeginCase
    <2>1. /\ UNCHANGED <<cfg, case, moved, off, batchEnd, atError>>
          /\ pc' # "report" => io_size <= file_size
      BY <1>1, <1>2 DEF BeginCase, GiveUp, Goes, sharedVars, workerVars
    <2> QED BY <1>2, <2>1 DEF BeginCase, GiveUp, Goes, PlacesInv, Workers, io_size
  <1>3. CASE Open \/ OpenDriver \/ RegisterHandle \/ Join \/ Teardown
    <2>1. /\ UNCHANGED <<cfg, case, moved, off, batchEnd, atError>>
          /\ pc \in {"open", "driver", "handle", "join", "teardown"}
      BY <1>3 DEF Open, OpenDriver, RegisterHandle, Join, Teardown, sharedVars, workerVars
    <2> QED BY <2>1 DEF PlacesInv, Workers, io_size
  <1>4. CASE NextCase
    <2>1. /\ cfg' = cfg /\ pc' \in {"begin", "end"} /\ moved' = 0
          /\ off' = Zero /\ batchEnd' = Zero /\ atError' = Zero
      BY <1>4 DEF NextCase
    <2> QED BY <1>1, <2>1 DEF PlacesInv, Workers, Zero
  <1>5. ASSUME NEW t \in Workers, Spawn(t) PROVE PlacesInv'
    <2>1. /\ UNCHANGED <<cfg, case, moved, off, batchEnd>> /\ pc = "spawn"
          /\ atError' = [atError EXCEPT ![t] = FirstOf(t)]
      BY <1>5 DEF Spawn
    <2>2. \A u \in Workers : atError'[u] <= cfg.requests
      BY <2>1, SharesEnd DEF MicroInv, MicroShape, PlacesInv
    <2> QED BY <2>1, <2>2 DEF PlacesInv, Workers, io_size
  <1> QED BY <1>2, <1>3, <1>4, <1>5 DEF Main

LEMMA PlacesWorker ==
    ASSUME MicroInv, CompleteInv, PlacesInv, NEW t \in Workers, Worker(t)
    PROVE  PlacesInv'
  <1> USE DEF At, Step
  <1>1. /\ UNCHANGED <<cfg, case, pc>> /\ Running(t)
    BY DEF Worker, Alloc, Register, Batch, Read, Record, BeginError, EndError, Check,
           FreeBuffers, mainVars, Running
  <1>2. pc \in {"spawn", "join"} /\ io_size <= file_size
    <2>1. pc \notin {"begin", "open", "driver", "handle", "teardown", "report", "end"}
      BY <1>1 DEF MicroInv, MainInv, Running
    <2>2. pc \in {"begin", "open", "driver", "handle", "spawn", "join", "teardown", "report", "end"}
      BY DEF MicroInv, MicroShape
    <2> QED BY <2>1, <2>2 DEF PlacesInv
  <1>3. Workers' = Workers /\ io_size' = io_size
    BY <1>1 DEF Workers, io_size
  <1>4. /\ file_size \in Nat /\ Shift \in Nat /\ cfg.requests \in Nat /\ io_size \in Nat
        /\ next \in [Workers -> Nat] /\ batchEnd \in [Workers -> Nat] /\ cfg.qd \in Nat
        /\ atError \in [Workers -> Nat] /\ moved \in Nat
    BY ConfigFacts, MicrobenchAssumption DEF MicroInv, MicroShape, PlacesInv
  <1>5. \A u \in Workers : next[u] <= cfg.requests
    <2> SUFFICES ASSUME NEW u \in Workers PROVE next[u] <= cfg.requests
      OBVIOUS
    <2>1. CASE wpc[u] = "none"
      BY <1>4, <2>1 DEF MicroInv, WorkerInv, NotBegun
    <2>2. CASE wpc[u] # "none"
      BY <1>4, <2>2, SharesEnd DEF CompleteInv, ShareInv
    <2> QED BY <2>1, <2>2
  <1>6. moved' \in Nat
    <2>1. CASE Read(t)
      BY <1>4, <2>1 DEF Read
    <2>2. CASE ~Read(t)
      BY <1>4, <2>2 DEF Worker, Alloc, Register, Batch, Record, BeginError, EndError, Check,
                        FreeBuffers, sharedVars
    <2> QED BY <2>1, <2>2
  <1>7. off' \in [Workers -> 0 .. file_size + Shift]
    <2>1. CASE Batch(t)
      BY <1>2, <1>4, <2>1, OffsetsInFile DEF Batch, PlacesInv
    <2>2. CASE Record(t)
      <3>1. next'[t] = next[t] + 1 /\ next'[t] \in Nat
        BY <1>4, <2>2 DEF Record
      <3> QED BY <1>2, <2>2, <3>1, OffsetsInFile DEF Record, PlacesInv
    <2>3. CASE ~Batch(t) /\ ~Record(t)
      BY <2>3 DEF Worker, Alloc, Register, Read, BeginError, EndError, Check, FreeBuffers, PlacesInv
    <2> QED BY <2>1, <2>2, <2>3
  <1>8. \A u \in Workers : batchEnd'[u] <= cfg.requests
    <2>1. CASE Batch(t)
      BY <1>4, <2>1, SharesEnd DEF Batch, PlacesInv
    <2>2. CASE ~Batch(t)
      BY <2>2 DEF Worker, Alloc, Register, Read, Record, BeginError, EndError, Check,
                  FreeBuffers, PlacesInv
    <2> QED BY <2>1, <2>2
  <1>9. \A u \in Workers : atError'[u] <= cfg.requests
    <2>1. CASE EndError(t)
      BY <1>5, <2>1 DEF EndError, PlacesInv
    <2>2. CASE ~EndError(t)
      BY <2>2 DEF Worker, Alloc, Register, Batch, Read, Record, BeginError, Check,
                  FreeBuffers, sharedVars, PlacesInv
    <2> QED BY <2>1, <2>2
  <1> QED BY <1>1, <1>2, <1>3, <1>6, <1>7, <1>8, <1>9 DEF PlacesInv

LEMMA PlacesInductive == MicroInv /\ CompleteInv /\ PlacesInv /\ [Next]_vars => PlacesInv'
  <1> SUFFICES ASSUME MicroInv, CompleteInv, PlacesInv, [Next]_vars PROVE PlacesInv'
    OBVIOUS
  <1>1. CASE UNCHANGED vars
    BY <1>1 DEF vars, mainVars, sharedVars, workerVars, PlacesInv, Workers, io_size
  <1> QED BY <1>1, PlacesMain, PlacesWorker DEF Next

\* The fields keep their types: no worker ever counts past the last request, and
\* no offset leads past the end of the file, but for the shift of the unaligned
\* mode.
THEOREM MicroTypes == Spec => []MicroTypeOK
  <1>1. MicroInv /\ CompleteInv /\ PlacesInv => MicroTypeOK
    <2> SUFFICES ASSUME MicroInv, CompleteInv, PlacesInv PROVE MicroTypeOK
      OBVIOUS
    <2>1. /\ cfg.requests \in Nat /\ io_size \in Nat /\ next \in [Workers -> Nat]
          /\ batchEnd \in [Workers -> Nat] /\ atError \in [Workers -> Nat]
      BY ConfigFacts DEF MicroInv, MicroShape
    <2>2. \A t \in Workers : next[t] <= cfg.requests
      <3> SUFFICES ASSUME NEW t \in Workers PROVE next[t] <= cfg.requests
        OBVIOUS
      <3>1. CASE wpc[t] = "none"
        BY <2>1, <3>1 DEF MicroInv, WorkerInv, NotBegun
      <3>2. CASE wpc[t] # "none"
        BY <2>1, <3>2, SharesEnd DEF CompleteInv, ShareInv
      <3> QED BY <3>1, <3>2
    <2>3. {next, batchEnd, atError} \subseteq [Workers -> 0 .. cfg.requests]
      BY <2>1, <2>2 DEF PlacesInv
    <2>4. lat_mu \in Workers \cup {NoOne}
      BY DEF CompleteInv, ResultInv
    <2>5. lat_us \in [Requests -> Nat]
      BY DEF CompleteInv, CountInv
    <2>6. total_bytes \in Nat
      <3>1. IsFiniteSet(Requests)
        BY <2>1, FS_Interval DEF Requests
      <3>2. Cardinality(Done) \in Nat
        BY <3>1, FS_Subset, FS_CardinalityType DEF Done
      <3> QED BY <2>1, <3>2 DEF CompleteInv, CountInv
    <2>7. host_buf \subseteq Workers
      BY DEF MicroInv, BuffersInv
    <2> QED BY <2>3, <2>4, <2>5, <2>6, <2>7 DEF MicroInv, MicroShape, PlacesInv, MicroTypeOK, Labels
  <1> QED BY <1>1, MicroInvHolds, CompleteInit, CompleteInductive, PlacesInit, PlacesInductive,
             PTL DEF Spec
-----------------------------------------------------------------------------
\* The percentiles of the latencies a case reports.
\* The indices are in the vector.
LEMMA IndexInVector ==
    ASSUME NEW n \in Nat \ {0}, NEW pct \in 0 .. 100
    PROVE  /\ Idx(n, pct) \in Nat /\ Low(n, pct) \in 0 .. n - 1 /\ High(n, pct) \in 0 .. n - 1
           /\ Frac(n, pct) \in 0 .. 99
           /\ Idx(n, pct) = Low(n, pct) * 100 + Frac(n, pct)
           /\ Low(n, pct) <= High(n, pct)
           /\ Frac(n, pct) # 0 => High(n, pct) = Low(n, pct) + 1
  <1> DEFINE m == n - 1
             idx == pct * m
             lo == idx \div 100
             frac == idx % 100
  <1>1. m \in Nat /\ idx \in Nat
    OBVIOUS
  <1>2. idx <= 100 * m
    BY <1>1
  <1>3. idx = Idx(n, pct) /\ lo = Low(n, pct) /\ frac = Frac(n, pct)
    BY DEF Idx, Low, Frac
  <1> HIDE DEF idx
  <1>4. lo \in Nat /\ frac \in 0 .. 99 /\ idx = lo * 100 + frac
    BY <1>1
  <1> HIDE DEF lo, frac
  <1>5. lo <= m /\ (frac # 0 => lo + 1 <= m)
    BY <1>1, <1>2, <1>4
  <1> QED BY <1>1, <1>3, <1>4, <1>5 DEF High

\* The two programs compute the same percentiles.
THEOREM PercentilesAgree ==
    ASSUME NEW n \in Nat \ {0}, NEW pct \in 0 .. 100, NEW v \in [0 .. n - 1 -> Nat]
    PROVE  PercentileUs(v, n, pct) = Percentile(v, n, pct)
  <1>1. CASE Frac(n, pct) = 0
    <2>1. v[Low(n, pct)] \in Nat /\ v[High(n, pct)] \in Nat
      <3>1. Low(n, pct) \in 0 .. n - 1 /\ High(n, pct) \in 0 .. n - 1
        BY IndexInVector, Zenon
      <3> QED BY <3>1
    <2> QED BY <1>1, <2>1 DEF PercentileUs, Percentile, Between
  <1>2. CASE Frac(n, pct) # 0
    <2>1. Low(n, pct) \in 0 .. n - 1 /\ (Frac(n, pct) # 0 => High(n, pct) = Low(n, pct) + 1)
      BY IndexInVector, Zenon
    <2>2. High(n, pct) = Low(n, pct) + 1 /\ Low(n, pct) # Low(n, pct) + 1
      BY <1>2, <2>1
    <2> QED BY <1>2, <2>2 DEF PercentileUs, Percentile
  <1> QED BY <1>1, <1>2

\* The interpolation lies between its two ends, and grows with its fraction.
LEMMA InterpolationBounds ==
    ASSUME NEW a \in Nat, NEW b \in Nat, a <= b, NEW f \in 0 .. 100, NEW g \in 0 .. 100, f <= g
    PROVE  /\ Between(a, b, f) \in Nat
           /\ a * 100 <= Between(a, b, f)
           /\ Between(a, b, f) <= b * 100
           /\ Between(a, b, f) <= Between(a, b, g)
  <1> DEFINE d == b - a
  <1>1. d \in Nat /\ b = a + d
    OBVIOUS
  <1> HIDE DEF d
  <1>2. \A h \in 0 .. 100 : Between(a, b, h) = a * 100 + d * h
    BY <1>1 DEF Between
  <1>3. d * f \in Nat /\ d * g \in Nat /\ d * 100 \in Nat
    BY <1>1
  <1>4. d * f <= d * g
    <2>1. g = f + (g - f) /\ g - f \in Nat
      OBVIOUS
    <2>2. d * g = d * f + d * (g - f) /\ d * (g - f) \in Nat
      BY <1>1, <2>1
    <2> QED BY <1>3, <2>2
  <1>5. d * f <= d * 100
    <2>1. d * 100 = d * f + d * (100 - f) /\ d * (100 - f) \in Nat
      BY <1>1
    <2> QED BY <1>3, <2>1
  <1> QED BY <1>1, <1>2, <1>3, <1>4, <1>5

\* A percentile lies between the two values it is interpolated from.
LEMMA PercentileBetween ==
    ASSUME NEW n \in Nat \ {0}, NEW v \in [0 .. n - 1 -> Nat], Sorted(v, n),
           NEW pct \in 0 .. 100
    PROVE  /\ Percentile(v, n, pct) \in Nat
           /\ v[0] * 100 <= Percentile(v, n, pct)
           /\ v[Low(n, pct)] * 100 <= Percentile(v, n, pct)
           /\ Percentile(v, n, pct) <= v[High(n, pct)] * 100
           /\ Percentile(v, n, pct) <= v[n - 1] * 100
  <1> DEFINE lo == Low(n, pct)
             hi == High(n, pct)
             frac == Frac(n, pct)
             result == Between(v[lo], v[hi], frac)
  <1>1. lo \in 0 .. n - 1 /\ hi \in 0 .. n - 1 /\ lo <= hi /\ frac \in 0 .. 99
    BY IndexInVector, Zenon
  <1>2. Percentile(v, n, pct) = result
    BY DEF Percentile
  <1> HIDE DEF lo, hi, frac
  <1>3. 0 \in 0 .. n - 1 /\ n - 1 \in 0 .. n - 1
    OBVIOUS
  <1>4. v[0] \in Nat /\ v[lo] \in Nat /\ v[hi] \in Nat /\ v[n - 1] \in Nat
    BY <1>1, <1>3
  <1>5. v[0] <= v[lo] /\ v[lo] <= v[hi] /\ v[hi] <= v[n - 1]
    BY <1>1, <1>3 DEF Sorted
  <1>6. frac \in 0 .. 100 /\ frac <= frac
    BY <1>1
  <1>7. result \in Nat /\ v[lo] * 100 <= result /\ result <= v[hi] * 100
    BY <1>4, <1>5, <1>6, InterpolationBounds, Zenon
  <1> HIDE DEF result
  <1>8. v[0] * 100 <= result /\ result <= v[n - 1] * 100
    BY <1>4, <1>5, <1>7
  <1> QED BY <1>2, <1>7, <1>8, Zenon DEF lo, hi

\* A percentile is a value between the smallest and the largest latency, and a
\* higher percentile is not smaller: p50 <= p95 <= p99.
THEOREM PercentilesOrdered ==
    ASSUME NEW n \in Nat \ {0}, NEW v \in [0 .. n - 1 -> Nat], Sorted(v, n),
           NEW p \in 0 .. 100, NEW q \in 0 .. 100, p <= q
    PROVE  /\ v[0] * 100 <= Percentile(v, n, p)
           /\ Percentile(v, n, p) <= Percentile(v, n, q)
           /\ Percentile(v, n, q) <= v[n - 1] * 100
  <1> DEFINE low == Low(n, p)
             high == High(n, p)
             frac == Frac(n, p)
             idx == Idx(n, p)
             low2 == Low(n, q)
             high2 == High(n, q)
             frac2 == Frac(n, q)
             idx2 == Idx(n, q)
             first == Percentile(v, n, p)
             second == Percentile(v, n, q)
  <1>1. /\ low \in 0 .. n - 1 /\ high \in 0 .. n - 1 /\ frac \in 0 .. 99
        /\ idx \in Nat /\ idx = low * 100 + frac
    BY IndexInVector, Zenon
  <1>2. /\ low2 \in 0 .. n - 1 /\ high2 \in 0 .. n - 1 /\ frac2 \in 0 .. 99
        /\ idx2 \in Nat /\ idx2 = low2 * 100 + frac2 /\ low2 <= high2
    BY IndexInVector, Zenon
  <1>3. idx <= idx2
    <2> DEFINE m == n - 1
    <2>1. m \in Nat /\ q - p \in Nat
      OBVIOUS
    <2> HIDE DEF m
    <2>2. (q - p) * m \in Nat /\ p * m \in Nat /\ q * m = p * m + (q - p) * m
      BY <2>1
    <2>3. p * m <= q * m
      BY <2>2
    <2> QED BY <2>3 DEF Idx, m
  <1>4. /\ high = IF low + 1 < n - 1 THEN low + 1 ELSE n - 1
        /\ low = low2 => high = high2
    BY DEF High
  <1>5. /\ first = Between(v[low], v[high], frac)
        /\ second = Between(v[low2], v[high2], frac2)
    BY DEF Percentile
  <1>6. /\ first \in Nat /\ v[0] * 100 <= first /\ first <= v[high] * 100
        /\ second \in Nat /\ v[low2] * 100 <= second /\ second <= v[n - 1] * 100
    BY PercentileBetween, Zenon
  <1> HIDE DEF low, high, frac, idx, low2, high2, frac2, idx2
  <1>7. low <= low2 /\ (low = low2 => frac <= frac2)
    BY <1>1, <1>2, <1>3
  <1>8. CASE low < low2
    <2>1. high <= low2
      BY <1>1, <1>2, <1>4, <1>8
    <2>2. v[high] <= v[low2] /\ v[high] \in Nat /\ v[low2] \in Nat
      BY <1>1, <1>2, <2>1 DEF Sorted
    <2> HIDE DEF first, second
    <2>3. v[high] * 100 <= v[low2] * 100
      BY <2>2
    <2>4. first <= second
      BY <1>6, <2>2, <2>3
    <2> QED BY <1>6, <2>4, Zenon DEF first, second
  <1>9. CASE low = low2
    <2>1. v[low2] <= v[high2] /\ v[low2] \in Nat /\ v[high2] \in Nat
      BY <1>2 DEF Sorted
    <2>2. frac \in 0 .. 100 /\ frac2 \in 0 .. 100 /\ frac <= frac2
      BY <1>1, <1>2, <1>7, <1>9
    <2>3. Between(v[low2], v[high2], frac) <= Between(v[low2], v[high2], frac2)
      BY <2>1, <2>2, InterpolationBounds, Zenon
    <2>4. first <= second
      BY <1>4, <1>5, <1>9, <2>3, Zenon
    <2> QED BY <1>6, <2>4, Zenon
  <1>10. low < low2 \/ low = low2
    BY <1>1, <1>2, <1>7
  <1> QED BY <1>8, <1>9, <1>10
=============================================================================
