---------------------------- MODULE GRoutePlanner ----------------------------
(***************************************************************************)
(* The route planners of groute, the C++ one and the Python one, and       *)
(* Runtime::read, which tries the cuFile backend and falls back to the     *)
(* POSIX one.  Functions of their arguments: Runtime keeps nothing from    *)
(* one read to the next but the last plan.                                 *)
(***************************************************************************)
EXTENDS Integers

\* RoutePlanner::plan, of PlannerConfig, FileMetadata and IORequest.
Plan(cfg, meta, req) ==
    IF /\ cfg.cufile_available
       /\ meta.supports_direct_io
       /\ req.size >= cfg.cufile_min_io_size
       /\ ~(meta.likely_hot_in_page_cache /\ req.pattern = "sequential")
    THEN "cufile" ELSE "posix"

\* RoutePlanner.plan in Python, which is not told the pattern.
PythonPlan(cfg, io_size, supports_direct_io, cache_hot) ==
    IF /\ cfg.cufile_available
       /\ supports_direct_io
       /\ io_size >= cfg.cufile_min_io_size
       /\ ~cache_hot
    THEN "cufile" ELSE "posix"

\* The IOResult of PosixBackend::read, of what open and pread answer.  Fewer
\* bytes than asked for, or none, are ok.
PosixRead(opened, n) == [ok |-> opened /\ n >= 0, bytes |-> IF opened /\ n >= 0 THEN n ELSE 0]

\* That of CuFileStubBackend::read.
StubRead == [ok |-> FALSE, bytes |-> 0]

\* Runtime::read, of the plan and the results of the two backends.
RuntimeRead(plan, cufile, posix) == IF plan = "cufile" /\ cufile.ok THEN cufile ELSE posix
-----------------------------------------------------------------------------
Configs == [cufile_available : BOOLEAN, cufile_min_io_size : 0 .. 2]

Metas == [supports_direct_io : BOOLEAN, likely_hot_in_page_cache : BOOLEAN]

Requests == [size : 0 .. 3, pattern : {"sequential", "random"}]

\* The two planners choose the same path but for a random read of a file that is
\* hot in the page cache, which only the C++ one may send to cuFile.
PlannersAgree ==
    \A cfg \in Configs, meta \in Metas, req \in Requests :
        LET cpp    == Plan(cfg, meta, req)
            python == PythonPlan(cfg, req.size, meta.supports_direct_io,
                                 meta.likely_hot_in_page_cache)
        IN  cpp # python <=>
                /\ cpp = "cufile" /\ python = "posix"
                /\ meta.likely_hot_in_page_cache /\ req.pattern = "random"
                /\ PythonPlan(cfg, req.size, meta.supports_direct_io, FALSE) = "cufile"

\* With the stub a read answers what the POSIX backend does, whatever the plan.
FallbackAnswersLikePosix ==
    \A cfg \in Configs, meta \in Metas, req \in Requests, opened \in BOOLEAN, n \in -1 .. 3 :
        RuntimeRead(Plan(cfg, meta, req), StubRead, PosixRead(opened, n)) = PosixRead(opened, n)
=============================================================================
