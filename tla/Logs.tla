-------------------------------- MODULE Logs --------------------------------
(***************************************************************************)
(* A process that logs with one of two classes: a ThreadPool whose threads *)
(* write lines to a LogNonCache (cl_log.hpp), or the main threads of the   *)
(* process and of a child it forks, with a LogCache (cl_log_cache.cpp).    *)
(* The two share nothing, so a behaviour has only one of them.             *)
(*                                                                         *)
(* A line of LogNonCache is built piece by piece in the log's one buffer,  *)
(* under its mutex, and written by one write.  LogCache keeps up to        *)
(* MaxLoop lines in memory and writes each with a write of its own.  Both  *)
(* files are opened with O_APPEND.  A write brings the whole line to the   *)
(* file, or a piece of it, or it fails (a full disk, a signal):            *)
(* LogNonCache tells its caller, LogCache does not look.  A line is        *)
(* <<writer, n>>; its text and time are left out, and the cut of one that  *)
(* is too long.                                                            *)
(***************************************************************************)
EXTENDS Naturals, Sequences, SequencesExt, FiniteSets

CONSTANTS PoolSize,   \* _poolSize of the pool
          MaxLine,    \* bound: lines each thread logs
          MaxCached,  \* bound: lines each process logs with LogCache
          MaxLoop,    \* max_loop: lines LogCache keeps
          Level       \* the severities, numbers

ASSUME LogsAssumption == /\ PoolSize \in Nat /\ MaxLine \in Nat /\ MaxCached \in Nat
                         /\ MaxLoop \in Nat \ {0} /\ Level \subseteq Nat /\ Level # {}

Thread == 1 .. PoolSize
Process == {"parent", "child"}

VARIABLES uses,      \* LogNonCache or LogCache
          level,     \* _level of the LogNonCache
          owner,     \* the thread that holds its _mutex, 0 if none
          destBuf,   \* its _destBuf: whose prefix it holds, and whose message
          file,      \* what is in its file: of each line prefix, message and whether it is whole
          joinable,  \* _joinable of the pool
          started,   \* how many of its threads run
          main,      \* where the main thread is in Start and Join
          status,    \* _status of each Thread object
          doing,     \* where each thread of the pool is
          line,      \* the line each of them logs
          said,      \* history: what each call of its Write and WriteVerbose returned
          alive,     \* each process: unborn, running, exited or killed
          cache,     \* the lines the LogCache of each process holds
          next,      \* the one its Flush writes next, 0 outside of Flush
          cached,    \* how many lines each process logged with it
          leaving,   \* the destructor of the LogCache runs
          inherited, \* history: the lines in the cache when the child was forked
          tried,     \* history: the lines each gave to write, and what became of them
          written    \* what is of each process in its file

nonCacheVars == <<uses, level, owner, destBuf, file>>
poolVars == <<joinable, started, main, status, doing, line, said>>
cacheVars == <<alive, cache, next, cached, leaving, inherited, tried, written>>
logsVars == <<nonCacheVars, poolVars, cacheVars>>

NoLine == <<0, 0>>

\* What write does with a line, and what a file has then.
Outcome == {"whole", "short", "failed"}
Reaches(f, x, result) == IF result = "failed" THEN f ELSE Append(f, x)

NonCacheInit == level \in Level /\ owner = 0 /\ destBuf = <<NoLine, NoLine>> /\ file = <<>>

\* The constructor of Thread.
ThreadInit ==
    /\ status = [t \in Thread |-> "NEW"]
    /\ doing = [t \in Thread |-> "none"]
    /\ line = [t \in Thread |-> NoLine]
    /\ said = [t \in Thread |-> <<>>]

PoolInit == joinable \in BOOLEAN /\ started = 0 /\ main = "new" /\ ThreadInit

\* The constructor of LogCache, Init and AllocBuf.
CacheInit ==
    /\ alive = [p \in Process |-> IF p = "parent" THEN "running" ELSE "unborn"]
    /\ cache = [p \in Process |-> <<>>]
    /\ next = [p \in Process |-> 0]
    /\ cached = [p \in Process |-> 0]
    /\ leaving = [p \in Process |-> FALSE]
    /\ inherited = <<>>
    /\ tried = [p \in Process |-> <<>>] /\ written = [p \in Process |-> <<>>]

LogsInit ==
    /\ uses \in {"LogNonCache", "LogCache"}
    /\ NonCacheInit /\ PoolInit /\ CacheInit
    /\ uses = "LogCache" => joinable /\ \A l \in Level : level <= l

------------------------------------------------------------------------------
(* ThreadPool: Start and Join, by the main thread of the parent. *)

MainAt(place) == uses = "LogNonCache" /\ alive["parent"] = "running" /\ main = place

\* Detach comes before Start: pthread_detach of a thread that does not exist yet.
DetachFirst ==
    /\ MainAt("new") /\ ~joinable
    /\ main' = "crashed"
    /\ alive' = [alive EXCEPT !["parent"] = "killed"]
    /\ UNCHANGED <<nonCacheVars, joinable, started, status, doing, line, said, cache, next, cached,
                   leaving, inherited, tried, written>>

\* pthread_create: the new thread runs before _status is written.
Create ==
    /\ MainAt("new") /\ joinable /\ started < PoolSize
    /\ started' = started + 1
    /\ doing' = [doing EXCEPT ![started'] = "run"]
    /\ main' = "created"
    /\ UNCHANGED <<nonCacheVars, joinable, status, line, said, cacheVars>>

SetStatus ==
    /\ MainAt("created")
    /\ status' = [status EXCEPT ![started] = "UNBLOCKED"]
    /\ main' = IF started = PoolSize THEN "started" ELSE "new"
    /\ UNCHANGED <<nonCacheVars, joinable, started, doing, line, said, cacheVars>>

\* pthread_create fails: Start throws, the threads before go on.
CreateFails ==
    /\ MainAt("new") /\ joinable
    /\ main' = "threw"
    /\ UNCHANGED <<nonCacheVars, joinable, started, status, doing, line, said, cacheVars>>

\* Seeded fault: Join returns when one thread has ended.
JoinOne ==
    /\ MainAt("started")
    /\ \E t \in Thread : doing[t] = "done"
    /\ main' = "joined"
    /\ UNCHANGED <<nonCacheVars, joinable, started, status, doing, line, said, cacheVars>>

\* pthread_join returns.
Joined(t) == doing[t] = "done"

\* Join waits for one thread after the other.
Join ==
    /\ MainAt("started")
    /\ \A t \in Thread : Joined(t)
    /\ main' = "joined"
    /\ UNCHANGED <<nonCacheVars, joinable, started, status, doing, line, said, cacheVars>>

\* SetLevel, by the main thread, without the mutex.
SetLevel ==
    /\ MainAt("new") \/ MainAt("started")
    /\ level' \in Level \ {level}
    /\ UNCHANGED <<uses, owner, destBuf, file, poolVars, cacheVars>>

------------------------------------------------------------------------------
(* LogNonCache::Write and WriteVerbose, in the threads of the pool. *)

Goes(t, place) == doing' = [doing EXCEPT ![t] = place]

\* While the process is there its threads run.
ThreadAt(t, place) == alive["parent"] = "running" /\ doing[t] = place

\* The level is compared, and the time read, without the mutex.
Write(t) ==
    /\ ThreadAt(t, "run") /\ line[t][2] < MaxLine
    /\ line' = [line EXCEPT ![t] = <<t, @[2] + 1>>]
    /\ \E severity \in Level :
         IF severity < level
         THEN said' = [said EXCEPT ![t] = Append(@, "below")] /\ UNCHANGED doing
         ELSE said' = [said EXCEPT ![t] = Append(@, "calling")] /\ Goes(t, "lock")
    /\ UNCHANGED <<nonCacheVars, joinable, started, main, status, cacheVars>>

\* Seeded fault: FakeMutex for the mutex.
LockBufferFake(t) ==
    /\ ThreadAt(t, "lock")
    /\ owner' = t
    /\ destBuf' = <<NoLine, NoLine>>
    /\ Goes(t, "prefix")
    /\ UNCHANGED <<uses, level, file, joinable, started, main, status, line, said, cacheVars>>

LockBuffer(t) ==
    /\ ThreadAt(t, "lock") /\ owner = 0
    /\ owner' = t
    /\ destBuf' = <<NoLine, NoLine>>
    /\ Goes(t, "prefix")
    /\ UNCHANGED <<uses, level, file, joinable, started, main, status, line, said, cacheVars>>

Prefix(t) ==
    /\ ThreadAt(t, "prefix")
    /\ destBuf' = [destBuf EXCEPT ![1] = line[t]]
    /\ Goes(t, "message")
    /\ UNCHANGED <<uses, level, owner, file, joinable, started, main, status, line, said, cacheVars>>

Message(t) ==
    /\ ThreadAt(t, "message")
    /\ destBuf' = [destBuf EXCEPT ![2] = line[t]]
    /\ Goes(t, "write")
    /\ UNCHANGED <<uses, level, owner, file, joinable, started, main, status, line, said, cacheVars>>

\* The call returns what write returned.
WriteOut(t) ==
    /\ ThreadAt(t, "write")
    /\ \E result \in Outcome :
         /\ file' = Reaches(file, <<destBuf[1], destBuf[2], result>>, result)
         /\ said' = [said EXCEPT ![t][line[t][2]] = result]
    /\ owner' = 0
    /\ Goes(t, "run")
    /\ UNCHANGED <<uses, level, destBuf, joinable, started, main, status, line, cacheVars>>

\* Run returns, and ThreadProc.
ThreadEnds(t) ==
    /\ ThreadAt(t, "run")
    /\ Goes(t, "done")
    /\ UNCHANGED <<nonCacheVars, joinable, started, main, status, line, said, cacheVars>>

------------------------------------------------------------------------------
(* LogCache, in the main thread of each process. *)

Free(p) == uses = "LogCache" /\ alive[p] = "running" /\ next[p] = 0 /\ ~leaving[p]

\* Write: with the last place taken it ends in Flush.  What SetLevel keeps out is
\* not logged at all.
CacheWrite(p) ==
    /\ Free(p) /\ cached[p] < MaxCached
    /\ cached' = [cached EXCEPT ![p] = @ + 1]
    /\ cache' = [cache EXCEPT ![p] = Append(@, <<p, cached'[p]>>)]
    /\ next' = [next EXCEPT ![p] = IF Len(cache'[p]) = MaxLoop THEN 1 ELSE 0]
    /\ UNCHANGED <<nonCacheVars, poolVars, alive, leaving, inherited, tried, written>>

Flush(p) ==
    /\ Free(p) /\ cache[p] # <<>>
    /\ next' = [next EXCEPT ![p] = 1]
    /\ UNCHANGED <<nonCacheVars, poolVars, alive, cache, cached, leaving, inherited, tried, written>>

\* What write returns is not looked at.
LineTried(p, l) ==
    \E result \in Outcome :
        /\ tried' = [tried EXCEPT ![p] = Append(@, <<l, result>>)]
        /\ written' = [written EXCEPT ![p] = Reaches(@, <<l, result>>, result)]

\* Seeded fault: _currentLoop is not reset.
FlushLineKeeps(p) ==
    /\ alive[p] = "running" /\ next[p] > 0
    /\ LineTried(p, cache[p][next[p]])
    /\ next' = [next EXCEPT ![p] = IF next[p] = Len(cache[p]) THEN 0 ELSE @ + 1]
    /\ UNCHANGED <<nonCacheVars, poolVars, alive, cache, cached, leaving, inherited>>

\* One turn of Flush's loop; behind it _currentLoop is set to 0.
FlushLine(p) ==
    /\ alive[p] = "running" /\ next[p] > 0
    /\ LineTried(p, cache[p][next[p]])
    /\ LET last == next[p] = Len(cache[p])
       IN /\ next' = [next EXCEPT ![p] = IF last THEN 0 ELSE @ + 1]
          /\ cache' = IF last THEN [cache EXCEPT ![p] = <<>>] ELSE cache
    /\ UNCHANGED <<nonCacheVars, poolVars, alive, cached, leaving, inherited>>

\* main returns, or exit is called: the destructor of logcacheobj begins.
Leave(p) ==
    /\ Free(p)
    /\ leaving' = [leaving EXCEPT ![p] = TRUE]
    /\ next' = [next EXCEPT ![p] = IF cache[p] = <<>> THEN 0 ELSE 1]
    /\ UNCHANGED <<nonCacheVars, poolVars, alive, cache, cached, inherited, tried, written>>

\* It has flushed, syncs and closes the file, and the process ends.
Exit(p) ==
    /\ alive[p] = "running" /\ leaving[p] /\ next[p] = 0
    /\ alive' = [alive EXCEPT ![p] = "exited"]
    /\ UNCHANGED <<nonCacheVars, poolVars, cache, next, cached, leaving, inherited, tried, written>>

\* fork: the child has the parent's cache, and no thread but the one that forked.
Fork ==
    /\ Free("parent") /\ alive["child"] = "unborn"
    /\ alive' = [alive EXCEPT !["child"] = "running"]
    /\ cache' = [cache EXCEPT !["child"] = cache["parent"]]
    /\ inherited' = cache["parent"]
    /\ UNCHANGED <<nonCacheVars, poolVars, next, cached, leaving, tried, written>>

KillProcess(p) ==
    /\ alive[p] = "running"
    /\ alive' = [alive EXCEPT ![p] = "killed"]
    /\ UNCHANGED <<nonCacheVars, poolVars, cache, next, cached, leaving, inherited, tried, written>>

------------------------------------------------------------------------------

MainStep == DetachFirst \/ Create \/ SetStatus \/ CreateFails \/ Join
ThreadStep(t) == LockBuffer(t) \/ Prefix(t) \/ Message(t) \/ WriteOut(t)

LogsNext ==
    \/ MainStep \/ SetLevel \/ Fork
    \/ \E t \in Thread : ThreadStep(t) \/ Write(t) \/ ThreadEnds(t)
    \/ \E p \in Process : CacheWrite(p) \/ Flush(p) \/ FlushLine(p) \/ Leave(p) \/ Exit(p) \/ KillProcess(p)

LogsSpec == LogsInit /\ [][LogsNext]_logsVars

------------------------------------------------------------------------------
(* Properties. *)

\* Every line in the file, or the piece of it that is there, has the prefix and the
\* message of one call, and that call returned so; the lines of each thread are there in
\* the order in which it logged them, each once.
LinesWhole ==
    /\ \A i \in 1 .. Len(file) :
         LET t == file[i][1][1]
             n == file[i][1][2]
         IN /\ file[i][1] = file[i][2]
            /\ t \in Thread /\ n \in 1 .. Len(said[t]) /\ said[t][n] = file[i][3]
    /\ \A i, j \in 1 .. Len(file) :
         i < j /\ file[i][1][1] = file[j][1][1] => file[i][1][2] < file[j][1][2]

\* When Join has returned, each object of the pool says that it was started, and every
\* line of its threads is in the file, but those that were below the level and those whose
\* caller was told that the write failed.
JoinSeesAll ==
    main = "joined" =>
        \A t \in Thread :
            /\ status[t] = "UNBLOCKED"
            /\ \A n \in 1 .. Len(said[t]) :
                 \/ said[t][n] \in {"below", "failed"}
                 \/ \E i \in 1 .. Len(file) : file[i] = <<<<t, n>>, <<t, n>>, said[t][n]>>

\* The lines process p logged, behind those its cache held when it was forked.
Lines(p) == (IF p = "child" THEN inherited ELSE <<>>) \o [i \in 1 .. cached[p] |-> <<p, i>>]

\* The writes of which something came to the file, and how many there are up to the k-th.
Reached(writes) == {k \in 1 .. Len(writes) : writes[k][2] # "failed"}
Rank(writes, k) == Cardinality({j \in Reached(writes) : j <= k})

\* A process gives its lines to write in their order and each once, all but the ones in
\* its cache, and what is in the file are those whose write did not fail, in this order.
\* (What was in the cache at the fork is written by both processes.)
CacheInOrder ==
    \A p \in Process :
        /\ Len(tried[p]) + Len(cache[p]) = Len(Lines(p)) + (IF next[p] > 0 THEN next[p] - 1 ELSE 0)
        /\ \A k \in 1 .. Len(tried[p]) : tried[p][k][1] = Lines(p)[k]
        /\ Len(written[p]) = Cardinality(Reached(tried[p]))
        /\ \A k \in Reached(tried[p]) : written[p][Rank(tried[p], k)] = tried[p][k]

\* The lines of p that are not whole in the file though no write of them failed or was short.
Lost(p) ==
    {k \in 1 .. Len(Lines(p)) :
        /\ k > Len(tried[p]) \/ tried[p][k][2] = "whole"
        /\ ~ \E i \in 1 .. Len(written[p]) : written[p][i] = <<Lines(p)[k], "whole">>}

\* A process that ends has lost only lines whose write failed or was short, and nobody was
\* told of those; one that is killed has lost its last ones, too, not more than MaxLoop.
LossBounded ==
    \A p \in Process : /\ alive[p] = "exited" => Lost(p) = {}
                       /\ \A k \in Lost(p) : k + MaxLoop > Len(Lines(p))

\* Threads and mutex agree, and a process writes its lines in order and loses at most
\* what its cache held and what write did not take.
LogsOK ==
    /\ level \in Level /\ owner \in Thread \cup {0}
    /\ \A t \in Thread : owner = t <=> doing[t] \in {"prefix", "message", "write"}
    /\ \A t \in Thread : doing[t] # "none" <=> t <= started
    /\ \A p \in Process : Len(cache[p]) <= MaxLoop /\ next[p] <= Len(cache[p])
    /\ CacheInOrder /\ LossBounded
=============================================================================
