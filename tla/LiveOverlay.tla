------------------------------ MODULE LiveOverlay ------------------------------
(***************************************************************************)
(* Live shards (src/runner/src/live_overlay.cpp): guest code that runs in  *)
(* the Tier-3 interpreter is filed, a compiler child turns what was filed  *)
(* into shared libraries, and the libraries become dispatch banks while    *)
(* the game runs.  Four parties share the state:                           *)
(*   - the emulation thread: the guest, and live_overlay_poll_now in the   *)
(*     pieces that other threads can observe (pc);                         *)
(*   - the prepare worker, which loads one library at a time;              *)
(*   - the maintenance worker, which reads the log of a finished compiler, *)
(*     walks the cache and spawns the next compiler;                       *)
(*   - the compiler child, and other programs sharing the cache.           *)
(*                                                                         *)
(* A shard is a file of the cache.  Shard[s] is what loading it shows: the *)
(* generation of the guest page it was compiled from (the page's bytes),   *)
(* its rows, its backend tier, its candidate and content identities, and   *)
(* whether it loads ("ok"), fails a load check ("bad") or was produced by  *)
(* another code generator ("foreign").  One guest page is modelled; what   *)
(* it holds now is `scene'.  The launch delay is over (or waived by a      *)
(* persisted backlog); a cooldown that has not run out is a schedule that  *)
(* does not happen at this poll.                                           *)
(***************************************************************************)
EXTENDS Naturals, Sequences, FiniteSets

CONSTANTS Shards, Shard, Gens,
          Compiled,      \* the shards the local compiler can produce
          Launches,      \* how a session may start: the shard cache it finds,
                         \* and the bounds on scene changes, debug resets,
                         \* failing loads of sound libraries, compiler runs
                         \* and outstanding triggers
          kDormantMaxAttempts, kDormantMaxCandidates,
          MaxRuns,       \* bound: compiler children spawned in any session
          None

Runs == 1..MaxRuns
Rows == UNION {Shard[s].rows : s \in Shards}

\* The answer of the maintenance worker that has spawned run r.
Spawned(r) == [kind |-> "start", ok |-> TRUE, run |-> r]

ASSUME LiveOverlayAssumption ==
  /\ IsFiniteSet(Shards)
  /\ \A s \in Shards : /\ Shard[s].gen \in Gens
                       /\ Shard[s].kind \in {"ok", "bad", "foreign"}
                       /\ Shard[s].tier \in Nat
                       /\ Shard[s].rows # {}
  /\ None \notin Shards \cup Runs
  /\ \A r \in Runs : None # [kind |-> "done", res |-> Spawned(r)]
  /\ \A l \in Launches : l.cache \subseteq Shards
  /\ Compiled \subseteq Shards
  /\ kDormantMaxAttempts \in Nat \ {0}
  /\ kDormantMaxCandidates \in Nat \ {0}

VARIABLES
  pc,           \* where the emulation thread is
  scene,        \* the generation resident in the guest page
  filed,        \* generations in the coverage store, the compiler's work list
  loaded,       \* banks adopted so far (g_live.loaded)
  registered,   \* those whose rows are in the dispatch index
  superseded,   \* those retired and unloaded
  files,        \* libraries in the scanned part of the cache
  queued,       \* queued_paths
  prepQ, loading, ready, errors, prepFlag,     \* the prepare worker
  dormant, attempts, requeued,                 \* dormant candidates
  jobs, working, results, maintFlag,           \* the maintenance worker
  startPending, finishPending,
  child,        \* the compiler the emulation thread knows of
  procs, log, snap,   \* the compiler processes themselves
  asked,        \* trigger_requests - runs_started
  genPending, suppressed,
  runWatch, runQueued, runLoads, runRejects,      \* the run being watched
  stopping, ended,                             \* teardown
  lost,         \* sound shards the code gave up on for the session
  budget        \* what is left of the launch's bounds

guest == <<scene, filed>>
banks == <<loaded, registered, superseded>>
prep  == <<prepQ, loading, ready, errors, prepFlag>>
dorm  == <<dormant, attempts, requeued>>
maint == <<jobs, working, results, maintFlag, startPending, finishPending>>
comp  == <<child, procs, log, snap>>
sched == <<asked, genPending, suppressed>>
watch == <<runWatch, runQueued, runLoads, runRejects>>
stop  == <<stopping, ended>>

vars == <<pc, guest, banks, files, queued, prep, dorm, maint, comp, sched,
          watch, stop, lost, budget>>

-----------------------------------------------------------------------------
(* Small helpers.                                                          *)

SeqSet(q) == {q[i] : i \in DOMAIN q}

\* A set of files in some order.
Orders(S) == {q \in [1..Cardinality(S) -> S] : SeqSet(q) = S}

\* The order of the cache walk: best backend first, and within one backend
\* that of the files' ages, which is left open.
CacheOrders(S) ==
  {q \in Orders(S) : \A i, j \in DOMAIN q :
                       i < j => Shard[q[i]].tier >= Shard[q[j]].tier}

\* drop_already_queued, and what enqueue_candidate refuses.
Fresh(S) == S \ queued

\* bank_guard_bytes_live: the code the bank was compiled from is resident.
GuardBytesLive(s) == Shard[s].gen = scene

\* A row the dispatcher would select now: registered and live-valid.
Served(r) == \E s \in registered : GuardBytesLive(s) /\ r \in Shard[s].rows

Covers(a, b) == Shard[b].rows \subseteq Shard[a].rows

SameGeneration(s, others) == {o \in others : Shard[o].gen = Shard[s].gen}

SameCandidate(s) == {o \in loaded : Shard[o].cand = Shard[s].cand}

-----------------------------------------------------------------------------
(* Launch: configure, then register_cached_banks walks the cache before    *)
(* the first frame.  A persisted backlog asks for a compile at once.       *)
Init ==
  /\ pc = "guest"
  /\ scene \in Gens /\ filed = {}
  /\ loaded = {} /\ registered = {} /\ superseded = {}
  /\ budget \in Launches
  /\ files = budget.cache
  /\ queued = files
  /\ prepQ \in CacheOrders(files)
  /\ loading = None /\ ready = <<>> /\ errors = <<>> /\ prepFlag = FALSE
  /\ dormant = {} /\ requeued = {} /\ attempts = [s \in Shards |-> 0]
  /\ jobs = <<>> /\ working = None /\ results = <<>> /\ maintFlag = FALSE
  /\ startPending = FALSE /\ finishPending = FALSE
  /\ child = None
  /\ procs = [r \in Runs |-> "none"]
  /\ log = [r \in Runs |-> {}]
  /\ snap = [r \in Runs |-> {}]
  /\ asked = 0 /\ suppressed = FALSE
  /\ genPending = FALSE
  /\ runWatch = FALSE /\ runQueued = 0 /\ runLoads = FALSE /\ runRejects = 0
  /\ stopping = {} /\ ended = {}
  /\ lost = {}

-----------------------------------------------------------------------------
(* The guest.                                                              *)

\* The game loads other code into the page.
SceneChange ==
  /\ pc = "guest" /\ budget.scenes > 0
  /\ \E g \in Gens \ {scene} : scene' = g
  /\ budget' = [budget EXCEPT !.scenes = @ - 1]
  /\ UNCHANGED <<pc, filed, banks, files, queued, prep, dorm, maint, comp,
                 sched, watch, stop, lost>>

\* requeue_dormant_for: every dormant record of the page not yet requeued
\* goes straight back on the prepare queue, in the order of the table.
Requeue ==
  /\ \E again \in Orders(dormant \ requeued) : prepQ' = prepQ \o again
  /\ requeued' = requeued \cup dormant

\* nds_tier3_file_decision: a dormant record withholds the filing, and so
\* does a live bank (excluded by the guard of Tier3Entry).
FilesUnlessSeen == queued = {}
Files == dormant = {}

\* tier3_run is entered in the page: no live row serves the address.
Tier3Entry ==
  /\ pc = "guest"
  /\ \E r \in Rows : ~Served(r)
  /\ Requeue
  /\ filed' = IF Files THEN filed \cup {scene} ELSE filed
  /\ UNCHANGED <<pc, scene, banks, files, queued, loading, ready,
                 errors, prepFlag, dormant, attempts, maint, comp, sched,
                 watch, stop, lost, budget>>

\* request_generation_compile, from the interpreted-instruction threshold of
\* note_tier3 or from a stale row met by note_lookup.
RequestCompile ==
  /\ pc = "guest" /\ ~genPending
  /\ \E r \in Rows : ~Served(r)
  /\ genPending' = TRUE
  /\ UNCHANGED <<pc, guest, banks, files, queued, prep, dorm, maint, comp,
                 asked, suppressed, watch, stop,
                 lost, budget>>

\* A debug reset: runtime_init empties the dispatch index, runtime_reset the
\* registration bits, and register_cached_banks walks the cache and registers
\* every bank that was not retired.
Reset ==
  /\ pc = "guest" /\ budget.resets > 0
  /\ budget' = [budget EXCEPT !.resets = @ - 1]
  /\ \E found \in CacheOrders(Fresh(files)) : prepQ' = prepQ \o found
  /\ queued' = queued \cup files
  /\ registered' = loaded \ superseded
  /\ UNCHANGED <<pc, guest, loaded, superseded, files, loading, ready,
                 errors, prepFlag, dorm, maint, comp, sched, watch,
                 stop, lost>>

-----------------------------------------------------------------------------
(* The prepare worker.                                                     *)

PrepareTake ==
  /\ "prepare" \notin ended /\ loading = None /\ prepQ # <<>>
  /\ loading' = Head(prepQ)
  /\ prepQ' = Tail(prepQ)
  /\ UNCHANGED <<pc, guest, banks, files, queued, ready, errors, prepFlag,
                 dorm, maint, comp, sched, watch, stop, lost,
                 budget>>

\* preflight_live_bank and validate_live_bank_info.
PassesPreflight(s) == Shard[s].kind = "ok"

\* prepare_bank_dll accepted it: the flag is stored under the same lock as
\* the queue it announces.
PrepareOk ==
  /\ loading # None /\ PassesPreflight(loading)
  /\ ready' = Append(ready, loading)
  /\ loading' = None /\ prepFlag' = TRUE
  /\ UNCHANGED <<pc, guest, banks, files, queued, prepQ, errors, dorm, maint,
                 comp, sched, watch, stop, lost, budget>>

\* quarantine_shard: a library of another code generator is moved aside when
\* the file system lets it.
Quarantine(s) ==
  \/ UNCHANGED files
  \/ Shard[s].kind = "foreign" /\ files' = files \ {s}

\* The codegen gate, the metadata checks or the loader refused it.
PrepareError ==
  /\ loading # None
  /\ \/ ~PassesPreflight(loading) /\ UNCHANGED <<lost, budget>>
     \/ /\ PassesPreflight(loading) /\ budget.failures > 0
        /\ budget' = [budget EXCEPT !.failures = @ - 1]
        /\ lost' = lost \cup {loading}
  /\ Quarantine(loading)
  /\ errors' = Append(errors, loading)
  /\ loading' = None /\ prepFlag' = TRUE
  /\ UNCHANGED <<pc, guest, banks, queued, prepQ, ready, dorm, maint, comp,
                 sched, watch, stop>>

PrepareEnd ==
  /\ "prepare" \in stopping \ ended /\ loading = None /\ prepQ = <<>>
  /\ ended' = ended \cup {"prepare"}
  /\ UNCHANGED <<pc, guest, banks, files, queued, prep, dorm, maint, comp,
                 sched, watch, stopping, lost, budget>>

-----------------------------------------------------------------------------
(* live_overlay_poll_now, in the steps the workers can come between.       *)

\* The exchange on maint_results_ready claims one drain of the results.
ClaimResults ==
  /\ pc' = IF maintFlag THEN "results" ELSE "tail"
  /\ maintFlag' = FALSE

\* The exchange on prepare_results_ready; with nothing to drain the poll goes
\* straight on to the maintenance results.
ClaimPrepared ==
  \/ prepFlag /\ pc' = "drain" /\ prepFlag' = FALSE /\ UNCHANGED maintFlag
  \/ ~prepFlag /\ ClaimResults /\ UNCHANGED prepFlag

PollStart ==
  /\ pc = "guest"
  /\ ClaimPrepared
  /\ UNCHANGED <<guest, banks, files, queued, prepQ, loading, ready, errors,
                 dorm, jobs, working, results, startPending, finishPending,
                 comp, sched, watch, stop, lost, budget>>

\* live_overlay_trigger_now: lift the suppression, ask, and poll at once.
TriggerNow ==
  /\ pc = "guest" /\ asked < budget.triggers
  /\ suppressed' = FALSE
  /\ asked' = asked + 1
  /\ ClaimPrepared
  /\ UNCHANGED <<guest, banks, files, queued, prepQ, loading, ready, errors,
                 dorm, jobs, working, results, startPending, finishPending,
                 comp, genPending, watch, stop, lost, budget>>

\* What the drain leaves in the flag, stored under the queue mutex.
More(errs, rdy) == errs # <<>> \/ rdy # <<>>

\* A row is only ever retired by a bank that covers every row of its owner
\* and is not a worse backend.
RetiredWholesale(s) == SameGeneration(s, registered)
Retired(s) == {o \in SameGeneration(s, registered) :
                 Covers(s, o) /\ Shard[s].tier >= Shard[o].tier}

\* ++banks_rejected, as far as the watched run can see it.
Rejects(n) == runRejects' = IF runWatch THEN runRejects + n ELSE 0

\* commit_prepared_bank.  rejected: what the same drain already counted.
Commit(s, rejected) ==
  \/ \* the candidate is resident (or was, and is retired)
     /\ SameCandidate(s) # {}
     /\ Rejects(rejected + IF \E o \in SameCandidate(s) :
                                 Shard[o].content # Shard[s].content
                            THEN 1 ELSE 0)
     /\ UNCHANGED <<banks, runLoads>>
  \/ \* a resident bank of the generation covers it: nothing to add
     /\ SameCandidate(s) = {}
     /\ \E o \in SameGeneration(s, registered) : Covers(o, s)
     /\ Rejects(rejected)
     /\ UNCHANGED <<banks, runLoads>>
  \/ /\ SameCandidate(s) = {}
     /\ ~ \E o \in SameGeneration(s, registered) : Covers(o, s)
     /\ superseded' = superseded \cup Retired(s)
     /\ registered' = (registered \ Retired(s)) \cup {s}
     /\ loaded' = loaded \cup {s}
     /\ runLoads' = runWatch
     /\ Rejects(rejected)

\* Parking drops the record and the queued_paths key together.
ParkedKey(s) == {s}

Recorded(s) == s \in dormant

\* The record of s is erased (parked, or about to be adopted).
Forget(s) ==
  /\ dormant' = dormant \ {s}
  /\ attempts' = [attempts EXCEPT ![s] = 0]
  /\ requeued' = requeued \ {s}

\* candidate.requeued = false: the record may be given another look.
AnotherLook(s) == requeued \ {s}

\* note_dormant_candidate.  Past the table's capacity nothing is recorded.
NoteDormant(s) ==
  \/ /\ Recorded(s) \/ Cardinality(dormant) < kDormantMaxCandidates
     /\ attempts[s] + 1 >= kDormantMaxAttempts
     /\ Forget(s)
     /\ queued' = queued \ ParkedKey(s)
     /\ UNCHANGED lost
  \/ /\ Recorded(s) \/ Cardinality(dormant) < kDormantMaxCandidates
     /\ attempts[s] + 1 < kDormantMaxAttempts
     /\ dormant' = dormant \cup {s}
     /\ attempts' = [attempts EXCEPT ![s] = @ + 1]
     /\ requeued' = AnotherLook(s)
     /\ UNCHANGED <<queued, lost>>
  \/ /\ ~Recorded(s) /\ Cardinality(dormant) >= kDormantMaxCandidates
     /\ lost' = lost \cup {s}
     /\ UNCHANGED <<dorm, queued>>

\* admit_prepared_bank.
Admit(s, rejected) ==
  \/ /\ ~GuardBytesLive(s)
     /\ NoteDormant(s)
     /\ Rejects(rejected)
     /\ UNCHANGED <<banks, runLoads>>
  \/ /\ GuardBytesLive(s)
     /\ Forget(s)
     /\ Commit(s, rejected)
     /\ UNCHANGED <<queued, lost>>

\* commit_one_ready_bank: at most one error and one bank per poll.
PollDrain ==
  /\ pc = "drain"
  /\ LET errs == IF errors = <<>> THEN errors ELSE Tail(errors)
         rdy  == IF ready = <<>> THEN ready ELSE Tail(ready)
         rejected == IF errors = <<>> THEN 0 ELSE 1
     IN  /\ errors' = errs /\ ready' = rdy
         /\ prepFlag' = More(errs, rdy)
         /\ IF ready # <<>> THEN Admit(Head(ready), rejected)
            ELSE /\ Rejects(rejected)
                 /\ UNCHANGED <<banks, queued, dorm, runLoads, lost>>
  /\ pc' = "maint"
  /\ UNCHANGED <<guest, files, prepQ, loading, maint, comp, sched, runWatch,
                 runQueued, stop, budget>>

PollMaint ==
  /\ pc = "maint"
  /\ ClaimResults
  /\ UNCHANGED <<guest, banks, files, queued, prep, dorm, jobs, working,
                 results, startPending, finishPending, comp, sched, watch,
                 stop, lost, budget>>

\* apply_run_finished: the marks are taken before the run's shards are
\* queued, in the order of its log; then the walk's finds are queued too.
ApplyRunFinished(res) ==
  \E own \in Orders(Fresh(res.published)) :
  \E walk \in CacheOrders(Fresh(res.rescan) \ res.published) :
      /\ finishPending' = FALSE
      /\ runLoads' = FALSE /\ runRejects' = 0
      /\ runQueued' = Len(own)
      /\ runWatch' = (res.total # 0)
      /\ prepQ' = prepQ \o own \o walk
      /\ queued' = queued \cup res.published \cup res.rescan
      /\ genPending' = (genPending \/ (res.ok /\ res.pending /\ res.total # 0))
      /\ UNCHANGED <<asked, startPending, child>>

\* apply_start_child: a failed start spends the request.
ApplyStartChild(res) ==
  /\ startPending' = FALSE
  /\ child' = IF res.ok THEN res.run ELSE child
  /\ asked' = IF res.ok THEN asked - 1 ELSE 0
  /\ UNCHANGED <<finishPending, watch, prepQ, queued, genPending>>

\* drain_maintenance_results.  The pipeline never has two results waiting
\* (OneJob below); the head is applied.
PollResults ==
  /\ pc = "results" /\ results # <<>>
  /\ \/ Head(results).kind = "finish" /\ ApplyRunFinished(Head(results))
     \/ Head(results).kind = "start" /\ ApplyStartChild(Head(results))
  /\ results' = Tail(results)
  /\ pc' = "tail"
  /\ UNCHANGED <<guest, banks, files, loading, ready, errors, prepFlag, dorm,
                 jobs, working, maintFlag, procs, log, snap, suppressed,
                 stop, lost, budget>>

PipelineIdle ==
  prepQ = <<>> /\ ready = <<>> /\ errors = <<>> /\ loading = None

Futile == ~runLoads /\ runQueued # 0 /\ runRejects = runQueued

\* evaluate_run_futility: the run's shards have all been looked at.
VerdictDue == ~finishPending /\ runWatch /\ PipelineIdle /\ child = None

Verdict ==
  \/ /\ VerdictDue
     /\ runWatch' = FALSE /\ runQueued' = 0 /\ runLoads' = FALSE
     /\ runRejects' = 0
     /\ suppressed' = (suppressed \/ Futile)
  \/ ~VerdictDue /\ UNCHANGED <<watch, suppressed>>

\* waitpid found the child gone: queue_run_finished.  The exit status and
\* whether work is left are the child's to report; its log is the job's now.
Reap(ok, pending) ==
  [kind |-> "finish", log |-> log[child], ok |-> ok, pending |-> pending]

\* Never past a start or a completion the worker still owes an answer for.
MayStart(finish) == ~startPending /\ ~finish

\* schedule_pending_compile, once the delays have elapsed.
SchedulesNow == genPending /\ ~suppressed' /\ asked = 0

\* The rest of the poll: the verdict, the child's exit, the cadence
\* (schedule_pending_compile, when the delays have elapsed) and the start.
PollTail ==
  /\ pc = "tail"
  /\ Verdict
  /\ \E elapsed, ok, pending \in BOOLEAN :
       LET exited == child # None /\ procs[child] = "exited"
           now    == elapsed /\ SchedulesNow
           want   == IF now THEN 1 ELSE asked
           finish == finishPending \/ exited
           free   == child = None \/ exited
           start  == free /\ MayStart(finish) /\ want > 0
       IN  /\ ~exited => ok /\ pending
           /\ child' = IF exited THEN None ELSE child
           /\ finishPending' = finish
           /\ genPending' = (genPending /\ ~now)
           /\ asked' = want
           /\ startPending' = (startPending \/ start)
           /\ log' = [r \in Runs |-> IF exited /\ r = child THEN {} ELSE log[r]]
           /\ snap' = [r \in Runs |-> IF exited /\ r = child THEN {} ELSE snap[r]]
           /\ jobs' = jobs
                \o (IF exited THEN <<Reap(ok, pending)>> ELSE <<>>)
                \o (IF start THEN <<[kind |-> "start", snap |-> filed]>>
                             ELSE <<>>)
  /\ pc' = "guest"
  /\ UNCHANGED <<guest, banks, files, queued, prep, dorm, working, results,
                 maintFlag, procs, stop, lost, budget>>

-----------------------------------------------------------------------------
(* The maintenance worker: one job at a time, in order.                    *)

MaintTake ==
  /\ "maint" \notin ended \cup stopping /\ working = None /\ jobs # <<>>
  /\ working' = Head(jobs) /\ jobs' = Tail(jobs)
  /\ UNCHANGED <<pc, guest, banks, files, queued, prep, dorm, results,
                 maintFlag, startPending, finishPending, comp, sched, watch, stop, lost, budget>>

\* published_paths_from_log: the libraries the run names, filtered.
PublishedPaths(named) == Fresh(named)

\* run_finished_job: the log, then the walk of the cache.
MaintReadLog ==
  /\ working # None /\ working.kind = "finish"
  /\ working' = [kind |-> "done",
                 res |-> [kind |-> "finish", ok |-> working.ok,
                          pending |-> working.pending,
                          total |-> Cardinality(working.log),
                          published |-> PublishedPaths(working.log),
                          rescan |-> Fresh(files)]]
  /\ UNCHANGED <<pc, guest, banks, files, queued, prep, dorm, jobs, results,
                 maintFlag, startPending, finishPending, comp, sched, watch, stop, lost, budget>>

\* start_child_job: the manifest is written before the child exists.
MaintSpawn ==
  /\ working # None /\ working.kind = "start"
  /\ \E r \in Runs :
       /\ r <= budget.runs
       /\ procs[r] = "none" /\ \A q \in Runs : q < r => procs[q] # "none"
       /\ procs' = [procs EXCEPT ![r] = "running"]
       /\ snap' = [snap EXCEPT ![r] = working.snap]
       /\ working' = [kind |-> "done", res |-> Spawned(r)]
  /\ UNCHANGED <<pc, guest, banks, files, queued, prep, dorm, jobs, results,
                 maintFlag, startPending, finishPending, child, log, sched,
                 watch, stop, lost, budget>>

\* ... and any step of it may fail.
MaintSpawnFails ==
  /\ working # None /\ working.kind = "start"
  /\ working' = [kind |-> "done", res |-> [kind |-> "start", ok |-> FALSE]]
  /\ UNCHANGED <<pc, guest, banks, files, queued, prep, dorm, jobs, results,
                 maintFlag, startPending, finishPending, comp, sched, watch, stop, lost, budget>>

MaintPublish ==
  /\ working # None /\ working.kind = "done"
  /\ results' = Append(results, working.res)
  /\ working' = None /\ maintFlag' = TRUE
  /\ UNCHANGED <<pc, guest, banks, files, queued, prep, dorm, jobs,
                 startPending, finishPending, comp, sched, watch, stop,
                 lost, budget>>

\* Teardown abandons queued work.
MaintEnd ==
  /\ "maint" \in stopping \ ended /\ working = None
  /\ ended' = ended \cup {"maint"}
  /\ UNCHANGED <<pc, guest, banks, files, queued, prep, dorm, maint, comp,
                 sched, watch, stopping, lost, budget>>

-----------------------------------------------------------------------------
(* External: the compiler child (tools/compile_live_shards.py), as the     *)
(* runner sees it.  It renames libraries into the cache, names each one in *)
(* its log, new or already there, and exits.                               *)
ChildPublish ==
  \E r \in Runs, s \in Shards :
    /\ procs[r] = "running"
    /\ s \in Compiled /\ Shard[s].gen \in snap[r] /\ s \notin log[r]
    /\ files' = files \cup {s}
    /\ log' = [log EXCEPT ![r] = @ \cup {s}]
    /\ UNCHANGED <<pc, guest, banks, queued, prep, dorm, maint, child, procs,
                   snap, sched, watch, stop, lost, budget>>

ChildExit ==
  \E r \in Runs :
    /\ procs[r] = "running"
    /\ procs' = [procs EXCEPT ![r] = "exited"]
    /\ UNCHANGED <<pc, guest, banks, files, queued, prep, dorm, maint, child,
                   log, snap, sched, watch, stop, lost, budget>>

-----------------------------------------------------------------------------
(* live_overlay_shutdown, at exit.                                         *)

\* maint_stop, prepare_stop, and the notification that goes with each.
AskMaintOnly(w) == stopping' = stopping \cup ({w} \cap {"maint"})
AskToStop(w) == stopping' = stopping \cup {w}

Shutdown ==
  /\ pc = "guest"
  /\ AskToStop("maint")
  /\ pc' = "joinMaint"
  /\ UNCHANGED <<guest, banks, files, queued, prep, dorm, maint, comp, sched,
                 watch, ended, lost, budget>>

\* The maintenance worker has been joined: children still in a result and the
\* one we know of are killed and reaped, the prepare worker is told to stop.
KilledKnownOnly == {r \in Runs : r = child}
Killed == {r \in Runs : r = child} \cup
          {results[i].run : i \in {j \in DOMAIN results :
                                     results[j].kind = "start" /\ results[j].ok}}

ShutdownKill ==
  /\ pc = "joinMaint" /\ "maint" \in ended
  /\ procs' = [r \in Runs |-> IF r \in Killed THEN "exited" ELSE procs[r]]
  /\ child' = None
  /\ jobs' = <<>> /\ results' = <<>> /\ maintFlag' = FALSE
  /\ startPending' = FALSE /\ finishPending' = FALSE
  /\ AskToStop("prepare")
  /\ prepQ' = <<>>
  /\ dormant' = {} /\ requeued' = {}
  /\ attempts' = [s \in Shards |-> 0]
  /\ pc' = "joinPrepare"
  /\ UNCHANGED <<guest, banks, files, queued, loading, ready, errors,
                 prepFlag, working, log, snap, sched, watch, ended,
                 lost, budget>>

ShutdownEnd ==
  /\ pc = "joinPrepare" /\ "prepare" \in ended
  /\ ready' = <<>> /\ errors' = <<>> /\ prepFlag' = FALSE
  /\ pc' = "stopped"
  /\ UNCHANGED <<guest, banks, files, queued, prepQ, loading, dorm, maint,
                 comp, sched, watch, stop, lost, budget>>

-----------------------------------------------------------------------------
Poll == PollStart \/ PollDrain \/ PollMaint \/ PollResults \/ PollTail
Prepare == PrepareTake \/ PrepareOk \/ PrepareError \/ PrepareEnd
Maintain == \/ MaintTake \/ MaintReadLog \/ MaintSpawn \/ MaintSpawnFails
            \/ MaintPublish \/ MaintEnd
Teardown == Shutdown \/ ShutdownKill \/ ShutdownEnd

Next == \/ SceneChange \/ Tier3Entry \/ RequestCompile \/ Reset
        \/ TriggerNow \/ Poll \/ Prepare \/ Maintain
        \/ ChildPublish \/ ChildExit \/ Teardown

(* The scheduler polls for ever, the workers run when they have work, and a *)
(* guest whose page stays in the interpreter keeps entering it there.      *)
Fairness ==
  /\ WF_vars(Poll) /\ SF_vars(Tier3Entry)
  /\ WF_vars(Prepare) /\ WF_vars(Maintain)
  /\ WF_vars(ShutdownKill) /\ WF_vars(ShutdownEnd)

Spec == Init /\ [][Next]_vars /\ Fairness

-----------------------------------------------------------------------------
(* Properties.                                                             *)

\* A result the workers left behind is always announced, or the emulation
\* thread is on its way to it: neither exchange of the poll, nor the store
\* that follows the drain, can bury one (prepare_results_ready and
\* maint_results_ready).
NoStrandedResult ==
  /\ ready # <<>> \/ errors # <<>> => prepFlag \/ pc = "drain"
  /\ results # <<>> => maintFlag \/ pc = "results"

\* One compiler at a time, and none outlives the session, whatever the
\* maintenance worker was doing when the emulation thread asked it to stop.
OneCompiler ==
  /\ Cardinality({r \in Runs : procs[r] = "running"}) <= 1
  /\ pc = "stopped" => \A r \in Runs : procs[r] # "running"

\* A start is never commissioned past an answer the worker still owes: at
\* most one job is anywhere in the maintenance pipeline.
OneJob == Len(jobs) + Len(results) + (IF working = None THEN 0 ELSE 1) <= 1

\* One compiler and one commissioned job at a time, and none left at the end.
OneAtATime == OneCompiler /\ OneJob

\* Adopting, superseding, declining and resetting never lose a row: every
\* row of every bank ever adopted is still registered, for its generation,
\* by a bank whose library is loaded.
RowsKept ==
  \A s \in loaded : \A r \in Shard[s].rows :
    \E o \in registered : /\ o \notin superseded
                          /\ Shard[o].gen = Shard[s].gen
                          /\ r \in Shard[o].rows

InPipeline(s) == s \in SeqSet(prepQ) \cup SeqSet(ready) \cup SeqSet(errors)
                 \/ s = loading

\* Parking leaves nothing behind: a library whose path is known as seen, and
\* that could load, is on its way, waiting as a dormant candidate, or its rows
\* are registered.  Otherwise the compiler republishes the same path for ever
\* and no one ever loads it.  A failed load and a full table are the two ways
\* the code itself gives a shard up.
SeenIsAccounted ==
  \A s \in queued \ lost : Shard[s].kind = "ok" /\ stopping = {} =>
    \/ InPipeline(s) \/ Recorded(s)
    \/ \E o \in registered : Shard[o].gen = Shard[s].gen
    \/ SameCandidate(s) # {}

\* A dormant record waiting for its second look is on its way to it, unless
\* the second load failed.
RequeuedIsInFlight == \A s \in requeued \ lost : InPipeline(s)

\* Nothing the workers made is lost: no result, library or candidate is left
\* where no step of the poll, the prepare worker or the maintenance worker will
\* look at it again, and no registered row disappears.
NothingLost ==
  NoStrandedResult /\ RowsKept /\ SeenIsAccounted /\ RequeuedIsInFlight

\* Withholding the filing of a page because a shard of it is dormant ends:
\* code that stays resident and keeps entering the interpreter is either
\* served or filed for the compiler, as long as no shard was given up.
WithheldWorkIsFiled ==
  \A g \in Gens :
    (<>[](/\ scene = g /\ stopping = {} /\ lost = {}
          /\ \E r \in Rows : ~Served(r)))
       => <>(g \in filed)

\* Teardown terminates.
ShutdownReturns == (stopping # {}) ~> (pc = "stopped")

=============================================================================
