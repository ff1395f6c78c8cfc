---------------------------- MODULE LiveOverlay_proofs ----------------------------
(***************************************************************************)
(* Proofs about LiveOverlay for every shard table, launch and number of    *)
(* compiler runs: the pipeline of the maintenance worker, the compiler     *)
(* children it spawns, the two result flags and the registered rows.       *)
(***************************************************************************)
EXTENDS LiveOverlay, FiniteSetTheorems, TLAPS

(* The request an item of the maintenance pipeline answers: each job, and  *)
(* each answer made of it, belongs to the one flag that is still raised.   *)
Due(item) == \/ item.kind = "start" /\ startPending
             \/ item.kind = "finish" /\ finishPending

WorkingDue == IF working.kind = "done" THEN Due(working.res) ELSE Due(working)

(* The pipeline holds one item at most: queued, with the worker, or        *)
(* answered.                                                               *)
Pipeline ==
  \/ jobs = <<>> /\ results = <<>> /\ (working # None => WorkingDue)
  \/ working = None /\ results = <<>> /\ jobs # <<>>
     /\ jobs = <<Head(jobs)>> /\ Due(Head(jobs))
  \/ working = None /\ jobs = <<>> /\ results # <<>>
     /\ results = <<Head(results)>> /\ Due(Head(results))

(* While an answer is owed no compiler is known, and only one is owed.     *)
OneOwed == /\ startPending \in BOOLEAN /\ finishPending \in BOOLEAN
           /\ ~(startPending /\ finishPending)
           /\ startPending \/ finishPending => child = None

(* Who can find run r: the emulation thread, the worker that has just      *)
(* spawned it, or whoever reads the answer that names it.                  *)
Names(item, r) == item.kind = "start" /\ item.ok /\ item.run = r
Found(r) ==
  \/ r = child
  \/ working # None /\ working.kind = "done" /\ Names(working.res, r)
  \/ results # <<>> /\ Names(Head(results), r)

Children == /\ procs \in [Runs -> {"none", "running", "exited"}]
            /\ \A r \in Runs : procs[r] = "running" => Found(r)

(* Once the maintenance worker is joined and its answers are drained       *)
(* nothing runs, and nothing can start.                                    *)
Stopped ==
  /\ "maint" \in ended => working = None
  /\ pc \in {"joinPrepare", "stopped"} =>
       /\ "maint" \in ended
       /\ \A r \in Runs : procs[r] # "running"

CompilerInv == Pipeline /\ OneOwed /\ Children /\ Stopped

(* Registration, adoption and supersession agree.                          *)
BanksAgree == superseded \subseteq loaded /\ registered = loaded \ superseded
BanksInv == BanksAgree /\ RowsKept

(* What travels between the workers is made of shards, and a child that is *)
(* known is a run.                                                         *)
JobTyped(j) == j.kind = "finish" => j.log \subseteq Shards
AnswerTyped(a) ==
  /\ a.kind = "finish" => a.published \subseteq Shards /\ a.rescan \subseteq Shards
  /\ a.kind = "start" /\ a.ok => a.run \in Runs

PrepTyped ==
  /\ files \cup queued \cup dormant \cup requeued \subseteq Shards
  /\ prepQ \in Seq(Shards) /\ ready \in Seq(Shards) /\ errors \in Seq(Shards)
  /\ loading \in Shards \cup {None}

MaintTyped ==
  /\ log \in [Runs -> SUBSET Shards]
  /\ child \in Runs \cup {None}
  /\ jobs # <<>> => JobTyped(Head(jobs))
  /\ working # None => IF working.kind = "done" THEN AnswerTyped(working.res)
                                              ELSE JobTyped(working)
  /\ results # <<>> => AnswerTyped(Head(results))

(* Only a library that loaded becomes a bank or a dormant record, and only *)
(* one that did not becomes an error.                                      *)
Verdicts ==
  /\ \A s \in SeqSet(ready) \cup dormant \cup requeued : Shard[s].kind = "ok"
  /\ \A s \in SeqSet(errors) : Shard[s].kind # "ok" \/ s \in lost

(* A worker ends when told to, and by then no record waits for a look.     *)
Ends == /\ ended \subseteq stopping
        /\ pc \in {"joinPrepare", "stopped"} => requeued = {}

ShardsInv == PrepTyped /\ MaintTyped /\ Verdicts /\ Ends
             /\ SeenIsAccounted /\ RequeuedIsInFlight

-----------------------------------------------------------------------------
(* Sequences of at most one item.                                          *)

LEMMA OneItem ==
  ASSUME NEW x
  PROVE  /\ <<x>> # <<>> /\ Len(<<x>>) = 1 /\ Head(<<x>>) = x
         /\ Tail(<<x>>) = <<>> /\ Append(<<>>, x) = <<x>>
         /\ <<>> \o <<x>> = <<x>> /\ <<x>> \o <<>> = <<x>>
PROOF OBVIOUS

LEMMA NoItem == <<>> \o <<>> = <<>> /\ Len(<<>>) = 0
PROOF OBVIOUS

-----------------------------------------------------------------------------
(* The compiler children.                                                  *)

LEMMA CompilerInit == Init => CompilerInv
PROOF
<1> SUFFICES ASSUME Init PROVE CompilerInv
  OBVIOUS
<1>1. Pipeline /\ OneOwed
  BY DEF Init, Pipeline, OneOwed
<1>2. Children
  BY DEF Init, Children
<1>3. Stopped
  BY DEF Init, Stopped
<1> QED BY <1>1, <1>2, <1>3 DEF CompilerInv

(* A step outside the pipeline that starts nothing and does not end the    *)
(* session.                                                                *)
Outside ==
  /\ UNCHANGED <<jobs, working, results, startPending, finishPending, child,
                 procs>>
  /\ "maint" \in ended' <=> "maint" \in ended
  /\ pc' \in {"joinPrepare", "stopped"} => pc \in {"joinPrepare", "stopped"}

LEMMA OutsideKeeps == CompilerInv /\ Outside => CompilerInv'
PROOF
<1> SUFFICES ASSUME CompilerInv, Outside PROVE CompilerInv'
  OBVIOUS
<1> USE DEF Outside
<1>1. Pipeline'
  BY DEF CompilerInv, Pipeline, WorkingDue, Due
<1>2. OneOwed'
  BY DEF CompilerInv, OneOwed
<1>3. Children'
  BY DEF CompilerInv, Children, Found, Names
<1>4. Stopped'
  BY DEF CompilerInv, Stopped
<1> QED BY <1>1, <1>2, <1>3, <1>4 DEF CompilerInv

LEMMA OutsideSteps ==
  (\/ SceneChange \/ Tier3Entry \/ RequestCompile \/ Reset \/ TriggerNow
   \/ PollStart \/ PollDrain \/ PollMaint \/ Prepare \/ ChildPublish
   \/ Shutdown \/ ShutdownEnd \/ UNCHANGED vars)
     => Outside
PROOF
<1> USE DEF Outside
<1>1. SceneChange => Outside
  BY DEF SceneChange, maint, comp, stop
<1>2. Tier3Entry => Outside
  BY DEF Tier3Entry, maint, comp, stop
<1>3. RequestCompile => Outside
  BY DEF RequestCompile, maint, comp, stop
<1>4. Reset => Outside
  BY DEF Reset, maint, comp, stop
<1>5. TriggerNow => Outside
  BY DEF TriggerNow, ClaimPrepared, ClaimResults, comp, stop
<1>6. PollStart => Outside
  BY DEF PollStart, ClaimPrepared, ClaimResults, comp, stop
<1>7. PollDrain => Outside
  BY DEF PollDrain, maint, comp, stop
<1>8. PollMaint => Outside
  BY DEF PollMaint, ClaimResults, comp, stop
<1>9. Prepare => Outside
  BY DEF Prepare, PrepareTake, PrepareOk, PrepareError, PrepareEnd, maint, comp, stop
<1>10. ChildPublish => Outside
  BY DEF ChildPublish, maint, stop
<1>11. Shutdown => Outside
  BY DEF Shutdown, maint, comp
<1>12. ShutdownEnd => Outside
  BY DEF ShutdownEnd, maint, comp, stop
<1>13. UNCHANGED vars => Outside
  BY DEF vars, maint, comp, stop
<1> QED BY <1>1, <1>2, <1>3, <1>4, <1>5, <1>6, <1>7, <1>8, <1>9, <1>10,
           <1>11, <1>12, <1>13

LEMMA TakeKeeps == CompilerInv /\ MaintTake => CompilerInv'
PROOF
<1> SUFFICES ASSUME CompilerInv, MaintTake PROVE CompilerInv'
  OBVIOUS
<1> DEFINE j == Head(jobs)
<1>1. /\ working = None /\ results = <<>> /\ jobs = <<j>>
      /\ j.kind # "done" /\ Due(j)
  BY DEF CompilerInv, Pipeline, MaintTake, Due
<1>2. /\ working' = j /\ jobs' = <<>> /\ results' = <<>>
      /\ UNCHANGED <<startPending, finishPending, child, procs, ended, pc>>
      /\ "maint" \notin ended
  BY <1>1, OneItem DEF MaintTake, comp, stop
<1>3. Pipeline'
  BY <1>1, <1>2 DEF Pipeline, WorkingDue, Due
<1>4. OneOwed'
  BY <1>2 DEF CompilerInv, OneOwed
<1>5. Children'
  BY <1>1, <1>2 DEF CompilerInv, Children, Found
<1>6. Stopped'
  BY <1>2 DEF CompilerInv, Stopped
<1> QED BY <1>3, <1>4, <1>5, <1>6 DEF CompilerInv

(* The worker replaces its job by the answer to it: the request stays      *)
(* raised, and a child it spawned can be found through the answer.         *)
LEMMA AnswerKeeps ==
  ASSUME CompilerInv, NEW res, working # None, working.kind # "done",
         res.kind = working.kind,
         working' = [kind |-> "done", res |-> res],
         UNCHANGED <<jobs, results, startPending, finishPending, child, ended, pc>>,
         \/ procs' = procs
         \/ \E r \in Runs : /\ procs' = [procs EXCEPT ![r] = "running"]
                            /\ Names(res, r) /\ working' # None
  PROVE  CompilerInv'
PROOF
<1>1. /\ jobs = <<>> /\ results = <<>> /\ Due(working)
      /\ pc \notin {"joinPrepare", "stopped"} /\ "maint" \notin ended
  BY DEF CompilerInv, Pipeline, WorkingDue, Stopped
<1>2. working'.kind = "done" /\ working'.res = res
  OBVIOUS
<1>3. Pipeline'
  BY <1>1, <1>2 DEF Pipeline, WorkingDue, Due
<1>4. OneOwed'
  BY DEF CompilerInv, OneOwed
<1>5. Children'
  <2>1. procs' \in [Runs -> {"none", "running", "exited"}]
    BY DEF CompilerInv, Children
  <2>2. ASSUME NEW r \in Runs, procs'[r] = "running" PROVE Found(r)'
    <3>1. CASE procs[r] = "running"
      <4>1. r = child
        BY <1>1, <3>1 DEF CompilerInv, Children, Found
      <4> QED BY <4>1 DEF Found
    <3>2. CASE procs[r] # "running"
      <4>1. Names(res, r) /\ working' # None
        BY <2>2, <3>2 DEF CompilerInv, Children
      <4> QED BY <1>2, <4>1 DEF Found, Names
    <3> QED BY <3>1, <3>2
  <2> QED BY <2>1, <2>2 DEF Children
<1>6. Stopped'
  BY <1>1 DEF Stopped
<1> QED BY <1>3, <1>4, <1>5, <1>6 DEF CompilerInv

LEMMA ReadLogKeeps == CompilerInv /\ MaintReadLog => CompilerInv'
PROOF
<1> SUFFICES ASSUME CompilerInv, MaintReadLog PROVE CompilerInv'
  OBVIOUS
<1> DEFINE res == [kind |-> "finish", ok |-> working.ok,
                   pending |-> working.pending,
                   total |-> Cardinality(working.log),
                   published |-> PublishedPaths(working.log),
                   rescan |-> Fresh(files)]
<1>1. /\ working # None /\ working.kind = "finish"
      /\ working' = [kind |-> "done", res |-> res] /\ procs' = procs
      /\ UNCHANGED <<jobs, results, startPending, finishPending, child, ended, pc>>
  BY DEF MaintReadLog, comp, stop
<1>2. res.kind = "finish"
  OBVIOUS
<1> HIDE DEF res
<1> QED BY <1>1, <1>2, AnswerKeeps

LEMMA SpawnKeeps == CompilerInv /\ MaintSpawn => CompilerInv'
PROOF
<1> SUFFICES ASSUME CompilerInv, MaintSpawn PROVE CompilerInv'
  OBVIOUS
<1>1. PICK r \in Runs :
        /\ procs' = [procs EXCEPT ![r] = "running"]
        /\ working' = [kind |-> "done", res |-> Spawned(r)]
  BY DEF MaintSpawn
<1>2. /\ working # None /\ working.kind = "start"
      /\ UNCHANGED <<jobs, results, startPending, finishPending, child, ended, pc>>
  BY DEF MaintSpawn, stop
<1>3. Spawned(r).kind = "start" /\ Names(Spawned(r), r) /\ working' # None
  BY <1>1, LiveOverlayAssumption DEF Spawned, Names
<1> QED BY <1>1, <1>2, <1>3, AnswerKeeps

LEMMA SpawnFailsKeeps == CompilerInv /\ MaintSpawnFails => CompilerInv'
PROOF
<1> SUFFICES ASSUME CompilerInv, MaintSpawnFails PROVE CompilerInv'
  OBVIOUS
<1> DEFINE res == [kind |-> "start", ok |-> FALSE]
<1>1. /\ working # None /\ working.kind = "start"
      /\ working' = [kind |-> "done", res |-> res] /\ procs' = procs
      /\ UNCHANGED <<jobs, results, startPending, finishPending, child, ended, pc>>
  BY DEF MaintSpawnFails, comp, stop
<1>2. res.kind = "start"
  OBVIOUS
<1> HIDE DEF res
<1> QED BY <1>1, <1>2, AnswerKeeps

LEMMA PublishKeeps == CompilerInv /\ MaintPublish => CompilerInv'
PROOF
<1> SUFFICES ASSUME CompilerInv, MaintPublish PROVE CompilerInv'
  OBVIOUS
<1> DEFINE x == working.res
<1>1. /\ working # None /\ working.kind = "done"
      /\ jobs = <<>> /\ results = <<>> /\ Due(x)
  BY DEF CompilerInv, Pipeline, WorkingDue, MaintPublish
<1>2. /\ working' = None /\ jobs' = <<>> /\ results' = <<x>> /\ Head(results') = x
      /\ UNCHANGED <<startPending, finishPending, child, procs, ended, pc>>
  BY <1>1, OneItem DEF MaintPublish, comp, stop
<1>3. Pipeline'
  BY <1>1, <1>2, OneItem DEF Pipeline, Due
<1>4. OneOwed'
  BY <1>2 DEF CompilerInv, OneOwed
<1>5. Children'
  BY <1>1, <1>2, OneItem DEF CompilerInv, Children, Found, Names
<1>6. Stopped'
  BY <1>2 DEF CompilerInv, Stopped
<1> QED BY <1>3, <1>4, <1>5, <1>6 DEF CompilerInv

LEMMA MaintEndKeeps == CompilerInv /\ MaintEnd => CompilerInv'
PROOF
<1> SUFFICES ASSUME CompilerInv, MaintEnd PROVE CompilerInv'
  OBVIOUS
<1>1. /\ working = None /\ ended' = ended \cup {"maint"}
      /\ UNCHANGED <<jobs, working, results, startPending, finishPending,
                     child, procs, pc>>
  BY DEF MaintEnd, maint, comp
<1>2. Pipeline' /\ OneOwed'
  BY <1>1 DEF CompilerInv, Pipeline, WorkingDue, Due, OneOwed
<1>3. Children'
  BY <1>1 DEF CompilerInv, Children, Found, Names
<1>4. Stopped'
  BY <1>1 DEF CompilerInv, Stopped
<1> QED BY <1>2, <1>3, <1>4 DEF CompilerInv

LEMMA ChildExitKeeps == CompilerInv /\ ChildExit => CompilerInv'
PROOF
<1> SUFFICES ASSUME CompilerInv, ChildExit PROVE CompilerInv'
  OBVIOUS
<1>1. PICK r \in Runs : procs' = [procs EXCEPT ![r] = "exited"]
  BY DEF ChildExit
<1>2. UNCHANGED <<jobs, working, results, startPending, finishPending, child,
                  ended, pc>>
  BY DEF ChildExit, maint, stop
<1>3. \A q \in Runs : procs'[q] = "running" => procs[q] = "running"
  BY <1>1 DEF CompilerInv, Children
<1>4. Pipeline' /\ OneOwed'
  BY <1>2 DEF CompilerInv, Pipeline, WorkingDue, Due, OneOwed
<1>5. Children'
  <2>1. procs' \in [Runs -> {"none", "running", "exited"}]
    BY <1>1 DEF CompilerInv, Children
  <2> QED BY <1>2, <1>3, <2>1 DEF CompilerInv, Children, Found, Names
<1>6. Stopped'
  BY <1>2, <1>3 DEF CompilerInv, Stopped
<1> QED BY <1>4, <1>5, <1>6 DEF CompilerInv

(* The answer to a start hands the run it names to the emulation thread in *)
(* the step that drops the answer.                                         *)
LEMMA ResultsKeep == CompilerInv /\ PollResults => CompilerInv'
PROOF
<1> SUFFICES ASSUME CompilerInv, PollResults PROVE CompilerInv'
  OBVIOUS
<1> DEFINE x == Head(results)
<1>1. /\ working = None /\ jobs = <<>> /\ results # <<>>
      /\ results = <<x>> /\ Due(x)
  BY DEF CompilerInv, Pipeline, PollResults
<1>2. /\ working' = None /\ jobs' = <<>> /\ results' = <<>>
      /\ UNCHANGED <<procs, ended>> /\ pc' = "tail"
  BY <1>1, OneItem DEF PollResults, stop
<1>3. CASE x.kind = "finish"
  <2>1. /\ finishPending' = FALSE /\ startPending' = startPending /\ child' = child
        /\ finishPending
    BY <1>1, <1>3 DEF PollResults, ApplyRunFinished, ApplyStartChild, Due
  <2>2. Pipeline'
    BY <1>2 DEF Pipeline
  <2>3. OneOwed'
    BY <2>1 DEF CompilerInv, OneOwed
  <2>4. Children'
    BY <1>1, <1>2, <1>3, <2>1 DEF CompilerInv, Children, Found, Names
  <2>5. Stopped'
    BY <1>2 DEF Stopped
  <2> QED BY <2>2, <2>3, <2>4, <2>5 DEF CompilerInv
<1>4. CASE x.kind = "start"
  <2>1. /\ startPending' = FALSE /\ finishPending' = finishPending
        /\ child' = (IF x.ok THEN x.run ELSE child)
        /\ startPending
    BY <1>1, <1>4 DEF PollResults, ApplyRunFinished, ApplyStartChild, Due
  <2>2. Pipeline'
    BY <1>2 DEF Pipeline
  <2>3. OneOwed'
    BY <2>1 DEF CompilerInv, OneOwed
  <2>4. \A r \in Runs : procs[r] = "running" => Names(x, r)
    BY <1>1, <2>1, LiveOverlayAssumption DEF CompilerInv, OneOwed, Children, Found
  <2>5. Children'
    BY <1>2, <2>1, <2>4 DEF CompilerInv, Children, Found, Names
  <2>6. Stopped'
    BY <1>2 DEF Stopped
  <2> QED BY <2>2, <2>3, <2>5, <2>6 DEF CompilerInv
<1> QED BY <1>1, <1>3, <1>4 DEF Due

(* The exit of the child and the next start: a job is commissioned only    *)
(* when none is owed, so the queue it joins is empty.                      *)
LEMMA TailKeeps == CompilerInv /\ PollTail => CompilerInv'
PROOF
<1> SUFFICES ASSUME CompilerInv, PollTail PROVE CompilerInv'
  OBVIOUS
<1> DEFINE exited == child # None /\ procs[child] = "exited"
           done(ok, pending) == Reap(ok, pending)
           begin == [kind |-> "start", snap |-> filed]
<1>1. PICK start, ok, pending \in BOOLEAN :
        /\ start => /\ child = None \/ exited
                    /\ ~startPending /\ ~(finishPending \/ exited)
        /\ child' = IF exited THEN None ELSE child
        /\ finishPending' = (finishPending \/ exited)
        /\ startPending' = (startPending \/ start)
        /\ jobs' = jobs \o (IF exited THEN <<done(ok, pending)>> ELSE <<>>)
                        \o (IF start THEN <<begin>> ELSE <<>>)
  BY DEF PollTail, MayStart
<1>2. /\ UNCHANGED <<working, results, procs, ended>>
      /\ pc' = "guest"
  BY DEF PollTail, stop
<1>3. ~startPending /\ ~finishPending => 
        jobs = <<>> /\ results = <<>> /\ (working # None => FALSE)
  BY DEF CompilerInv, Pipeline, WorkingDue, Due
<1>4. exited => ~startPending /\ ~finishPending
  BY DEF CompilerInv, OneOwed
<1>5. done(ok, pending).kind = "finish" /\ begin.kind = "start"
  BY DEF Reap
<1> HIDE DEF done, begin
<1>6. Stopped'
  BY <1>2 DEF CompilerInv, Stopped
<1>7. CASE exited
  <2>1. ~start /\ jobs = <<>> /\ results = <<>> /\ working = None
    BY <1>1, <1>3, <1>4, <1>7
  <2>2. jobs' = <<done(ok, pending)>>
    BY <1>1, <1>7, <2>1, OneItem, NoItem
  <2>3. Pipeline'
    BY <1>1, <1>2, <1>5, <1>7, <2>1, <2>2, OneItem DEF Pipeline, Due
  <2>4. OneOwed'
    BY <1>1, <1>4, <1>7, <2>1 DEF OneOwed
  <2>5. Children'
    BY <1>2, <1>7, <2>1 DEF CompilerInv, Children, Found
  <2> QED BY <1>6, <2>3, <2>4, <2>5 DEF CompilerInv
<1>8. CASE ~exited /\ start
  <2>1. /\ jobs = <<>> /\ results = <<>> /\ working = None
        /\ child = None /\ ~startPending /\ ~finishPending
    BY <1>1, <1>3, <1>8
  <2>2. jobs' = <<begin>>
    BY <1>1, <1>8, <2>1, OneItem, NoItem
  <2>3. Pipeline'
    BY <1>1, <1>2, <1>5, <1>8, <2>1, <2>2, OneItem DEF Pipeline, Due
  <2>4. OneOwed'
    BY <1>1, <1>8, <2>1 DEF OneOwed
  <2>5. Children'
    BY <1>1, <1>2, <1>8, <2>1 DEF CompilerInv, Children, Found
  <2> QED BY <1>6, <2>3, <2>4, <2>5 DEF CompilerInv
<1>9. CASE ~exited /\ ~start
  <2>1. UNCHANGED <<child, finishPending, startPending>>
    BY <1>1, <1>9 DEF CompilerInv, OneOwed
  <2>2. jobs' = jobs
    <3>1. CASE jobs = <<>>
      BY <1>1, <1>9, <3>1, NoItem
    <3>2. CASE jobs # <<>>
      <4>1. jobs = <<Head(jobs)>>
        BY <3>2 DEF CompilerInv, Pipeline
      <4>2. <<Head(jobs)>> \o <<>> \o <<>> = <<Head(jobs)>>
        BY OneItem
      <4> QED BY <1>1, <1>9, <4>1, <4>2
    <3> QED BY <3>1, <3>2
  <2>3. Pipeline' /\ OneOwed'
    BY <1>2, <2>1, <2>2 DEF CompilerInv, Pipeline, WorkingDue, Due, OneOwed
  <2>4. Children'
    BY <1>2, <2>1 DEF CompilerInv, Children, Found, Names
  <2> QED BY <1>6, <2>3, <2>4 DEF CompilerInv
<1> QED BY <1>7, <1>8, <1>9

(* The teardown kills whatever can still be found.                         *)
LEMMA KillKeeps == CompilerInv /\ ShutdownKill => CompilerInv'
PROOF
<1> SUFFICES ASSUME CompilerInv, ShutdownKill PROVE CompilerInv'
  OBVIOUS
<1>1. working = None /\ "maint" \in ended
  BY DEF ShutdownKill, CompilerInv, Stopped
<1>2. /\ jobs' = <<>> /\ results' = <<>>
      /\ startPending' = FALSE /\ finishPending' = FALSE
      /\ child' = None /\ working' = None /\ "maint" \in ended'
      /\ procs' = [r \in Runs |-> IF r \in Killed THEN "exited" ELSE procs[r]]
  BY <1>1 DEF ShutdownKill
<1>3. ASSUME NEW r \in Runs, procs[r] = "running" PROVE r \in Killed
  <2>1. CASE r = child
    BY <2>1 DEF Killed
  <2>2. CASE r # child
    <3>1. results # <<>> /\ Names(Head(results), r)
      BY <1>1, <1>3, <2>2 DEF CompilerInv, Children, Found
    <3>2. results = <<Head(results)>>
      BY <3>1 DEF CompilerInv, Pipeline
    <3>3. 1 \in DOMAIN results /\ results[1] = Head(results)
      BY <3>2
    <3> QED BY <3>1, <3>3 DEF Killed, Names
  <2> QED BY <2>1, <2>2
<1>4. \A r \in Runs : procs'[r] # "running"
  BY <1>2, <1>3
<1>5. Pipeline' /\ OneOwed'
  BY <1>2 DEF Pipeline, OneOwed
<1>6. Children'
  BY <1>2, <1>4 DEF CompilerInv, Children
<1>7. Stopped'
  BY <1>2, <1>4 DEF Stopped
<1> QED BY <1>5, <1>6, <1>7 DEF CompilerInv

LEMMA CompilerNext == CompilerInv /\ [Next]_vars => CompilerInv'
PROOF
<1> SUFFICES ASSUME CompilerInv, [Next]_vars PROVE CompilerInv'
  OBVIOUS
<1>1. \/ SceneChange \/ Tier3Entry \/ RequestCompile \/ Reset \/ TriggerNow
      \/ PollStart \/ PollDrain \/ PollMaint \/ Prepare \/ ChildPublish
      \/ Shutdown \/ ShutdownEnd \/ UNCHANGED vars
      \/ PollResults \/ PollTail
      \/ MaintTake \/ MaintReadLog \/ MaintSpawn \/ MaintSpawnFails
      \/ MaintPublish \/ MaintEnd \/ ChildExit \/ ShutdownKill
  BY DEF Next, Poll, Maintain, Teardown
<1> QED BY <1>1, OutsideSteps, OutsideKeeps, ResultsKeep, TailKeeps,
           TakeKeeps, ReadLogKeeps, SpawnKeeps, SpawnFailsKeeps, PublishKeeps,
           MaintEndKeeps, ChildExitKeeps, KillKeeps

(* A running child can be found in one place only.                         *)
LEMMA OneRuns ==
  ASSUME CompilerInv, NEW p \in Runs, NEW q \in Runs,
         procs[p] = "running", procs[q] = "running"
  PROVE  p = q
PROOF
<1>1. Found(p) /\ Found(q)
  BY DEF CompilerInv, Children
<1>2. CASE startPending
  <2>1. p # child /\ q # child
    BY <1>2, LiveOverlayAssumption DEF CompilerInv, OneOwed
  <2> QED BY <1>1, <2>1 DEF CompilerInv, Pipeline, Found, Names
<1>3. CASE ~startPending
  <2>1. p = child /\ q = child
    BY <1>1, <1>3 DEF CompilerInv, Pipeline, WorkingDue, Due, Found, Names
  <2> QED BY <2>1
<1> QED BY <1>2, <1>3

LEMMA InvGivesOneAtATime == CompilerInv => OneAtATime
PROOF
<1> SUFFICES ASSUME CompilerInv PROVE OneAtATime
  OBVIOUS
<1>1. OneJob
  <2>1. CASE jobs = <<>> /\ results = <<>>
    BY <2>1, NoItem DEF OneJob
  <2>2. CASE jobs # <<>>
    <3>1. jobs = <<Head(jobs)>> /\ results = <<>> /\ working = None
      BY <2>2 DEF CompilerInv, Pipeline
    <3>2. Len(jobs) = 1
      BY <3>1, OneItem
    <3> QED BY <3>1, <3>2, NoItem DEF OneJob
  <2>3. CASE results # <<>>
    <3>1. results = <<Head(results)>> /\ jobs = <<>> /\ working = None
      BY <2>3 DEF CompilerInv, Pipeline
    <3>2. Len(results) = 1
      BY <3>1, OneItem
    <3> QED BY <3>1, <3>2, NoItem DEF OneJob
  <2> QED BY <2>1, <2>2, <2>3
<1>2. Cardinality({r \in Runs : procs[r] = "running"}) <= 1
  <2> DEFINE R == {r \in Runs : procs[r] = "running"}
  <2>1. CASE R = {}
    BY <2>1, FS_EmptySet
  <2>2. CASE R # {}
    <3>1. PICK p : R = {p}
      BY <2>2, OneRuns
    <3>2. Cardinality({p}) = 1
      BY FS_Singleton
    <3> QED BY <3>1, <3>2
  <2> QED BY <2>1, <2>2
<1>3. pc = "stopped" => \A r \in Runs : procs[r] # "running"
  BY DEF CompilerInv, Stopped
<1> QED BY <1>1, <1>2, <1>3 DEF OneAtATime, OneCompiler

(* One compiler child and one commissioned job at a time, and none when    *)
(* live_overlay_shutdown returns: whatever the maintenance worker was      *)
(* doing, the child it spawned is either known to the emulation thread or  *)
(* named by the one answer the teardown still reads.                       *)
THEOREM CompilersOneAtATime == Spec => []OneAtATime
PROOF
<1> QED BY CompilerInit, CompilerNext, InvGivesOneAtATime, PTL DEF Spec

-----------------------------------------------------------------------------
(* The result flags.                                                       *)

(* Draining one answer empties the answers: at most one is ever waiting,   *)
(* which is why the poll need not look again.                              *)
LEMMA FlagsNext ==
  CompilerInv /\ NoStrandedResult /\ [Next]_vars => NoStrandedResult'
PROOF
<1> SUFFICES ASSUME CompilerInv, NoStrandedResult, [Next]_vars
             PROVE  NoStrandedResult'
  OBVIOUS
<1> USE DEF NoStrandedResult
<1> DEFINE Flags == <<pc, ready, errors, prepFlag, results, maintFlag>>
<1>1. UNCHANGED Flags => NoStrandedResult'
  OBVIOUS
<1>2. SceneChange \/ Tier3Entry \/ RequestCompile \/ Reset \/ ChildPublish
      \/ ChildExit \/ UNCHANGED vars => UNCHANGED Flags
  BY DEF SceneChange, Tier3Entry, RequestCompile, Reset, ChildPublish,
         ChildExit, vars, prep, maint
<1>3. PrepareTake \/ PrepareEnd => UNCHANGED Flags
  BY DEF PrepareTake, PrepareEnd, prep, maint
<1>4. MaintTake \/ MaintReadLog \/ MaintSpawn \/ MaintSpawnFails \/ MaintEnd
        => UNCHANGED Flags
  BY DEF MaintTake, MaintReadLog, MaintSpawn, MaintSpawnFails, MaintEnd, prep, maint
<1>5. PrepareOk \/ PrepareError => NoStrandedResult'
  BY DEF PrepareOk, PrepareError, maint
<1>6. MaintPublish => NoStrandedResult'
  BY DEF MaintPublish, prep
<1>7. TriggerNow \/ PollStart => NoStrandedResult'
  BY DEF TriggerNow, PollStart, ClaimPrepared, ClaimResults
<1>8. ASSUME PollDrain PROVE NoStrandedResult'
  BY <1>8 DEF PollDrain, More, maint
<1>9. PollMaint => NoStrandedResult'
  BY DEF PollMaint, ClaimResults, prep
<1>10. ASSUME PollResults PROVE NoStrandedResult'
  <2>1. results = <<Head(results)>>
    BY <1>10 DEF PollResults, CompilerInv, Pipeline
  <2>2. results' = <<>>
    BY <1>10, <2>1, OneItem DEF PollResults
  <2> QED BY <1>10, <2>2 DEF PollResults
<1>11. PollTail => NoStrandedResult'
  BY DEF PollTail, prep
<1>12. Shutdown => NoStrandedResult'
  BY DEF Shutdown, prep, maint
<1>13. ShutdownKill => NoStrandedResult'
  BY DEF ShutdownKill
<1>14. ShutdownEnd => NoStrandedResult'
  BY DEF ShutdownEnd, maint
<1> QED BY <1>1, <1>2, <1>3, <1>4, <1>5, <1>6, <1>7, <1>8, <1>9, <1>10,
           <1>11, <1>12, <1>13, <1>14
        DEF Next, Poll, Prepare, Maintain, Teardown

(* No result is left behind unannounced: neither the two exchanges of the  *)
(* poll, nor the store that follows the drain, nor the single look at the  *)
(* answers, buries what a worker published meanwhile.                      *)
THEOREM ResultsAnnounced == Spec => []NoStrandedResult
PROOF
<1>1. Init => NoStrandedResult
  BY DEF Init, NoStrandedResult
<1> QED BY <1>1, CompilerInit, CompilerNext, FlagsNext, PTL DEF Spec

-----------------------------------------------------------------------------
(* The registered rows.                                                    *)

(* A bank retires another only if it has every row of it, so the rows of a *)
(* retired bank pass to the one that retired it.                           *)
LEMMA CommitKeepsRows ==
  ASSUME BanksInv, NEW s, NEW n, Commit(s, n)
  PROVE  BanksInv'
PROOF
<1>1. CASE UNCHANGED banks
  BY <1>1 DEF BanksInv, BanksAgree, RowsKept, banks
<1>2. CASE /\ SameCandidate(s) = {}
           /\ superseded' = superseded \cup Retired(s)
           /\ registered' = (registered \ Retired(s)) \cup {s}
           /\ loaded' = loaded \cup {s}
  <2>1. s \notin loaded
    BY <1>2 DEF SameCandidate
  <2>2. /\ Retired(s) \subseteq registered
        /\ \A o \in Retired(s) : /\ Shard[o].gen = Shard[s].gen
                                 /\ Shard[o].rows \subseteq Shard[s].rows
    BY DEF Retired, SameGeneration, Covers
  <2>3. s \notin superseded'
    BY <1>2, <2>1, <2>2 DEF BanksInv, BanksAgree
  <2>4. BanksAgree'
    BY <1>2, <2>1, <2>2, <2>3 DEF BanksInv, BanksAgree
  <2>5. ASSUME NEW b \in loaded', NEW r \in Shard[b].rows
        PROVE  \E o \in registered' : /\ o \notin superseded'
                                      /\ Shard[o].gen = Shard[b].gen
                                      /\ r \in Shard[o].rows
    <3>1. CASE b = s
      BY <1>2, <2>3, <3>1, <2>5
    <3>2. CASE b # s
      <4>1. b \in loaded
        BY <1>2, <3>2
      <4>2. PICK o \in registered : /\ o \notin superseded
                                    /\ Shard[o].gen = Shard[b].gen
                                    /\ r \in Shard[o].rows
        BY <2>5, <4>1 DEF BanksInv, RowsKept
      <4>3. CASE o \in Retired(s)
        BY <1>2, <2>2, <2>3, <4>2, <4>3
      <4>4. CASE o \notin Retired(s)
        BY <1>2, <4>2, <4>4
      <4> QED BY <4>3, <4>4
    <3> QED BY <3>1, <3>2
  <2> QED BY <2>4, <2>5 DEF BanksInv, RowsKept
<1> QED BY <1>1, <1>2 DEF Commit

LEMMA BanksNext == BanksInv /\ [Next]_vars => BanksInv'
PROOF
<1> SUFFICES ASSUME BanksInv, [Next]_vars PROVE BanksInv'
  OBVIOUS
<1>1. UNCHANGED banks => BanksInv'
  BY DEF BanksInv, BanksAgree, RowsKept, banks
<1>2. ASSUME Reset PROVE BanksInv'
  BY <1>2 DEF Reset, BanksInv, BanksAgree, RowsKept
<1>3. ASSUME PollDrain PROVE BanksInv'
  <2>1. \/ UNCHANGED banks
        \/ \E n \in {0, 1} : Commit(Head(ready), n)
    BY <1>3 DEF PollDrain, Admit
  <2> QED BY <1>1, <2>1, CommitKeepsRows
<1>4. SceneChange \/ Tier3Entry \/ RequestCompile \/ TriggerNow \/ ChildPublish
      \/ ChildExit \/ UNCHANGED vars => UNCHANGED banks
  BY DEF SceneChange, Tier3Entry, RequestCompile, TriggerNow, ChildPublish,
         ChildExit, vars
<1>5. PollStart \/ PollMaint \/ PollResults \/ PollTail => UNCHANGED banks
  BY DEF PollStart, PollMaint, PollResults, PollTail
<1>6. Prepare => UNCHANGED banks
  BY DEF Prepare, PrepareTake, PrepareOk, PrepareError, PrepareEnd
<1>7. Maintain => UNCHANGED banks
  BY DEF Maintain, MaintTake, MaintReadLog, MaintSpawn, MaintSpawnFails,
         MaintPublish, MaintEnd
<1>8. Teardown => UNCHANGED banks
  BY DEF Teardown, Shutdown, ShutdownKill, ShutdownEnd
<1> QED BY <1>1, <1>2, <1>3, <1>4, <1>5, <1>6, <1>7, <1>8 DEF Next, Poll

(* Supersession, declined commits and debug resets never take a row away:  *)
(* every row of every bank ever adopted is served, for its generation, by  *)
(* a bank that is registered and not retired.                              *)
THEOREM RowsNeverLost == Spec => []RowsKept
PROOF
<1>1. Init => BanksInv
  BY DEF Init, BanksInv, BanksAgree, RowsKept
<1>2. BanksInv => RowsKept
  BY DEF BanksInv
<1> QED BY <1>1, <1>2, BanksNext, PTL DEF Spec

-----------------------------------------------------------------------------
(* The shards between the queues.                                          *)

LEMMA SeqSetParts ==
  ASSUME NEW S, NEW q \in Seq(S)
  PROVE  /\ \A x \in S : SeqSet(Append(q, x)) = SeqSet(q) \cup {x}
         /\ q # <<>> => /\ Head(q) \in S /\ Tail(q) \in Seq(S)
                        /\ SeqSet(q) = {Head(q)} \cup SeqSet(Tail(q))
         /\ SeqSet(q) \subseteq S
PROOF
<1>1. ASSUME NEW x \in S PROVE SeqSet(Append(q, x)) = SeqSet(q) \cup {x}
  <2> DEFINE p == Append(q, x)
  <2>1. /\ DOMAIN p = 1..(Len(q) + 1) /\ DOMAIN q = 1..Len(q) /\ Len(q) \in Nat
        /\ \A i \in 1..Len(q) : p[i] = q[i]
        /\ p[Len(q) + 1] = x
    OBVIOUS
  <2> HIDE DEF p
  <2>2. SeqSet(p) \subseteq SeqSet(q) \cup {x}
    BY <2>1 DEF SeqSet
  <2>3. SeqSet(q) \subseteq SeqSet(p)
    BY <2>1 DEF SeqSet
  <2>4. x \in SeqSet(p)
    BY <2>1 DEF SeqSet
  <2> QED BY <2>2, <2>3, <2>4 DEF p
<1>2. ASSUME q # <<>>
      PROVE  /\ Head(q) \in S /\ Tail(q) \in Seq(S)
             /\ SeqSet(q) = {Head(q)} \cup SeqSet(Tail(q))
  <2> DEFINE t == Tail(q)
             h == Head(q)
  <2>1. /\ h \in S /\ t \in Seq(S) /\ h = q[1]
        /\ DOMAIN t = 1..(Len(q) - 1) /\ DOMAIN q = 1..Len(q)
        /\ Len(q) \in Nat /\ Len(q) > 0
        /\ \A i \in 1..(Len(q) - 1) : t[i] = q[i + 1]
    BY <1>2
  <2> HIDE DEF t, h
  <2>2. SeqSet(t) \subseteq SeqSet(q)
    BY <2>1 DEF SeqSet
  <2>3. h \in SeqSet(q)
    BY <2>1 DEF SeqSet
  <2>4. ASSUME NEW i \in DOMAIN q PROVE q[i] \in {h} \cup SeqSet(t)
    <3>1. CASE i = 1
      BY <2>1, <3>1
    <3>2. CASE i # 1
      <4>1. i - 1 \in DOMAIN t /\ t[i - 1] = q[i]
        BY <2>1, <3>2
      <4> QED BY <4>1 DEF SeqSet
    <3> QED BY <3>1, <3>2
  <2>5. SeqSet(q) \subseteq {h} \cup SeqSet(t)
    BY <2>4 DEF SeqSet
  <2> QED BY <2>1, <2>2, <2>3, <2>5 DEF t, h
<1>3. SeqSet(q) \subseteq S
  BY DEF SeqSet
<1> QED BY <1>1, <1>2, <1>3

LEMMA SeqSetJoin ==
  ASSUME NEW S, NEW p \in Seq(S), NEW q \in Seq(S)
  PROVE  p \o q \in Seq(S) /\ SeqSet(p \o q) = SeqSet(p) \cup SeqSet(q)
PROOF
<1> DEFINE r == p \o q
<1>1. /\ r \in Seq(S) /\ DOMAIN r = 1..(Len(p) + Len(q))
      /\ DOMAIN p = 1..Len(p) /\ DOMAIN q = 1..Len(q)
      /\ Len(p) \in Nat /\ Len(q) \in Nat
      /\ \A i \in 1..(Len(p) + Len(q)) :
            r[i] = IF i <= Len(p) THEN p[i] ELSE q[i - Len(p)]
  OBVIOUS
<1> HIDE DEF r
<1>2. SeqSet(p) \subseteq SeqSet(r)
  BY <1>1 DEF SeqSet
<1>3. ASSUME NEW j \in DOMAIN q PROVE q[j] \in SeqSet(r)
  <2>1. j + Len(p) \in DOMAIN r /\ r[j + Len(p)] = q[j]
    BY <1>1
  <2> QED BY <2>1 DEF SeqSet
<1>4. ASSUME NEW i \in DOMAIN r PROVE r[i] \in SeqSet(p) \cup SeqSet(q)
  <2>1. CASE i <= Len(p)
    BY <1>1, <2>1 DEF SeqSet
  <2>2. CASE ~(i <= Len(p))
    <3>1. i - Len(p) \in DOMAIN q /\ r[i] = q[i - Len(p)]
      BY <1>1, <2>2
    <3> QED BY <3>1 DEF SeqSet
  <2> QED BY <2>1, <2>2
<1>5. SeqSet(q) \subseteq SeqSet(r)
  BY <1>3 DEF SeqSet
<1>6. SeqSet(r) \subseteq SeqSet(p) \cup SeqSet(q)
  BY <1>4 DEF SeqSet
<1> QED BY <1>1, <1>2, <1>5, <1>6 DEF r

LEMMA OrderIsSeq ==
  ASSUME NEW S \in SUBSET Shards, NEW q \in Orders(S)
  PROVE  q \in Seq(Shards) /\ SeqSet(q) = S
PROOF
<1>1. Cardinality(S) \in Nat
  BY LiveOverlayAssumption, FS_Subset, FS_CardinalityType
<1>2. q \in [1..Cardinality(S) -> Shards] /\ SeqSet(q) = S
  BY DEF Orders
<1> QED BY <1>1, <1>2

LEMMA CacheOrderIsSeq ==
  ASSUME NEW S \in SUBSET Shards, NEW q \in CacheOrders(S)
  PROVE  q \in Seq(Shards) /\ SeqSet(q) = S
PROOF
<1> QED BY OrderIsSeq DEF CacheOrders

-----------------------------------------------------------------------------
(* Types.                                                                  *)

LEMMA ShardsInit == Init => ShardsInv
PROOF
<1> SUFFICES ASSUME Init PROVE ShardsInv
  OBVIOUS
<1>1. files \in SUBSET Shards /\ prepQ \in CacheOrders(files) /\ queued = files
  BY LiveOverlayAssumption DEF Init
<1>2. prepQ \in Seq(Shards) /\ SeqSet(prepQ) = files
  BY <1>1, CacheOrderIsSeq
<1>3. SeqSet(<<>>) = {}
  BY DEF SeqSet
<1>4. PrepTyped
  BY <1>1, <1>2 DEF Init, PrepTyped
<1>5. MaintTyped
  <2>1. log = [r \in Runs |-> {}] /\ child = None /\ jobs = <<>> /\ working = None
        /\ results = <<>>
    BY DEF Init
  <2>2. log \in [Runs -> SUBSET Shards]
    BY <2>1
  <2> QED BY <2>1, <2>2 DEF MaintTyped
<1>6. Verdicts /\ Ends
  BY <1>3 DEF Init, Verdicts, Ends
<1>7. SeenIsAccounted
  BY <1>1, <1>2 DEF SeenIsAccounted, InPipeline
<1>8. RequeuedIsInFlight
  BY DEF Init, RequeuedIsInFlight
<1> QED BY <1>4, <1>5, <1>6, <1>7, <1>8 DEF ShardsInv

(* What one admission does to the shards: only the admitted one can leave  *)
(* the books, and then it is registered, covered, recorded, given up or    *)
(* forgotten as a path as well.                                            *)
LEMMA AdmitAccounts ==
  ASSUME NEW s, NEW n, Admit(s, n)
  PROVE  /\ queued' \subseteq queued /\ lost \subseteq lost' /\ loaded \subseteq loaded'
         /\ dormant \ {s} \subseteq dormant' /\ dormant' \subseteq dormant \cup {s}
         /\ requeued' \subseteq requeued
         /\ s \in requeued' => s \in lost'
         /\ \A g : (\E o \in registered : Shard[o].gen = g)
                     => \E o \in registered' : Shard[o].gen = g
         /\ s \in queued' \ lost' => \/ s \in dormant'
                                     \/ \E o \in registered' : Shard[o].gen = Shard[s].gen
                                     \/ \E o \in loaded' : Shard[o].cand = Shard[s].cand
PROOF
<1>1. CASE NoteDormant(s) /\ UNCHANGED <<loaded, registered>>
  BY <1>1 DEF NoteDormant, Forget, AnotherLook, ParkedKey, Recorded, dorm
<1>2. CASE GuardBytesLive(s) /\ Forget(s) /\ Commit(s, n) /\ UNCHANGED <<queued, lost>>
  <2>1. /\ queued' = queued /\ lost' = lost
        /\ dormant' = dormant \ {s} /\ requeued' = requeued \ {s}
    BY <1>2 DEF Forget
  <2>2. CASE SameCandidate(s) # {} /\ UNCHANGED <<loaded, registered>>
    BY <2>1, <2>2 DEF SameCandidate
  <2>3. CASE /\ \E o \in SameGeneration(s, registered) : Covers(o, s)
             /\ UNCHANGED <<loaded, registered>>
    BY <2>1, <2>3 DEF SameGeneration
  <2>4. CASE /\ registered' = (registered \ Retired(s)) \cup {s}
             /\ loaded' = loaded \cup {s}
    <3>1. \A o \in Retired(s) : Shard[o].gen = Shard[s].gen
      BY DEF Retired, SameGeneration
    <3> QED BY <2>1, <2>4, <3>1
  <2> QED BY <1>2, <2>2, <2>3, <2>4 DEF Commit, banks
<1> QED BY <1>1, <1>2 DEF Admit, banks

(* The heads that a drain takes.                                           *)
LEMMA DrainTakes ==
  ASSUME PrepTyped, PollDrain
  PROVE  /\ errors' \in Seq(Shards) /\ ready' \in Seq(Shards)
         /\ SeqSet(errors') \subseteq SeqSet(errors)
         /\ errors # <<>> => SeqSet(errors) = {Head(errors)} \cup SeqSet(errors')
         /\ errors = <<>> => errors' = errors
         /\ \/ /\ ready = <<>> /\ ready' = ready
               /\ UNCHANGED <<loaded, registered, queued, dormant, requeued, lost>>
            \/ /\ Head(ready) \in Shards
               /\ SeqSet(ready) = {Head(ready)} \cup SeqSet(ready')
               /\ \E n \in {0, 1} : Admit(Head(ready), n)
         /\ UNCHANGED <<files, prepQ, loading, stopping, ended, log, child, jobs,
                        working, results>>
         /\ pc' = "maint"
PROOF
<1>1. errors \in Seq(Shards) /\ ready \in Seq(Shards)
  BY DEF PrepTyped
<1>2. /\ errors' = IF errors = <<>> THEN errors ELSE Tail(errors)
      /\ ready' = IF ready = <<>> THEN ready ELSE Tail(ready)
  BY DEF PollDrain
<1>3. errors = <<>> \/ SeqSet(errors) = {Head(errors)} \cup SeqSet(errors')
  BY <1>1, <1>2, SeqSetParts
<1>4. ready = <<>> \/ (Head(ready) \in Shards
                       /\ SeqSet(ready) = {Head(ready)} \cup SeqSet(ready'))
  BY <1>1, <1>2, SeqSetParts
<1>5. ready' \in Seq(Shards) /\ errors' \in Seq(Shards)
  BY <1>1, <1>2, SeqSetParts
<1>6. ready = <<>> => UNCHANGED <<loaded, registered, queued, dormant, requeued, lost>>
  BY DEF PollDrain, banks, dorm
<1>7. ready # <<>> => \E n \in {0, 1} : Admit(Head(ready), n)
  BY DEF PollDrain
<1>8. UNCHANGED <<files, prepQ, loading, stopping, ended, log, child, jobs,
                  working, results>> /\ pc' = "maint"
  BY DEF PollDrain, stop, comp, maint
<1> QED BY <1>2, <1>3, <1>4, <1>5, <1>6, <1>7, <1>8

(* What an answer queues.                                                  *)
LEMMA AnswerQueues ==
  ASSUME PrepTyped, NEW a, AnswerTyped(a), a.kind = "finish", ApplyRunFinished(a)
  PROVE  /\ prepQ' \in Seq(Shards)
         /\ SeqSet(prepQ) \subseteq SeqSet(prepQ')
         /\ queued' \ queued \subseteq SeqSet(prepQ')
PROOF
<1>1. a.published \in SUBSET Shards /\ a.rescan \in SUBSET Shards
  BY DEF AnswerTyped
<1>2. PICK own \in Orders(Fresh(a.published)),
           walk \in CacheOrders(Fresh(a.rescan) \ a.published) :
        /\ prepQ' = prepQ \o own \o walk
        /\ queued' = queued \cup a.published \cup a.rescan
  BY DEF ApplyRunFinished
<1>3. own \in Seq(Shards) /\ SeqSet(own) = Fresh(a.published)
  BY <1>1, OrderIsSeq DEF Fresh
<1>4. walk \in Seq(Shards) /\ SeqSet(walk) = Fresh(a.rescan) \ a.published
  BY <1>1, CacheOrderIsSeq DEF Fresh
<1>5. prepQ \o own \in Seq(Shards) /\ SeqSet(prepQ \o own) = SeqSet(prepQ) \cup SeqSet(own)
  BY <1>3, SeqSetJoin DEF PrepTyped
<1>6. prepQ' \in Seq(Shards)
      /\ SeqSet(prepQ') = SeqSet(prepQ) \cup SeqSet(own) \cup SeqSet(walk)
  <2> DEFINE front == prepQ \o own
  <2>1. front \in Seq(Shards) /\ SeqSet(front) = SeqSet(prepQ) \cup SeqSet(own)
    BY <1>5
  <2>2. prepQ' = front \o walk
    BY <1>2
  <2> HIDE DEF front
  <2>3. front \o walk \in Seq(Shards)
        /\ SeqSet(front \o walk) = SeqSet(front) \cup SeqSet(walk)
    BY <1>4, <2>1, SeqSetJoin
  <2> QED BY <2>1, <2>2, <2>3
<1> QED BY <1>2, <1>3, <1>4, <1>6 DEF Fresh

(* What a requeue and a reset queue.                                       *)
LEMMA RequeueQueues ==
  ASSUME PrepTyped, Requeue
  PROVE  /\ prepQ' \in Seq(Shards)
         /\ SeqSet(prepQ') = SeqSet(prepQ) \cup (dormant \ requeued)
         /\ requeued' = requeued \cup dormant
PROOF
<1>1. PICK again \in Orders(dormant \ requeued) : prepQ' = prepQ \o again
  BY DEF Requeue
<1>2. again \in Seq(Shards) /\ SeqSet(again) = dormant \ requeued
  BY <1>1, OrderIsSeq DEF PrepTyped
<1> QED BY <1>1, <1>2, SeqSetJoin DEF PrepTyped, Requeue

LEMMA ResetQueues ==
  ASSUME PrepTyped, Reset
  PROVE  /\ prepQ' \in Seq(Shards)
         /\ SeqSet(prepQ') = SeqSet(prepQ) \cup (files \ queued)
         /\ queued' = queued \cup files
PROOF
<1>1. PICK found \in CacheOrders(Fresh(files)) : prepQ' = prepQ \o found
  BY DEF Reset
<1>2. found \in Seq(Shards) /\ SeqSet(found) = files \ queued
  BY <1>1, CacheOrderIsSeq DEF PrepTyped, Fresh
<1> QED BY <1>1, <1>2, SeqSetJoin DEF PrepTyped, Reset

LEMMA PrepTypedNext ==
  ASSUME PrepTyped, MaintTyped, [Next]_vars PROVE PrepTyped'
PROOF
<1> USE DEF PrepTyped
<1> DEFINE Held == <<files, queued, dormant, requeued, prepQ, ready, errors, loading>>
<1>1. UNCHANGED Held => PrepTyped'
  OBVIOUS
<1>2. SceneChange \/ RequestCompile \/ TriggerNow \/ ChildExit \/ UNCHANGED vars
        => UNCHANGED Held
  BY DEF SceneChange, RequestCompile, TriggerNow, ChildExit, vars, prep, dorm
<1>3. PollStart \/ PollMaint \/ PollTail => UNCHANGED Held
  BY DEF PollStart, PollMaint, PollTail, prep, dorm
<1>4. Maintain => UNCHANGED Held
  BY DEF Maintain, MaintTake, MaintReadLog, MaintSpawn, MaintSpawnFails,
         MaintPublish, MaintEnd, prep, dorm
<1>5. Shutdown \/ PrepareEnd => UNCHANGED Held
  BY DEF Shutdown, PrepareEnd, prep, dorm
<1>6. ASSUME Tier3Entry PROVE PrepTyped'
  <2>1. UNCHANGED <<files, queued, dormant, ready, errors, loading>>
    BY <1>6 DEF Tier3Entry
  <2>2. prepQ' \in Seq(Shards) /\ requeued' = requeued \cup dormant
    BY <1>6, RequeueQueues DEF Tier3Entry
  <2> QED BY <2>1, <2>2
<1>7. ASSUME Reset PROVE PrepTyped'
  <2>1. UNCHANGED <<files, dormant, requeued, ready, errors, loading>>
    BY <1>7 DEF Reset, dorm
  <2> QED BY <1>7, <2>1, ResetQueues
<1>8. ASSUME PrepareTake PROVE PrepTyped'
  <2>1. UNCHANGED <<files, queued, dormant, requeued, ready, errors>> /\ prepQ # <<>>
        /\ loading' = Head(prepQ) /\ prepQ' = Tail(prepQ)
    BY <1>8 DEF PrepareTake, dorm
  <2>2. Head(prepQ) \in Shards /\ Tail(prepQ) \in Seq(Shards)
    BY <2>1, SeqSetParts
  <2> QED BY <2>1, <2>2
<1>9. ASSUME PrepareOk PROVE PrepTyped'
  BY <1>9 DEF PrepareOk, dorm
<1>10. ASSUME PrepareError PROVE PrepTyped'
  BY <1>10 DEF PrepareError, Quarantine, dorm
<1>11. ASSUME PollDrain PROVE PrepTyped'
  <2>1. dormant' \cup queued' \cup requeued' \subseteq Shards
    BY <1>11, DrainTakes, AdmitAccounts
  <2> QED BY <1>11, <2>1, DrainTakes
<1>12. ASSUME PollResults PROVE PrepTyped'
  <2>1. UNCHANGED <<files, dormant, requeued, ready, errors, loading>>
    BY <1>12 DEF PollResults, dorm
  <2>2. CASE Head(results).kind = "finish" /\ ApplyRunFinished(Head(results))
    <3>1. AnswerTyped(Head(results))
      BY <1>12 DEF PollResults, MaintTyped
    <3>2. prepQ' \in Seq(Shards) /\ queued' \ queued \subseteq SeqSet(prepQ')
      BY <2>2, <3>1, AnswerQueues
    <3>3. SeqSet(prepQ') \subseteq Shards
      BY <3>2, SeqSetParts
    <3> QED BY <2>1, <3>2, <3>3
  <2>3. CASE ApplyStartChild(Head(results))
    BY <2>1, <2>3 DEF ApplyStartChild
  <2> QED BY <1>12, <2>2, <2>3 DEF PollResults
<1>13. ASSUME ChildPublish PROVE PrepTyped'
  BY <1>13, LiveOverlayAssumption DEF ChildPublish, prep, dorm
<1>14. ASSUME ShutdownKill PROVE PrepTyped'
  BY <1>14 DEF ShutdownKill
<1>15. ASSUME ShutdownEnd PROVE PrepTyped'
  BY <1>15 DEF ShutdownEnd, dorm
<1> QED BY <1>1, <1>2, <1>3, <1>4, <1>5, <1>6, <1>7, <1>8, <1>9, <1>10, <1>11,
           <1>12, <1>13, <1>14, <1>15
        DEF Next, Poll, Prepare, Teardown

LEMMA MaintTypedNext ==
  ASSUME CompilerInv, PrepTyped, MaintTyped, [Next]_vars PROVE MaintTyped'
PROOF
<1> DEFINE Held == <<log, child, jobs, working, results>>
<1>1. UNCHANGED Held => MaintTyped'
  BY DEF MaintTyped, JobTyped, AnswerTyped
<1>2. SceneChange \/ Tier3Entry \/ RequestCompile \/ Reset \/ TriggerNow \/ ChildExit
      \/ UNCHANGED vars => UNCHANGED Held
  BY DEF SceneChange, Tier3Entry, RequestCompile, Reset, TriggerNow, ChildExit, vars,
         maint, comp
<1>3. PollStart \/ PollDrain \/ PollMaint => UNCHANGED Held
  BY DEF PollStart, PollDrain, PollMaint, maint, comp
<1>4. Prepare => UNCHANGED Held
  BY DEF Prepare, PrepareTake, PrepareOk, PrepareError, PrepareEnd, maint, comp
<1>5. Shutdown \/ ShutdownEnd \/ MaintEnd => UNCHANGED Held
  BY DEF Shutdown, ShutdownEnd, MaintEnd, maint, comp
<1>6. ASSUME ChildPublish PROVE MaintTyped'
  <2>1. PICK r \in Runs, s \in Shards : log' = [log EXCEPT ![r] = @ \cup {s}]
    BY <1>6 DEF ChildPublish
  <2>2. log' \in [Runs -> SUBSET Shards]
    BY <2>1 DEF MaintTyped
  <2>3. UNCHANGED <<child, jobs, working, results>>
    BY <1>6 DEF ChildPublish, maint
  <2> QED BY <2>2, <2>3 DEF MaintTyped, JobTyped, AnswerTyped
<1>7. ASSUME MaintTake PROVE MaintTyped'
  <2>1. /\ working = None /\ results = <<>> /\ jobs # <<>> /\ jobs = <<Head(jobs)>>
        /\ Due(Head(jobs)) /\ working' = Head(jobs) /\ jobs' = Tail(jobs)
        /\ UNCHANGED <<log, child, results>>
    BY <1>7 DEF MaintTake, CompilerInv, Pipeline, comp
  <2>2. jobs' = <<>> /\ working'.kind # "done"
    BY <2>1, OneItem DEF Due
  <2> QED BY <2>1, <2>2 DEF MaintTyped, JobTyped, AnswerTyped
<1>8. ASSUME MaintReadLog PROVE MaintTyped'
  <2>1. /\ working # None /\ working.kind = "finish"
        /\ UNCHANGED <<log, child, jobs, results>>
    BY <1>8 DEF MaintReadLog, comp
  <2>2. working.log \subseteq Shards /\ files \subseteq Shards
    BY <2>1 DEF MaintTyped, JobTyped, PrepTyped
  <2> DEFINE a == [kind |-> "finish", ok |-> working.ok,
                   pending |-> working.pending,
                   total |-> Cardinality(working.log),
                   published |-> PublishedPaths(working.log),
                   rescan |-> Fresh(files)]
  <2>3. AnswerTyped(a)
    BY <2>2 DEF AnswerTyped, PublishedPaths, Fresh
  <2>4. working' = [kind |-> "done", res |-> a]
    BY <1>8 DEF MaintReadLog
  <2> HIDE DEF a
  <2>5. working'.kind = "done" /\ working'.res = a
    BY <2>4
  <2> QED BY <2>1, <2>3, <2>5 DEF MaintTyped, JobTyped, AnswerTyped
<1>9. ASSUME MaintSpawn PROVE MaintTyped'
  <2>1. PICK r \in Runs : working' = [kind |-> "done", res |-> Spawned(r)]
    BY <1>9 DEF MaintSpawn
  <2>2. UNCHANGED <<log, child, jobs, results>>
    BY <1>9 DEF MaintSpawn
  <2>3. AnswerTyped(Spawned(r))
    BY DEF AnswerTyped, Spawned
  <2>4. working'.kind = "done" /\ working'.res = Spawned(r)
    BY <2>1
  <2> QED BY <2>2, <2>3, <2>4 DEF MaintTyped, JobTyped, AnswerTyped
<1>10. ASSUME MaintSpawnFails PROVE MaintTyped'
  <2> DEFINE a == [kind |-> "start", ok |-> FALSE]
  <2>1. working' = [kind |-> "done", res |-> a] /\ UNCHANGED <<log, child, jobs, results>>
    BY <1>10 DEF MaintSpawnFails, comp
  <2>2. AnswerTyped(a)
    BY DEF AnswerTyped
  <2> HIDE DEF a
  <2>3. working'.kind = "done" /\ working'.res = a
    BY <2>1
  <2> QED BY <2>1, <2>2, <2>3 DEF MaintTyped, JobTyped, AnswerTyped
<1>11. ASSUME MaintPublish PROVE MaintTyped'
  <2>1. /\ jobs = <<>> /\ results = <<>> /\ working # None /\ working.kind = "done"
        /\ results' = Append(results, working.res) /\ working' = None
        /\ UNCHANGED <<log, child, jobs>>
    BY <1>11 DEF MaintPublish, CompilerInv, Pipeline, WorkingDue, comp
  <2>2. Head(results') = working.res
    BY <2>1, OneItem
  <2> QED BY <2>1, <2>2 DEF MaintTyped, JobTyped, AnswerTyped
<1>12. ASSUME PollResults PROVE MaintTyped'
  <2>1. results = <<Head(results)>> /\ results # <<>> /\ jobs = <<>> /\ working = None
    BY <1>12 DEF PollResults, CompilerInv, Pipeline
  <2>2. results' = <<>> /\ UNCHANGED <<jobs, working, log>>
    BY <1>12, <2>1, OneItem DEF PollResults
  <2>3. child' \in Runs \cup {None}
    <3>1. CASE ApplyRunFinished(Head(results))
      BY <3>1 DEF ApplyRunFinished, MaintTyped
    <3>2. CASE Head(results).kind = "start" /\ ApplyStartChild(Head(results))
      BY <2>1, <3>2 DEF ApplyStartChild, MaintTyped, AnswerTyped
    <3> QED BY <1>12, <3>1, <3>2 DEF PollResults
  <2> QED BY <2>1, <2>2, <2>3 DEF MaintTyped
<1>13. ASSUME PollTail PROVE MaintTyped'
  <2> DEFINE exited == child # None /\ procs[child] = "exited"
             begin == [kind |-> "start", snap |-> filed]
  <2>1. PICK start, ok, pending \in BOOLEAN :
          /\ start => ~startPending /\ ~(finishPending \/ exited)
          /\ child' = IF exited THEN None ELSE child
          /\ log' = [r \in Runs |-> IF exited /\ r = child THEN {} ELSE log[r]]
          /\ jobs' = jobs \o (IF exited THEN <<Reap(ok, pending)>> ELSE <<>>)
                          \o (IF start THEN <<begin>> ELSE <<>>)
    BY <1>13 DEF PollTail, MayStart
  <2>2. start \/ exited => jobs = <<>>
    BY <2>1 DEF CompilerInv, Pipeline, OneOwed, Due
  <2>3. exited => JobTyped(Reap(ok, pending))
    BY DEF MaintTyped, JobTyped, Reap
  <2>4. JobTyped(begin)
    BY DEF JobTyped
  <2> DEFINE done == Reap(ok, pending)
  <2> HIDE DEF begin, done
  <2>5. jobs' # <<>> => JobTyped(Head(jobs'))
    <3>1. CASE exited
      <4>1. jobs' = <<done>>
        BY <2>1, <2>2, <3>1, OneItem, NoItem DEF done
      <4> QED BY <2>3, <3>1, <4>1, OneItem DEF done
    <3>2. CASE ~exited /\ start
      <4>1. jobs' = <<begin>>
        BY <2>1, <2>2, <3>2, OneItem, NoItem
      <4> QED BY <2>4, <4>1, OneItem
    <3>3. CASE ~exited /\ ~start
      <4>1. jobs' = jobs
        <5>1. CASE jobs = <<>>
          BY <2>1, <3>3, <5>1, NoItem
        <5>2. CASE jobs # <<>>
          <6>1. jobs = <<Head(jobs)>>
            BY <5>2 DEF CompilerInv, Pipeline
          <6>2. <<Head(jobs)>> \o <<>> \o <<>> = <<Head(jobs)>>
            BY OneItem
          <6> QED BY <2>1, <3>3, <6>1, <6>2
        <5> QED BY <5>1, <5>2
      <4> QED BY <4>1 DEF MaintTyped, JobTyped
    <3> QED BY <3>1, <3>2, <3>3
  <2>6. log' \in [Runs -> SUBSET Shards] /\ child' \in Runs \cup {None}
    BY <2>1 DEF MaintTyped
  <2>7. UNCHANGED <<working, results>>
    BY <1>13 DEF PollTail
  <2> QED BY <2>5, <2>6, <2>7 DEF MaintTyped, AnswerTyped, JobTyped
<1>14. ASSUME ShutdownKill PROVE MaintTyped'
  BY <1>14 DEF ShutdownKill, MaintTyped, JobTyped, AnswerTyped
<1> QED BY <1>1, <1>2, <1>3, <1>4, <1>5, <1>6, <1>7, <1>8, <1>9, <1>10, <1>11,
           <1>12, <1>13, <1>14
        DEF Next, Poll, Maintain, Teardown

-----------------------------------------------------------------------------
(* The books.                                                              *)

LEMMA VerdictsNext ==
  ASSUME PrepTyped, MaintTyped, Verdicts, [Next]_vars PROVE Verdicts'
PROOF
<1> USE DEF Verdicts
<1> DEFINE Held == <<ready, dormant, requeued, errors, lost>>
<1>1. UNCHANGED Held => Verdicts'
  OBVIOUS
<1>2. SceneChange \/ RequestCompile \/ Reset \/ TriggerNow \/ ChildPublish \/ ChildExit
      \/ UNCHANGED vars => UNCHANGED Held
  BY DEF SceneChange, RequestCompile, Reset, TriggerNow, ChildPublish, ChildExit, vars,
         prep, dorm
<1>3. PollStart \/ PollMaint \/ PollResults \/ PollTail => UNCHANGED Held
  BY DEF PollStart, PollMaint, PollResults, PollTail, prep, dorm
<1>4. Maintain \/ Shutdown => UNCHANGED Held
  BY DEF Maintain, MaintTake, MaintReadLog, MaintSpawn, MaintSpawnFails,
         MaintPublish, MaintEnd, Shutdown, prep, dorm
<1>5. PrepareTake \/ PrepareEnd => UNCHANGED Held
  BY DEF PrepareTake, PrepareEnd, prep, dorm
<1>6. ASSUME Tier3Entry PROVE Verdicts'
  <2>1. requeued' = requeued \cup dormant
    BY <1>6, RequeueQueues DEF Tier3Entry
  <2> QED BY <1>6, <2>1 DEF Tier3Entry
<1>7. ASSUME PrepareOk PROVE Verdicts'
  <2>1. /\ ready' = Append(ready, loading) /\ loading \in Shards
        /\ Shard[loading].kind = "ok" /\ UNCHANGED <<dormant, requeued, errors, lost>>
    BY <1>7 DEF PrepareOk, PassesPreflight, PrepTyped, dorm
  <2>2. SeqSet(ready') = SeqSet(ready) \cup {loading}
    BY <2>1, SeqSetParts DEF PrepTyped
  <2> QED BY <2>1, <2>2
<1>8. ASSUME PrepareError PROVE Verdicts'
  <2>1. /\ errors' = Append(errors, loading) /\ loading \in Shards
        /\ Shard[loading].kind # "ok" \/ loading \in lost'
        /\ lost \subseteq lost' /\ UNCHANGED <<ready, dormant, requeued>>
    BY <1>8 DEF PrepareError, PassesPreflight, PrepTyped, dorm
  <2>2. SeqSet(errors') = SeqSet(errors) \cup {loading}
    BY <2>1, SeqSetParts DEF PrepTyped
  <2> QED BY <2>1, <2>2
<1>9. ASSUME PollDrain PROVE Verdicts'
  <2>1. SeqSet(errors') \subseteq SeqSet(errors)
    BY <1>9, DrainTakes
  <2>2. CASE UNCHANGED <<ready, dormant, requeued, lost>>
    BY <2>1, <2>2
  <2>3. CASE /\ SeqSet(ready) = {Head(ready)} \cup SeqSet(ready')
             /\ \E n \in {0, 1} : Admit(Head(ready), n)
    <3>1. /\ lost \subseteq lost' /\ requeued' \subseteq requeued
          /\ dormant' \subseteq dormant \cup {Head(ready)}
      BY <2>3, AdmitAccounts
    <3> QED BY <2>1, <2>3, <3>1
  <2> QED BY <1>9, <2>2, <2>3, DrainTakes
<1>10. ASSUME ShutdownKill PROVE Verdicts'
  BY <1>10 DEF ShutdownKill
<1>11. ASSUME ShutdownEnd PROVE Verdicts'
  BY <1>11 DEF ShutdownEnd, dorm, SeqSet
<1> QED BY <1>1, <1>2, <1>3, <1>4, <1>5, <1>6, <1>7, <1>8, <1>9, <1>10, <1>11
        DEF Next, Poll, Prepare, Teardown

LEMMA EndsNext == Ends /\ PrepTyped /\ [Next]_vars => Ends'
PROOF
<1> SUFFICES ASSUME Ends, PrepTyped, [Next]_vars PROVE Ends'
  OBVIOUS
<1> USE DEF Ends
<1> DEFINE Held == <<stopping, ended, requeued>>
           Going == pc' \notin {"joinPrepare", "stopped"} \/ pc' = pc
<1>1. UNCHANGED Held /\ Going => Ends'
  OBVIOUS
<1>2. SceneChange \/ RequestCompile \/ Reset \/ TriggerNow \/ ChildPublish \/ ChildExit
      \/ UNCHANGED vars => UNCHANGED Held /\ Going
  BY DEF SceneChange, RequestCompile, Reset, TriggerNow, ChildPublish, ChildExit, vars,
         dorm, stop, ClaimPrepared, ClaimResults
<1>3. PollStart \/ PollMaint \/ PollResults \/ PollTail => UNCHANGED Held /\ Going
  BY DEF PollStart, PollMaint, PollResults, PollTail, dorm, stop, ClaimPrepared,
         ClaimResults
<1>4. PrepareTake \/ PrepareOk \/ PrepareError => UNCHANGED Held /\ Going
  BY DEF PrepareTake, PrepareOk, PrepareError, dorm, stop
<1>5. MaintTake \/ MaintReadLog \/ MaintSpawn \/ MaintSpawnFails \/ MaintPublish
        => UNCHANGED Held /\ Going
  BY DEF MaintTake, MaintReadLog, MaintSpawn, MaintSpawnFails, MaintPublish, dorm, stop
<1>6. PrepareEnd \/ MaintEnd => Ends'
  BY DEF PrepareEnd, MaintEnd, dorm
<1>7. Tier3Entry => Ends'
  BY DEF Tier3Entry, stop
<1>8. PollDrain => Ends'
  BY DEF PollDrain, stop
<1>9. Shutdown \/ ShutdownKill => Ends'
  BY DEF Shutdown, ShutdownKill, AskToStop, dorm
<1>10. ShutdownEnd => Ends'
  BY DEF ShutdownEnd, dorm, stop
<1> QED BY <1>1, <1>2, <1>3, <1>4, <1>5, <1>6, <1>7, <1>8, <1>9, <1>10
        DEF Next, Poll, Prepare, Maintain, Teardown

(* A step that keeps the books: what was queued, on its way, recorded or   *)
(* resident is so still, and what is newly known as seen or as requeued is *)
(* on the prepare queue.                                                   *)
Keeps ==
  /\ queued' \ queued \subseteq SeqSet(prepQ')
  /\ requeued' \ requeued \subseteq SeqSet(prepQ')
  /\ \A s \in Shards : InPipeline(s) => InPipeline(s)'
  /\ dormant \subseteq dormant' /\ loaded \subseteq loaded' /\ lost \subseteq lost'
  /\ \A g : (\E o \in registered : Shard[o].gen = g)
              => \E o \in registered' : Shard[o].gen = g
  /\ stopping \subseteq stopping'

LEMMA KeepsBooks ==
  ASSUME PrepTyped, SeenIsAccounted, RequeuedIsInFlight, Keeps
  PROVE  SeenIsAccounted' /\ RequeuedIsInFlight'
PROOF
<1>1. ASSUME NEW s \in queued' \ lost', Shard[s].kind = "ok", stopping' = {}
      PROVE  \/ InPipeline(s)' \/ s \in dormant'
             \/ \E o \in registered' : Shard[o].gen = Shard[s].gen
             \/ \E o \in loaded' : Shard[o].cand = Shard[s].cand
  <2>1. CASE s \in SeqSet(prepQ')
    BY <2>1 DEF InPipeline
  <2>2. CASE s \in queued
    <3>1. s \in queued \ lost /\ stopping = {} /\ s \in Shards
      BY <1>1, <2>2 DEF Keeps, PrepTyped
    <3>2. \/ InPipeline(s) \/ s \in dormant
          \/ \E o \in registered : Shard[o].gen = Shard[s].gen
          \/ \E o \in loaded : Shard[o].cand = Shard[s].cand
      BY <1>1, <3>1 DEF SeenIsAccounted, Recorded, SameCandidate
    <3> QED BY <3>1, <3>2 DEF Keeps
  <2> QED BY <1>1, <2>1, <2>2 DEF Keeps
<1>2. SeenIsAccounted'
  BY <1>1 DEF SeenIsAccounted, Recorded, SameCandidate
<1>3. ASSUME NEW s \in requeued' \ lost' PROVE InPipeline(s)'
  <2>1. CASE s \in SeqSet(prepQ')
    BY <2>1 DEF InPipeline
  <2>2. CASE s \in requeued
    BY <1>3, <2>2 DEF Keeps, PrepTyped, RequeuedIsInFlight
  <2> QED BY <1>3, <2>1, <2>2 DEF Keeps
<1>4. RequeuedIsInFlight'
  BY <1>3 DEF RequeuedIsInFlight
<1> QED BY <1>2, <1>4

LEMMA StepsKeep ==
  ASSUME PrepTyped, MaintTyped, BanksInv, [Next]_vars,
         ~PollDrain, ~ShutdownKill, ~ShutdownEnd
  PROVE  Keeps
PROOF
<1> DEFINE Shelf == <<dormant, loaded, lost, registered, stopping>>
           Belt == <<queued, requeued, prepQ, loading, ready, errors>>
<1>1. UNCHANGED Shelf /\ UNCHANGED Belt => Keeps
  BY DEF Keeps, InPipeline
<1>2. SceneChange \/ RequestCompile \/ TriggerNow \/ ChildPublish \/ ChildExit
      \/ UNCHANGED vars => UNCHANGED Shelf /\ UNCHANGED Belt
  BY DEF SceneChange, RequestCompile, TriggerNow, ChildPublish, ChildExit, vars,
         banks, prep, dorm, stop
<1>3. PollStart \/ PollMaint \/ PollTail => UNCHANGED Shelf /\ UNCHANGED Belt
  BY DEF PollStart, PollMaint, PollTail, banks, prep, dorm, stop
<1>4. Maintain => UNCHANGED Shelf /\ UNCHANGED Belt
  BY DEF Maintain, MaintTake, MaintReadLog, MaintSpawn, MaintSpawnFails,
         MaintPublish, MaintEnd, banks, prep, dorm, stop
<1>5. PrepareEnd => UNCHANGED Shelf /\ UNCHANGED Belt
  BY DEF PrepareEnd, banks, prep, dorm
<1>6. Shutdown => Keeps
  BY DEF Shutdown, AskToStop, banks, prep, dorm, Keeps, InPipeline
<1>7. ASSUME Tier3Entry PROVE Keeps
  <2>1. UNCHANGED Shelf /\ UNCHANGED <<queued, loading, ready, errors>>
    BY <1>7 DEF Tier3Entry, banks, stop
  <2>2. /\ SeqSet(prepQ') = SeqSet(prepQ) \cup (dormant \ requeued)
        /\ requeued' = requeued \cup dormant
    BY <1>7, RequeueQueues DEF Tier3Entry
  <2> QED BY <2>1, <2>2 DEF Keeps, InPipeline
<1>8. ASSUME Reset PROVE Keeps
  <2>1. /\ UNCHANGED <<dormant, loaded, lost, stopping>>
        /\ UNCHANGED <<requeued, loading, ready, errors>>
        /\ registered' = registered
    BY <1>8 DEF Reset, dorm, stop, BanksInv, BanksAgree
  <2>2. /\ SeqSet(prepQ') = SeqSet(prepQ) \cup (files \ queued)
        /\ queued' = queued \cup files
    BY <1>8, ResetQueues
  <2> QED BY <2>1, <2>2 DEF Keeps, InPipeline
<1>9. ASSUME PrepareTake PROVE Keeps
  <2>1. /\ UNCHANGED Shelf /\ UNCHANGED <<queued, requeued, ready, errors>>
        /\ loading = None /\ loading' = Head(prepQ) /\ prepQ # <<>>
        /\ prepQ' = Tail(prepQ)
    BY <1>9 DEF PrepareTake, banks, dorm, stop
  <2>2. SeqSet(prepQ) = {loading'} \cup SeqSet(prepQ')
    BY <2>1, SeqSetParts DEF PrepTyped
  <2> QED BY <2>1, <2>2, LiveOverlayAssumption DEF Keeps, InPipeline
<1>10. ASSUME PrepareOk PROVE Keeps
  <2>1. /\ UNCHANGED Shelf /\ UNCHANGED <<queued, requeued, prepQ, errors>>
        /\ loading \in Shards /\ ready' = Append(ready, loading)
    BY <1>10 DEF PrepareOk, PrepTyped, banks, dorm, stop
  <2>2. SeqSet(ready') = SeqSet(ready) \cup {loading}
    BY <2>1, SeqSetParts DEF PrepTyped
  <2> QED BY <2>1, <2>2 DEF Keeps, InPipeline
<1>11. ASSUME PrepareError PROVE Keeps
  <2>1. /\ UNCHANGED <<dormant, loaded, registered, stopping>> /\ lost \subseteq lost'
        /\ UNCHANGED <<queued, requeued, prepQ, ready>>
        /\ loading \in Shards /\ errors' = Append(errors, loading)
    BY <1>11 DEF PrepareError, PrepTyped, banks, dorm, stop
  <2>2. SeqSet(errors') = SeqSet(errors) \cup {loading}
    BY <2>1, SeqSetParts DEF PrepTyped
  <2> QED BY <2>1, <2>2 DEF Keeps, InPipeline
<1>12. ASSUME PollResults PROVE Keeps
  <2>1. UNCHANGED Shelf /\ UNCHANGED <<requeued, loading, ready, errors>>
    BY <1>12 DEF PollResults, banks, dorm, stop
  <2>2. CASE Head(results).kind = "finish" /\ ApplyRunFinished(Head(results))
    <3>1. AnswerTyped(Head(results))
      BY <1>12 DEF PollResults, MaintTyped
    <3> QED BY <2>1, <2>2, <3>1, AnswerQueues DEF Keeps, InPipeline
  <2>3. CASE ApplyStartChild(Head(results))
    BY <1>1, <2>1, <2>3 DEF ApplyStartChild
  <2> QED BY <1>12, <2>2, <2>3 DEF PollResults
<1> QED BY <1>1, <1>2, <1>3, <1>4, <1>5, <1>6, <1>7, <1>8, <1>9, <1>10, <1>11, <1>12
        DEF Next, Poll, Prepare, Teardown

(* The drain: an error it takes was refused or given up, and the bank it   *)
(* takes is accounted for by its admission.                                *)
LEMMA DrainKeepsBooks ==
  ASSUME PrepTyped, Verdicts, SeenIsAccounted, RequeuedIsInFlight, PollDrain
  PROVE  SeenIsAccounted' /\ RequeuedIsInFlight'
PROOF
<1> DEFINE head == Head(ready)
<1>1. /\ UNCHANGED <<prepQ, loading, stopping>>
      /\ \A s \in SeqSet(errors) :
           Shard[s].kind = "ok" /\ s \notin lost => s \in SeqSet(errors')
  <2>1. CASE errors = <<>>
    BY <2>1, DrainTakes
  <2>2. CASE errors # <<>>
    <3>1. /\ SeqSet(errors) = {Head(errors)} \cup SeqSet(errors')
          /\ Head(errors) \in SeqSet(errors)
      BY <2>2, DrainTakes
    <3>2. Shard[Head(errors)].kind # "ok" \/ Head(errors) \in lost
      BY <3>1 DEF Verdicts
    <3> QED BY <3>1, <3>2, DrainTakes
  <2> QED BY <2>1, <2>2
<1>2. CASE /\ ready' = ready
           /\ UNCHANGED <<loaded, registered, queued, dormant, requeued, lost>>
  <2>1. \A s \in Shards : InPipeline(s) /\ Shard[s].kind = "ok" /\ s \notin lost
                            => InPipeline(s)'
    BY <1>1, <1>2 DEF InPipeline
  <2>2. SeenIsAccounted'
    BY <1>1, <1>2, <2>1 DEF SeenIsAccounted, Recorded, SameCandidate, PrepTyped
  <2>3. RequeuedIsInFlight'
    BY <1>2, <2>1 DEF RequeuedIsInFlight, Verdicts, PrepTyped
  <2> QED BY <2>2, <2>3
<1>3. CASE /\ SeqSet(ready) = {head} \cup SeqSet(ready')
           /\ \E n \in {0, 1} : Admit(head, n)
  <2>1. /\ queued' \subseteq queued /\ lost \subseteq lost' /\ loaded \subseteq loaded'
        /\ dormant \ {head} \subseteq dormant' /\ requeued' \subseteq requeued
        /\ head \in requeued' => head \in lost'
        /\ \A g : (\E o \in registered : Shard[o].gen = g)
                    => \E o \in registered' : Shard[o].gen = g
        /\ head \in queued' \ lost' =>
             \/ head \in dormant'
             \/ \E o \in registered' : Shard[o].gen = Shard[head].gen
             \/ \E o \in loaded' : Shard[o].cand = Shard[head].cand
    BY <1>3, AdmitAccounts
  <2> HIDE DEF head
  <2>2. \A s \in Shards \ {head} : InPipeline(s) /\ Shard[s].kind = "ok" /\ s \notin lost
                                     => InPipeline(s)'
    BY <1>1, <1>3 DEF InPipeline
  <2>3. ASSUME NEW s \in queued' \ lost', Shard[s].kind = "ok", stopping' = {}
        PROVE  \/ InPipeline(s)' \/ s \in dormant'
               \/ \E o \in registered' : Shard[o].gen = Shard[s].gen
               \/ \E o \in loaded' : Shard[o].cand = Shard[s].cand
    <3>1. CASE s = head
      BY <2>1, <2>3, <3>1
    <3>2. CASE s # head
      <4>1. s \in queued \ lost /\ s \in Shards /\ stopping = {}
        BY <1>1, <2>1, <2>3 DEF PrepTyped
      <4>2. \/ InPipeline(s) \/ s \in dormant
            \/ \E o \in registered : Shard[o].gen = Shard[s].gen
            \/ \E o \in loaded : Shard[o].cand = Shard[s].cand
        BY <2>3, <4>1 DEF SeenIsAccounted, Recorded, SameCandidate
      <4> QED BY <2>1, <2>2, <2>3, <3>2, <4>1, <4>2
    <3> QED BY <3>1, <3>2
  <2>4. SeenIsAccounted'
    BY <2>3 DEF SeenIsAccounted, Recorded, SameCandidate
  <2>5. ASSUME NEW s \in requeued' \ lost' PROVE InPipeline(s)'
    <3>1. /\ s # head /\ s \in requeued \ lost /\ s \in Shards /\ Shard[s].kind = "ok"
      BY <2>1, <2>5 DEF Verdicts, PrepTyped
    <3> QED BY <2>2, <3>1 DEF RequeuedIsInFlight
  <2>6. RequeuedIsInFlight'
    BY <2>5 DEF RequeuedIsInFlight
  <2> QED BY <2>4, <2>6
<1> QED BY <1>2, <1>3, DrainTakes

(* After the teardown has begun nothing is owed any more.                  *)
LEMMA TeardownKeepsBooks ==
  ASSUME Ends, ShutdownKill \/ ShutdownEnd
  PROVE  SeenIsAccounted' /\ RequeuedIsInFlight'
PROOF
<1>1. stopping' # {} /\ requeued' = {}
  <2>1. CASE ShutdownKill
    BY <2>1 DEF ShutdownKill, AskToStop
  <2>2. CASE ShutdownEnd
    BY <2>2 DEF ShutdownEnd, Ends, stop, dorm
  <2> QED BY <2>1, <2>2
<1> QED BY <1>1 DEF SeenIsAccounted, RequeuedIsInFlight

LEMMA ShardsNext ==
  CompilerInv /\ BanksInv /\ ShardsInv /\ [Next]_vars => ShardsInv'
PROOF
<1> SUFFICES ASSUME CompilerInv, BanksInv, ShardsInv, [Next]_vars PROVE ShardsInv'
  OBVIOUS
<1> USE DEF ShardsInv
<1>1. PrepTyped' /\ MaintTyped'
  BY PrepTypedNext, MaintTypedNext
<1>2. Verdicts' /\ Ends'
  BY VerdictsNext, EndsNext
<1>3. SeenIsAccounted' /\ RequeuedIsInFlight'
  <2>1. CASE PollDrain
    BY <2>1, DrainKeepsBooks
  <2>2. CASE ShutdownKill \/ ShutdownEnd
    BY <2>2, TeardownKeepsBooks
  <2>3. CASE ~PollDrain /\ ~ShutdownKill /\ ~ShutdownEnd
    BY <2>3, StepsKeep, KeepsBooks
  <2> QED BY <2>1, <2>2, <2>3
<1> QED BY <1>1, <1>2, <1>3

(* Nothing the workers made is lost: every result is announced, every row  *)
(* of an adopted bank is served, every path known as seen leads to a shard *)
(* that is on its way, recorded, resident or covered, and every requeued   *)
(* record is on its way to its second look; a failed load and a full table *)
(* of dormant candidates are the only ways a shard is given up.            *)
THEOREM NothingIsLost == Spec => []NothingLost
PROOF
<1>1. Init => CompilerInv /\ BanksInv /\ ShardsInv
  BY CompilerInit, ShardsInit DEF Init, BanksInv, BanksAgree, RowsKept
<1>2. ShardsInv /\ BanksInv /\ NoStrandedResult => NothingLost
  BY DEF ShardsInv, BanksInv, NothingLost
<1> QED BY <1>1, <1>2, CompilerNext, BanksNext, ShardsNext, ResultsAnnounced, PTL DEF Spec
=============================================================================
