----------------------------- MODULE TestRunner -----------------------------
(***************************************************************************)
(* test.py: run_tests dispatches jobs (test suites and examples) to worker *)
(* threads through input_queue, collects them from output_queue, joins the *)
(* threads and returns 0 if every test passed or was skipped.              *)
(*                                                                         *)
(* A job is known by its number in the order of dispatch; Break is the job *)
(* that ends a worker.  SIGINT sets thread_exit at any time.  The program  *)
(* of a job ends with any exit status, and so it does when SIGINT reaches  *)
(* it; its output may not be decodable, which run_job_synchronously turns  *)
(* into return code 1; and starting it may raise an exception, which ends  *)
(* the worker thread.  A suite that ran to its end left its file of XML; a *)
(* suite that crashed may have left a part of it, or nothing.  run_tests   *)
(* may meet an exception itself, in the loops over the examples before the *)
(* workers were told to go home, or because a file of XML is not there.    *)
(***************************************************************************)
EXTENDS Integers, Sequences, FiniteSets

CONSTANTS
  Worker,     \* worker threads, one per processor
  JobLists,   \* what may be run: sequences of records [kind, skip]
  MaxDeaths   \* bound: workers that meet an exception

ASSUME JobAssumption ==
  /\ IsFiniteSet(Worker) /\ Worker # {} /\ MaxDeaths \in Nat
  /\ JobLists \subseteq Seq([kind : {"suite", "example"}, skip : BOOLEAN])

VARIABLES
  list,         \* the jobs of this run
  dispatched,   \* jobs: how many were put into input_queue
  breaks,       \* how many Breaks were
  inputQueue,   \* numbers of jobs, and Breaks
  outputQueue,  \* numbers of jobs
  threadExit,   \* thread_exit
  worker,       \* per worker, its job, or Waiting, Exited or Dead
  isBreak,      \* per job, job.is_break
  returncode,   \* per job, job.returncode
  xml,          \* per job, its temporary file
  truth,        \* per job, how its program ended
  lost,         \* jobs whose worker died
  turns,        \* how many jobs were got from output_queue
  collected,    \* these jobs
  count,        \* per status, how many tests
  main          \* where run_tests is, or its value

jobVars == <<isBreak, returncode, xml, truth>>
mainVars == <<list, dispatched, breaks, turns, collected, count, main>>
vars == <<list, dispatched, breaks, inputQueue, outputQueue, threadExit,
          worker, isBreak, returncode, xml, truth, lost, turns, collected,
          count, main>>

Break == 0
Waiting == -1
Exited == -2
Dead == -3

Jobs == DOMAIN list
Statuses == {"PASS", "FAIL", "VALGR", "CRASH", "SKIP"}
Crashed == 139

Init ==
  /\ list \in JobLists
  /\ dispatched = 0 /\ breaks = 0
  /\ inputQueue = <<>> /\ outputQueue = <<>>
  /\ threadExit = FALSE
  /\ worker = [w \in Worker |-> Waiting]
  /\ isBreak = [j \in Jobs |-> FALSE]
  /\ returncode = [j \in Jobs |-> 0]
  /\ xml = [j \in Jobs |-> "none"]
  /\ truth = [j \in Jobs |-> "unrun"]
  /\ lost = {} /\ turns = 0 /\ collected = {}
  /\ count = [s \in Statuses |-> 0]
  /\ main = "dispatch"
-----------------------------------------------------------------------------
\* sigint_hook.
Interrupt == /\ ~threadExit /\ main \in {"dispatch", "collect", "join"}
             /\ threadExit' = TRUE
             /\ UNCHANGED <<mainVars, inputQueue, outputQueue, worker, jobVars,
                            lost>>

\* run_tests puts a job into the queue, also one to be skipped.
Dispatch ==
  /\ main = "dispatch" /\ dispatched < Len(list)
  /\ dispatched' = dispatched + 1
  /\ inputQueue' = Append(inputQueue, dispatched')
  /\ UNCHANGED <<list, breaks, outputQueue, threadExit, worker, jobVars, lost,
                 turns, collected, count, main>>

\* Wrong: the workers are told to go home before the last job is dispatched.
DispatchBreakEarly ==
  /\ main = "dispatch" /\ dispatched >= Len(list) - 1
  /\ breaks < Cardinality(Worker)
  /\ breaks' = breaks + 1
  /\ inputQueue' = Append(inputQueue, Break)
  /\ UNCHANGED <<list, dispatched, outputQueue, threadExit, worker, jobVars,
                 lost, turns, collected, count, main>>

\* Wrong: one worker is forgotten.
DispatchBreakFew ==
  /\ main = "dispatch" /\ dispatched = Len(list)
  /\ breaks' = breaks + 1
  /\ inputQueue' = IF breaks = 0 THEN inputQueue ELSE Append(inputQueue, Break)
  /\ main' = IF breaks' = Cardinality(Worker) THEN "collect" ELSE main
  /\ UNCHANGED <<list, dispatched, outputQueue, threadExit, worker, jobVars,
                 lost, turns, collected, count>>

\* After the last job, a Break per worker.
DispatchBreak ==
  /\ main = "dispatch" /\ dispatched = Len(list)
  /\ breaks' = breaks + 1
  /\ inputQueue' = Append(inputQueue, Break)
  /\ main' = IF breaks' = Cardinality(Worker) THEN "collect" ELSE main
  /\ UNCHANGED <<list, dispatched, outputQueue, threadExit, worker, jobVars,
                 lost, turns, collected, count>>

\* An exception in the loops over the examples and the Python examples, behind
\* the suites: a condition that eval cannot evaluate, or a variable of the
\* configuration that was not set.  No Break is put into the queue.
DispatchFails ==
  /\ main = "dispatch" /\ breaks = 0
  /\ \A j \in (dispatched + 1)..Len(list) : list[j].kind = "example"
  /\ main' = "aborted"
  /\ UNCHANGED <<list, dispatched, breaks, inputQueue, outputQueue, threadExit,
                 worker, jobVars, lost, turns, collected, count>>
-----------------------------------------------------------------------------
\* Wrong: after SIGINT the job is put back without is_break.
GetUnbroken(w) ==
  /\ worker[w] = Waiting /\ inputQueue # <<>>
  /\ inputQueue' = Tail(inputQueue)
  /\ LET job == Head(inputQueue) IN
       \/ /\ job = Break
          /\ worker' = [worker EXCEPT ![w] = Exited]
          /\ UNCHANGED outputQueue
       \/ /\ job # Break /\ (threadExit \/ list[job].skip)
          /\ outputQueue' = Append(outputQueue, job)
          /\ UNCHANGED worker
       \/ /\ job # Break /\ ~threadExit /\ ~list[job].skip
          /\ worker' = [worker EXCEPT ![w] = job]
          /\ UNCHANGED outputQueue
  /\ UNCHANGED <<mainVars, threadExit, isBreak, returncode, xml, truth, lost>>

\* Wrong: a job to be skipped is put back, and run none the less.
GetContinues(w) ==
  /\ worker[w] = Waiting /\ inputQueue # <<>>
  /\ inputQueue' = Tail(inputQueue)
  /\ LET job == Head(inputQueue) IN
       \/ /\ job = Break
          /\ worker' = [worker EXCEPT ![w] = Exited]
          /\ UNCHANGED <<outputQueue, isBreak>>
       \/ /\ job # Break /\ threadExit
          /\ isBreak' = [isBreak EXCEPT ![job] = TRUE]
          /\ outputQueue' = Append(outputQueue, job)
          /\ UNCHANGED worker
       \/ /\ job # Break /\ ~threadExit
          /\ outputQueue' = IF list[job].skip THEN Append(outputQueue, job)
                            ELSE outputQueue
          /\ worker' = [worker EXCEPT ![w] = job]
          /\ UNCHANGED isBreak
  /\ UNCHANGED <<mainVars, threadExit, returncode, xml, truth, lost>>

\* worker_thread.run gets a job: a Break ends it; after SIGINT the job is put
\* back with is_break; a job to be skipped is put back as it is.
Get(w) ==
  /\ worker[w] = Waiting /\ inputQueue # <<>>
  /\ inputQueue' = Tail(inputQueue)
  /\ LET job == Head(inputQueue) IN
       \/ /\ job = Break
          /\ worker' = [worker EXCEPT ![w] = Exited]
          /\ UNCHANGED <<outputQueue, isBreak>>
       \/ /\ job # Break /\ threadExit
          /\ isBreak' = [isBreak EXCEPT ![job] = TRUE]
          /\ outputQueue' = Append(outputQueue, job)
          /\ UNCHANGED worker
       \/ /\ job # Break /\ ~threadExit /\ list[job].skip
          /\ outputQueue' = Append(outputQueue, job)
          /\ UNCHANGED <<worker, isBreak>>
       \/ /\ job # Break /\ ~threadExit /\ ~list[job].skip
          /\ worker' = [worker EXCEPT ![w] = job]
          /\ UNCHANGED <<outputQueue, isBreak>>
  /\ UNCHANGED <<mainVars, threadExit, returncode, xml, truth, lost>>

\* run_job_synchronously returns: the exit status, or 1 if the output cannot
\* be decoded.
Finish(w) ==
  /\ worker[w] \in Jobs
  /\ LET job == worker[w] IN
     \E status \in {0, 1, 2, Crashed}, decodable \in BOOLEAN :
       /\ returncode' = [returncode EXCEPT ![job] =
                           IF decodable THEN status ELSE 1]
       /\ truth' = [truth EXCEPT ![job] =
                      IF status = 0 /\ decodable THEN "passed" ELSE "troubled"]
       /\ \E file \in IF list[job].kind = "example" THEN {"none"}
                      ELSE IF status = Crashed THEN {"none", "part"}
                      ELSE {"whole"} :
            xml' = [xml EXCEPT ![job] = file]
       /\ outputQueue' = Append(outputQueue, job)
  /\ worker' = [worker EXCEPT ![w] = Waiting]
  /\ UNCHANGED <<mainVars, inputQueue, threadExit, isBreak, lost>>

\* An exception in run_job_synchronously: nobody puts the job back.
Dies(w) ==
  /\ worker[w] \in Jobs /\ Cardinality(lost) < MaxDeaths
  /\ lost' = lost \cup {worker[w]}
  /\ worker' = [worker EXCEPT ![w] = Dead]
  /\ UNCHANGED <<mainVars, inputQueue, outputQueue, threadExit, jobVars>>
-----------------------------------------------------------------------------
\* PASS, FAIL, VALGR and CRASH by the return code; that of a skipped job is
\* undefined.
StatusOf(job) ==
  CASE list[job].skip -> "SKIP"
    [] ~list[job].skip /\ returncode[job] = 0 -> "PASS"
    [] ~list[job].skip /\ returncode[job] = 1 -> "FAIL"
    [] ~list[job].skip /\ returncode[job] = 2 -> "VALGR"
    [] OTHER -> "CRASH"

\* The file of a suite is opened unless the suite was skipped or crashed.
Opened(job) == /\ list[job].kind = "suite" /\ ~list[job].skip
               /\ returncode[job] \in {0, 1, 2}

\* One turn of the loop that collects; an exception if there is no file.
Collect ==
  /\ main = "collect" /\ turns < dispatched /\ outputQueue # <<>>
  /\ turns' = turns + 1
  /\ LET job == Head(outputQueue) IN
       /\ outputQueue' = Tail(outputQueue)
       /\ collected' = collected \cup {job}
       /\ \/ /\ isBreak[job]
             /\ UNCHANGED <<count, main>>
          \/ /\ ~isBreak[job]
             /\ count' = [count EXCEPT ![StatusOf(job)] = @ + 1]
             /\ main' = IF Opened(job) /\ xml[job] = "none" THEN "aborted"
                        ELSE main
  /\ UNCHANGED <<list, dispatched, breaks, inputQueue, threadExit, worker,
                 jobVars, lost>>

\* All were collected.
CollectEnds ==
  /\ main = "collect" /\ turns = dispatched
  /\ main' = "join"
  /\ UNCHANGED <<list, dispatched, breaks, inputQueue, outputQueue, threadExit,
                 worker, jobVars, lost, turns, collected, count>>

\* All threads are joined.
Return ==
  /\ main = "join" /\ \A w \in Worker : worker[w] \in {Exited, Dead}
  /\ main' = IF count["PASS"] + count["SKIP"] = dispatched THEN "success"
             ELSE "failure"
  /\ UNCHANGED <<list, dispatched, breaks, inputQueue, outputQueue, threadExit,
                 worker, jobVars, lost, turns, collected, count>>

Main == Dispatch \/ DispatchBreak \/ Collect \/ CollectEnds \/ Return

Next == \/ Interrupt
        \/ Main
        \/ DispatchFails
        \/ \E w \in Worker : Get(w) \/ Finish(w) \/ Dies(w)

\* Every thread runs, and the programs of the tests end.
Fairness == /\ WF_vars(Main)
            /\ \A w \in Worker : WF_vars(Get(w) \/ Finish(w))

Spec == Init /\ [][Next]_vars /\ Fairness
-----------------------------------------------------------------------------
TypeOK ==
  /\ list \in JobLists
  /\ dispatched \in 0..Len(list) /\ turns \in 0..dispatched
  /\ breaks \in 0..Cardinality(Worker)
  /\ inputQueue \in Seq(Jobs \cup {Break}) /\ outputQueue \in Seq(Jobs)
  /\ threadExit \in BOOLEAN
  /\ worker \in [Worker -> Jobs \cup {Waiting, Exited, Dead}]
  /\ isBreak \in [Jobs -> BOOLEAN]
  /\ returncode \in [Jobs -> {0, 1, 2, Crashed}]
  /\ xml \in [Jobs -> {"none", "part", "whole"}]
  /\ truth \in [Jobs -> {"unrun", "passed", "troubled"}]
  /\ lost \subseteq Jobs /\ collected \subseteq Jobs
  /\ count \in [Statuses -> 0..Len(list)]
  /\ main \in {"dispatch", "collect", "join", "success", "failure", "aborted"}

\* run_tests returns 0 only if every test was skipped or ran and passed, be
\* some interrupted or lost; and another value only for a reason.
ReturnIsTrue ==
  /\ main = "success" => \A j \in Jobs : list[j].skip \/ truth[j] = "passed"
  /\ main = "failure" =>
       threadExit \/ \E j \in Jobs : ~list[j].skip /\ truth[j] = "troubled"

\* A dispatched job is in one place: with nobody, with one worker, put back,
\* collected or lost.
JobsAreKept ==
  \A j \in 1..dispatched :
    Cardinality({i \in DOMAIN inputQueue : inputQueue[i] = j})
    + Cardinality({w \in Worker : worker[w] = j})
    + Cardinality({i \in DOMAIN outputQueue : outputQueue[i] = j})
    + Cardinality(({j} \cap collected)) + Cardinality(({j} \cap lost)) = 1

\* Through every queue and every exception, with the types of what they hold.
Consistent == TypeOK /\ JobsAreKept

\* No worker has gone home while a job waits for one.
NothingStranded ==
  (\E w \in Worker : worker[w] = Exited) =>
    /\ dispatched = Len(list)
    /\ \A i \in DOMAIN inputQueue : inputQueue[i] = Break

\* The loop that collects waits in output_queue.get() for jobs whose workers
\* died, and for no other unless all workers died.
WaitsForTheLost ==
  /\ main = "collect" /\ lost # {} /\ outputQueue = <<>>
  /\ \A w \in Worker : worker[w] \in {Exited, Dead}
  /\ \/ Jobs = collected \cup lost
     \/ \A w \in Worker : worker[w] = Dead

\* run_tests ends, interrupted or not, or all that can be done was done and it
\* waits for the job of a worker that died.
RunEnds == <>(main \in {"success", "failure", "aborted"} \/ WaitsForTheLost)

\* Workers in input_queue.get(), which nobody will put anything into: they are
\* no daemons and keep the process.
LeftBehind(w) == breaks = 0 /\ worker[w] = Waiting /\ inputQueue = <<>>

\* An exception of the loop that collects leaves no worker behind, as the
\* Breaks are in the queue by then.  One of the loops that dispatch leaves all
\* that are alive, after they ran what was dispatched.
WorkersEnd ==
  main = "aborted" ~>
    \A w \in Worker : worker[w] \in {Exited, Dead} \/ LeftBehind(w)

\* Whatever SIGINT and exceptions do, the run comes to an end, or to one of the
\* two places where the code leaves somebody waiting for ever.
EverythingEnds == RunEnds /\ WorkersEnd
=============================================================================
