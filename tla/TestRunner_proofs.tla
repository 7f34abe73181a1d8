------------------------ MODULE TestRunner_proofs ------------------------
(***************************************************************************)
(* Theorems about TestRunner: for every list of jobs, every number of      *)
(* workers and of exceptions in them, and whenever SIGINT comes.           *)
(*                                                                         *)
(* The argument: a job is always in exactly one place - a queue, a worker, *)
(* the set of the collected or of the lost -, so what its worker wrote     *)
(* into it stays as it is while it goes back and is counted.               *)
(***************************************************************************)
EXTENDS TestRunner, FiniteSetTheorems, SequenceTheorems, TLAPS

\* Where in a sequence a job is, and at which workers.
Spots(s, j) == {i \in DOMAIN s : s[i] = j}
Holders(f, j) == {w \in Worker : f[w] = j}

\* In how many places a job is: JobsAreKept.
Places(j) ==
  Cardinality(Spots(inputQueue, j)) + Cardinality(Holders(worker, j))
  + Cardinality(Spots(outputQueue, j))
  + Cardinality(({j} \cap collected)) + Cardinality(({j} \cap lost))

\* A job that was dispatched is in one place, others are in none.
KeptInv == \A j \in Jobs : Places(j) = IF j \in 1..dispatched THEN 1 ELSE 0

\* In the queue the Breaks are behind all jobs, and a worker has gone home
\* only when nothing else is left.
BreaksLast ==
  /\ \A i \in DOMAIN inputQueue : inputQueue[i] = Break =>
       /\ dispatched = Len(list)
       /\ \A k \in DOMAIN inputQueue : i <= k => inputQueue[k] = Break
  /\ NothingStranded

MainInv ==
  /\ main = "dispatch" => breaks < Cardinality(Worker) /\ turns = 0
  /\ main \notin {"dispatch", "aborted"} => dispatched = Len(list)
  /\ main \in {"join", "success", "failure"} => turns = dispatched
  /\ main \in {"success", "failure"} =>
       \A w \in Worker : worker[w] \in {Exited, Dead}

\* A job that is back was skipped, interrupted, or has a return code that is
\* the truth about it.
Back(j) == j \in collected \/ \E i \in DOMAIN outputQueue : outputQueue[i] = j
TruthInv ==
  \A j \in Jobs :
    /\ isBreak[j] => threadExit
    /\ Back(j) =>
         \/ isBreak[j]
         \/ list[j].skip
         \/ truth[j] = "passed" /\ returncode[j] = 0
         \/ truth[j] = "troubled" /\ returncode[j] # 0

\* The jobs counted as passed or skipped.
Good == {j \in collected : ~isBreak[j] /\ (list[j].skip \/ returncode[j] = 0)}
Counted == count["PASS"] + count["FAIL"] + count["VALGR"] + count["CRASH"]
           + count["SKIP"]
CountInv ==
  /\ IsFiniteSet(collected) /\ Cardinality(collected) = turns
  /\ Cardinality(Good) = count["PASS"] + count["SKIP"]
  /\ Counted <= turns

IInv == /\ TypeOK /\ KeptInv /\ BreaksLast /\ MainInv /\ TruthInv /\ CountInv
        /\ ReturnIsTrue

-----------------------------------------------------------------------------
LEMMA SpotsFinite ==
  ASSUME NEW T, NEW s \in Seq(T), NEW j
  PROVE  IsFiniteSet(Spots(s, j)) /\ Cardinality(Spots(s, j)) \in Nat
<1>1. DOMAIN s = 1..Len(s) /\ Len(s) \in Nat
  OBVIOUS
<1>2. IsFiniteSet(1..Len(s))
  BY <1>1, FS_Interval
<1>3. Spots(s, j) \in SUBSET (1..Len(s))
  BY <1>1 DEF Spots
<1>4. IsFiniteSet(Spots(s, j))
  BY <1>2, <1>3, FS_Subset
<1> QED  BY <1>4, FS_CardinalityType

LEMMA SpotsAppend ==
  ASSUME NEW T, NEW s \in Seq(T), NEW x \in T, NEW j
  PROVE  Cardinality(Spots(Append(s, x), j)) =
           Cardinality(Spots(s, j)) + IF x = j THEN 1 ELSE 0
<1> DEFINE n == Len(s) + 1
           t == Append(s, x)
<1>1. /\ DOMAIN s = 1..Len(s) /\ Len(s) \in Nat
      /\ DOMAIN t = 1..n
      /\ t[n] = x
      /\ \A k \in 1..Len(s) : t[k] = s[k]
  OBVIOUS
<1>2. IsFiniteSet(Spots(s, j)) /\ Cardinality(Spots(s, j)) \in Nat
  BY SpotsFinite
<1> HIDE DEF t
<1>3. n \notin Spots(s, j) /\ 1..n = 1..Len(s) \cup {n}
  BY <1>1 DEF Spots
<1>4. CASE x = j
  <2>1. Spots(t, j) = Spots(s, j) \cup {n}
    BY <1>1, <1>3, <1>4 DEF Spots
  <2>2. Cardinality(Spots(s, j) \cup {n}) = Cardinality(Spots(s, j)) + 1
    BY <1>2, <1>3, FS_AddElement
  <2> QED  BY <1>4, <2>1, <2>2 DEF t
<1>5. CASE x # j
  <2>1. Spots(t, j) = Spots(s, j)
    BY <1>1, <1>3, <1>5 DEF Spots
  <2> QED  BY <1>2, <1>5, <2>1 DEF t
<1> QED  BY <1>4, <1>5

LEMMA SpotsTail ==
  ASSUME NEW T, NEW s \in Seq(T), s # <<>>, NEW j
  PROVE  Cardinality(Spots(s, j)) =
           Cardinality(Spots(Tail(s), j)) + IF Head(s) = j THEN 1 ELSE 0
<1>1. PICK t, h : t = Tail(s) /\ h = Head(s)
  OBVIOUS
<1>2. /\ t \in Seq(T) /\ h = s[1] /\ Len(s) \in Nat /\ Len(s) >= 1
      /\ DOMAIN t = 1..(Len(s) - 1) /\ DOMAIN s = 1..Len(s)
      /\ \A i \in 1..(Len(s) - 1) : t[i] = s[i + 1]
  BY <1>1
<1> DEFINE From == Spots(t, j)
           To == {i \in Spots(s, j) : i # 1}
           f == [k \in From |-> k + 1]
<1>3. /\ IsFiniteSet(From) /\ Cardinality(From) \in Nat
  BY <1>2, SpotsFinite
<1>4. \A k \in From : k \in Nat /\ k + 1 \in To
  BY <1>2 DEF Spots
<1>5. \A i \in To : i - 1 \in From /\ (i - 1) + 1 = i
  <2> SUFFICES ASSUME NEW i \in To PROVE i - 1 \in From /\ (i - 1) + 1 = i
    OBVIOUS
  <2>1. i \in 1..Len(s) /\ i # 1 /\ s[i] = j
    BY <1>2 DEF Spots
  <2>2. i - 1 \in 1..(Len(s) - 1) /\ (i - 1) + 1 = i
    BY <1>2, <2>1
  <2>3. t[i - 1] = j
    BY <1>2, <2>1, <2>2
  <2> QED  BY <1>2, <2>2, <2>3 DEF Spots
<1>6. f \in Bijection(From, To)
  <2> HIDE DEF From, To
  <2>1. \A k, l \in From : k + 1 = l + 1 => k = l
    BY <1>4
  <2>2. \A i \in To : \E k \in From : f[k] = i
    BY <1>5
  <2> QED  BY <1>4, <2>1, <2>2 DEF Bijection, Injection, Surjection, IsInjective
<1>7. IsFiniteSet(To) /\ Cardinality(To) = Cardinality(From)
  <2> HIDE DEF From, To
  <2> QED  BY <1>3, <1>6, FS_Bijection DEF ExistsBijection
<1>8. ASSUME h = j PROVE Cardinality(Spots(s, j)) = Cardinality(From) + 1
  <2>3. 1 \in DOMAIN s /\ s[1] = j
    BY <1>2, <1>8
  <2>1. Spots(s, j) = To \cup {1} /\ 1 \notin To
    BY <2>3 DEF Spots
  <2>2. Cardinality(To \cup {1}) = Cardinality(To) + 1
    <3> HIDE DEF To
    <3> QED  BY <1>7, <2>1, FS_AddElement
  <2> QED  BY <1>7, <1>8, <2>1, <2>2
<1>9. ASSUME h # j PROVE Cardinality(Spots(s, j)) = Cardinality(From)
  <2>1. Spots(s, j) = To
    BY <1>2, <1>9 DEF Spots
  <2> QED  BY <1>7, <2>1
<1>10. Cardinality(Spots(s, j)) = Cardinality(From) + IF h = j THEN 1 ELSE 0
  <2> HIDE DEF From
  <2> QED  BY <1>3, <1>8, <1>9
<1> QED  BY <1>1, <1>10

LEMMA HoldersFinite ==
  ASSUME NEW f, NEW j
  PROVE  IsFiniteSet(Holders(f, j)) /\ Cardinality(Holders(f, j)) \in Nat
<1>1. Holders(f, j) \in SUBSET Worker
  BY DEF Holders
<1>2. IsFiniteSet(Holders(f, j))
  BY <1>1, JobAssumption, FS_Subset
<1> QED  BY <1>2, FS_CardinalityType

\* A worker gets or gives back a job.
LEMMA WorkerChange ==
  ASSUME NEW w \in Worker, worker[w] # worker'[w],
         \A x \in Worker : x # w => worker'[x] = worker[x]
  PROVE  \A j :
           /\ worker'[w] = j => Cardinality(Holders(worker', j)) =
                                  Cardinality(Holders(worker, j)) + 1
           /\ worker[w] = j => Cardinality(Holders(worker', j)) =
                                 Cardinality(Holders(worker, j)) - 1
           /\ worker[w] # j /\ worker'[w] # j =>
                Cardinality(Holders(worker', j)) = Cardinality(Holders(worker, j))
<1> SUFFICES ASSUME NEW j
    PROVE  /\ worker'[w] = j => Cardinality(Holders(worker', j)) =
                                  Cardinality(Holders(worker, j)) + 1
           /\ worker[w] = j => Cardinality(Holders(worker', j)) =
                                 Cardinality(Holders(worker, j)) - 1
           /\ worker[w] # j /\ worker'[w] # j =>
                Cardinality(Holders(worker', j)) = Cardinality(Holders(worker, j))
  OBVIOUS
<1>1. PICK A, B : A = Holders(worker, j) /\ B = Holders(worker', j)
  OBVIOUS
<1>2. IsFiniteSet(A) /\ Cardinality(A) \in Nat
  BY <1>1, HoldersFinite
<1>3. ASSUME worker'[w] = j PROVE Cardinality(B) = Cardinality(A) + 1
  <2>1. B = A \cup {w} /\ w \notin A
    BY <1>1, <1>3 DEF Holders
  <2> QED  BY <1>2, <2>1, FS_AddElement
<1>4. ASSUME worker[w] = j PROVE Cardinality(B) = Cardinality(A) - 1
  <2>1. B = A \ {w} /\ w \in A
    BY <1>1, <1>4 DEF Holders
  <2> QED  BY <1>2, <2>1, FS_RemoveElement
<1>5. ASSUME worker[w] # j, worker'[w] # j PROVE Cardinality(B) = Cardinality(A)
  <2>1. B = A
    BY <1>1, <1>5 DEF Holders
  <2> QED  BY <2>1
<1> QED  BY <1>1, <1>3, <1>4, <1>5

LEMMA OneOf ==
  ASSUME NEW j, NEW S
  PROVE  /\ Cardinality(({j} \cap S)) = IF j \in S THEN 1 ELSE 0
<1>1. CASE j \in S
  <2>1. {j} \cap S = {j}
    BY <1>1
  <2> QED  BY <1>1, <2>1, FS_Singleton
<1>2. CASE j \notin S
  <2>1. {j} \cap S = {}
    BY <1>2
  <2> QED  BY <1>2, <2>1, FS_EmptySet
<1> QED  BY <1>1, <1>2

\* The types that arithmetic needs.
LEMMA Sizes ==
  ASSUME TypeOK
  PROVE  /\ Len(list) \in Nat /\ Jobs = 1..Len(list) /\ list \in Seq([kind : {"suite", "example"}, skip : BOOLEAN])
         /\ dispatched \in Nat /\ dispatched <= Len(list)
         /\ turns \in Nat /\ turns <= dispatched
         /\ Cardinality(Worker) \in Nat
         /\ Break \notin Jobs /\ Waiting \notin Jobs /\ Exited \notin Jobs
         /\ Dead \notin Jobs
         /\ \A s \in Statuses : count[s] \in Nat
<1>1. list \in Seq([kind : {"suite", "example"}, skip : BOOLEAN])
  BY JobAssumption DEF TypeOK
<1>2. Len(list) \in Nat /\ Jobs = 1..Len(list)
  BY <1>1 DEF Jobs
<1>3. Cardinality(Worker) \in Nat
  BY JobAssumption, FS_CardinalityType
<1>4. \A s \in Statuses : count[s] \in Nat
  BY <1>2 DEF TypeOK
<1> QED  BY <1>1, <1>2, <1>3, <1>4 DEF TypeOK, Break, Waiting, Exited, Dead

LEMMA PlaceTypes ==
  ASSUME TypeOK, NEW j
  PROVE  /\ Cardinality(Spots(inputQueue, j)) \in Nat
         /\ Cardinality(Spots(outputQueue, j)) \in Nat
         /\ Cardinality(Holders(worker, j)) \in Nat
         /\ Cardinality(({j} \cap collected)) = IF j \in collected THEN 1 ELSE 0
         /\ Cardinality(({j} \cap lost)) = IF j \in lost THEN 1 ELSE 0
<1>1. inputQueue \in Seq(Jobs \cup {Break}) /\ outputQueue \in Seq(Jobs)
  BY DEF TypeOK
<1> QED  BY <1>1, SpotsFinite, HoldersFinite, OneOf

\* A job that is somewhere is nowhere else.
LEMMA OnePlace ==
  ASSUME TypeOK, KeptInv, NEW j \in Jobs
  PROVE  /\ \A i \in DOMAIN inputQueue : inputQueue[i] = j =>
              /\ j \in 1..dispatched /\ ~Back(j) /\ j \notin lost
              /\ \A w \in Worker : worker[w] # j
         /\ \A w \in Worker : worker[w] = j =>
              /\ j \in 1..dispatched /\ ~Back(j) /\ j \notin lost
              /\ \A i \in DOMAIN inputQueue : inputQueue[i] # j
         /\ \A i \in DOMAIN outputQueue : outputQueue[i] = j =>
              j \in 1..dispatched /\ j \notin collected
<1>1. PICK a, b, c \in Nat :
        /\ a = Cardinality(Spots(inputQueue, j)) /\ b = Cardinality(Holders(worker, j))
        /\ c = Cardinality(Spots(outputQueue, j))
  BY PlaceTypes
<1>2. a + b + c + (IF j \in collected THEN 1 ELSE 0) + (IF j \in lost THEN 1 ELSE 0)
        = IF j \in 1..dispatched THEN 1 ELSE 0
  BY <1>1, PlaceTypes DEF KeptInv, Places
<1>9. PICK d, e, n \in {0, 1} :
        /\ d = 1 <=> j \in collected
        /\ e = 1 <=> j \in lost
        /\ n = 1 <=> j \in 1..dispatched
        /\ a + b + c + d + e = n
  <2>1. PICK d, e, n : /\ d = IF j \in collected THEN 1 ELSE 0
                       /\ e = IF j \in lost THEN 1 ELSE 0
                       /\ n = IF j \in 1..dispatched THEN 1 ELSE 0
    OBVIOUS
  <2>2. /\ d \in {0, 1} /\ (d = 1 <=> j \in collected)
        /\ e \in {0, 1} /\ (e = 1 <=> j \in lost)
        /\ n \in {0, 1} /\ (n = 1 <=> j \in 1..dispatched)
    BY <2>1
  <2>3. a + b + c + d + e = n
    BY <1>2, <2>1
  <2> QED  BY <2>2, <2>3
<1>3. /\ IsFiniteSet(Spots(inputQueue, j)) /\ IsFiniteSet(Spots(outputQueue, j))
      /\ IsFiniteSet(Holders(worker, j))
  <2>1. inputQueue \in Seq(Jobs \cup {Break}) /\ outputQueue \in Seq(Jobs)
    BY DEF TypeOK
  <2> QED  BY <2>1, SpotsFinite, HoldersFinite
<1>4. /\ a = 0 <=> \A i \in DOMAIN inputQueue : inputQueue[i] # j
      /\ b = 0 <=> \A w \in Worker : worker[w] # j
      /\ c = 0 <=> \A i \in DOMAIN outputQueue : outputQueue[i] # j
  <2>1. /\ a = 0 <=> Spots(inputQueue, j) = {}
        /\ b = 0 <=> Holders(worker, j) = {}
        /\ c = 0 <=> Spots(outputQueue, j) = {}
    BY <1>1, <1>3, FS_EmptySet
  <2>2. Spots(inputQueue, j) = {} <=> \A i \in DOMAIN inputQueue : inputQueue[i] # j
    BY DEF Spots
  <2>3. Spots(outputQueue, j) = {} <=> \A i \in DOMAIN outputQueue : outputQueue[i] # j
    BY DEF Spots
  <2>4. Holders(worker, j) = {} <=> \A w \in Worker : worker[w] # j
    BY DEF Holders
  <2> QED  BY <2>1, <2>2, <2>3, <2>4
<1>10. /\ a > 0 => b = 0 /\ c = 0 /\ n = 1 /\ d = 0 /\ e = 0
       /\ b > 0 => a = 0 /\ c = 0 /\ n = 1 /\ d = 0 /\ e = 0
       /\ c > 0 => n = 1 /\ d = 0
  BY <1>1, <1>9
<1>5. /\ a > 0 => b = 0 /\ c = 0 /\ j \in 1..dispatched /\ j \notin collected /\ j \notin lost
      /\ b > 0 => a = 0 /\ c = 0 /\ j \in 1..dispatched /\ j \notin collected /\ j \notin lost
      /\ c > 0 => j \in 1..dispatched /\ j \notin collected
  BY <1>9, <1>10
<1>6. \A i \in DOMAIN inputQueue : inputQueue[i] = j => a > 0
  BY <1>1, <1>4
<1>7. \A w \in Worker : worker[w] = j => b > 0
  BY <1>1, <1>4
<1>8. \A i \in DOMAIN outputQueue : outputQueue[i] = j => c > 0
  BY <1>1, <1>4
<1> QED  BY <1>4, <1>5, <1>6, <1>7, <1>8 DEF Back

-----------------------------------------------------------------------------
LEMMA Unmoved ==
  ASSUME UNCHANGED <<list, dispatched, inputQueue, outputQueue, worker,
                     collected, lost>>
  PROVE  (KeptInv => KeptInv') /\ (BreaksLast => BreaksLast')
BY DEF KeptInv, Places, Jobs, BreaksLast, NothingStranded

LEMMA Unwritten ==
  ASSUME UNCHANGED <<list, outputQueue, collected, isBreak, returncode, truth,
                     threadExit>>
  PROVE  TruthInv => TruthInv'
BY DEF TruthInv, Back, Jobs

LEMMA Uncounted ==
  ASSUME UNCHANGED <<list, collected, isBreak, returncode, count, turns>>
  PROVE  CountInv => CountInv'
<1>1. Good' = Good
  BY DEF Good
<1>2. Counted' = Counted
  BY DEF Counted
<1> QED  BY <1>1, <1>2 DEF CountInv

LEMMA IInvInit == Init => IInv
<1> SUFFICES ASSUME Init PROVE IInv
  OBVIOUS
<1>1. list \in Seq([kind : {"suite", "example"}, skip : BOOLEAN])
      /\ Len(list) \in Nat /\ Jobs = 1..Len(list)
  BY JobAssumption DEF Init, Jobs
<1>2. Cardinality(Worker) \in Nat /\ Cardinality(Worker) # 0
  BY JobAssumption, FS_CardinalityType, FS_EmptySet
<1>3. TypeOK
  <2>1. /\ list \in JobLists /\ threadExit \in BOOLEAN
        /\ lost \subseteq Jobs /\ collected \subseteq Jobs
        /\ main \in {"dispatch", "collect", "join", "success", "failure", "aborted"}
    BY DEF Init
  <2>6. dispatched = 0 /\ turns = 0 /\ breaks = 0
    BY DEF Init
  <2>7. dispatched \in 0..Len(list) /\ turns \in 0..dispatched
    BY <1>1, <2>6
  <2>8. breaks \in 0..Cardinality(Worker)
    BY <1>2, <2>6
  <2>2. inputQueue \in Seq(Jobs \cup {Break}) /\ outputQueue \in Seq(Jobs)
    <3>1. inputQueue = <<>> /\ outputQueue = <<>>
      BY DEF Init
    <3> QED  BY <3>1
  <2>3. /\ worker \in [Worker -> Jobs \cup {Waiting, Exited, Dead}]
        /\ isBreak \in [Jobs -> BOOLEAN]
        /\ returncode \in [Jobs -> {0, 1, 2, Crashed}]
    BY DEF Init
  <2>4. /\ xml \in [Jobs -> {"none", "part", "whole"}]
        /\ truth \in [Jobs -> {"unrun", "passed", "troubled"}]
    BY DEF Init
  <2>5. count \in [Statuses -> 0..Len(list)]
    <3>1. 0 \in 0..Len(list)
      BY <1>1
    <3> QED  BY <3>1 DEF Init
  <2> QED  BY <2>1, <2>2, <2>3, <2>4, <2>5, <2>7, <2>8 DEF TypeOK
<1>4. KeptInv
  <2> SUFFICES ASSUME NEW j \in Jobs PROVE Places(j) = IF j \in 1..dispatched THEN 1 ELSE 0
    BY DEF KeptInv
  <2>1. Spots(inputQueue, j) = {} /\ Spots(outputQueue, j) = {}
    BY DEF Init, Spots
  <2>2. Holders(worker, j) = {}
    BY <1>1 DEF Init, Holders, Waiting
  <2>3. {j} \cap collected = {} /\ {j} \cap lost = {}
    BY DEF Init
  <2>4. Cardinality({}) = 0 /\ j \notin 1..dispatched
    BY FS_EmptySet DEF Init
  <2>5. Places(j) = Cardinality({}) + Cardinality({}) + Cardinality({})
                    + Cardinality({}) + Cardinality({})
    BY <2>1, <2>2, <2>3 DEF Places
  <2>6. Places(j) = 0
    BY <2>4, <2>5
  <2> QED  BY <2>4, <2>6
<1>5. BreaksLast
  BY DEF Init, BreaksLast, NothingStranded, Waiting, Exited
<1>6. MainInv /\ ReturnIsTrue
  BY <1>2 DEF Init, MainInv, ReturnIsTrue
<1>7. TruthInv
  BY DEF Init, TruthInv, Back
<1>8. CountInv
  <2>1. Good = {} /\ collected = {}
    BY DEF Init, Good
  <2>2. Cardinality({}) = 0 /\ IsFiniteSet({})
    BY FS_EmptySet
  <2>3. /\ count["PASS"] = 0 /\ count["FAIL"] = 0 /\ count["VALGR"] = 0
        /\ count["CRASH"] = 0 /\ count["SKIP"] = 0 /\ turns = 0
    BY DEF Init, Statuses
  <2> QED  BY <2>1, <2>2, <2>3 DEF CountInv, Counted
<1> QED  BY <1>3, <1>4, <1>5, <1>6, <1>7, <1>8 DEF IInv

LEMMA InterruptStep ==
  ASSUME IInv, Interrupt
  PROVE  IInv'
<1>1. /\ threadExit' = TRUE /\ main \in {"dispatch", "collect", "join"}
      /\ UNCHANGED <<list, dispatched, breaks, turns, collected, count, main,
                     inputQueue, outputQueue, worker, isBreak, returncode, xml,
                     truth, lost>>
  BY DEF Interrupt, mainVars, jobVars
<1>2. TypeOK'
  BY <1>1 DEF IInv, TypeOK, Jobs
<1>3. KeptInv' /\ BreaksLast'
  BY <1>1, Unmoved DEF IInv
<1>4. MainInv' /\ ReturnIsTrue'
  BY <1>1 DEF IInv, MainInv, ReturnIsTrue
<1>5. TruthInv'
  BY <1>1 DEF IInv, TruthInv, Back, Jobs
<1>6. CountInv'
  BY <1>1, Uncounted DEF IInv
<1> QED  BY <1>2, <1>3, <1>4, <1>5, <1>6 DEF IInv

LEMMA DispatchFailsStep ==
  ASSUME IInv, DispatchFails
  PROVE  IInv'
<1>1. /\ main' = "aborted"
      /\ UNCHANGED <<list, dispatched, breaks, inputQueue, outputQueue,
                     threadExit, worker, isBreak, returncode, xml, truth, lost,
                     turns, collected, count>>
  BY DEF DispatchFails, jobVars
<1>2. TypeOK'
  BY <1>1 DEF IInv, TypeOK, Jobs
<1>3. KeptInv' /\ BreaksLast' /\ TruthInv' /\ CountInv'
  BY <1>1, Unmoved, Unwritten, Uncounted DEF IInv
<1>4. MainInv' /\ ReturnIsTrue'
  BY <1>1 DEF MainInv, ReturnIsTrue
<1> QED  BY <1>2, <1>3, <1>4 DEF IInv

\* What an appended queue holds.
LEMMA Appended ==
  ASSUME NEW T, NEW s \in Seq(T), NEW x \in T
  PROVE  /\ Append(s, x) \in Seq(T)
         /\ \A i \in DOMAIN Append(s, x) :
              (i \in DOMAIN s /\ Append(s, x)[i] = s[i]) \/ Append(s, x)[i] = x
         /\ \A i \in DOMAIN s : i \in DOMAIN Append(s, x) /\ Append(s, x)[i] = s[i]
         /\ \E i \in DOMAIN Append(s, x) : Append(s, x)[i] = x
<1>1. PICK t : t = Append(s, x)
  OBVIOUS
<1>2. /\ t \in Seq(T) /\ DOMAIN t = 1..(Len(s) + 1) /\ DOMAIN s = 1..Len(s)
      /\ Len(s) \in Nat /\ \A i \in 1..Len(s) : t[i] = s[i]
      /\ t[Len(s) + 1] = x
  BY <1>1
<1>3. \A i \in DOMAIN t : (i \in DOMAIN s /\ t[i] = s[i]) \/ t[i] = x
  BY <1>2
<1>4. \A i \in DOMAIN s : i \in DOMAIN t /\ t[i] = s[i]
  BY <1>2
<1>5. \E i \in DOMAIN t : t[i] = x
  <2>1. Len(s) + 1 \in DOMAIN t
    BY <1>2
  <2> QED  BY <1>2, <2>1
<1> QED  BY <1>1, <1>2, <1>3, <1>4, <1>5

\* And one without its head.
LEMMA Headless ==
  ASSUME NEW T, NEW s \in Seq(T), s # <<>>
  PROVE  /\ Tail(s) \in Seq(T) /\ Head(s) \in T /\ 1 \in DOMAIN s /\ Head(s) = s[1]
         /\ \A i \in DOMAIN Tail(s) : i \in Int /\ i + 1 \in DOMAIN s /\ Tail(s)[i] = s[i + 1]
         /\ \A x : (\E i \in DOMAIN s : s[i] = x) =>
                     x = Head(s) \/ \E i \in DOMAIN Tail(s) : Tail(s)[i] = x
<1>1. PICK t : t = Tail(s)
  OBVIOUS
<1>2. /\ t \in Seq(T) /\ Head(s) = s[1] /\ Len(s) \in Nat /\ Len(s) >= 1
      /\ DOMAIN t = 1..(Len(s) - 1) /\ DOMAIN s = 1..Len(s)
      /\ \A i \in 1..(Len(s) - 1) : t[i] = s[i + 1]
      /\ Head(s) \in T
  BY <1>1
<1>3. 1 \in DOMAIN s
  BY <1>2
<1>4. \A i \in DOMAIN t : i \in Int /\ i + 1 \in DOMAIN s /\ t[i] = s[i + 1]
  BY <1>2
<1>5. ASSUME NEW i \in DOMAIN s, i # 1 PROVE \E k \in DOMAIN t : t[k] = s[i]
  <2>1. i - 1 \in DOMAIN t /\ (i - 1) + 1 = i
    BY <1>2, <1>5
  <2>2. t[i - 1] = s[(i - 1) + 1]
    BY <1>2, <2>1
  <2> QED  BY <2>1, <2>2
<1>6. \A x : (\E i \in DOMAIN s : s[i] = x) =>
               x = Head(s) \/ \E i \in DOMAIN t : t[i] = x
  BY <1>2, <1>5
<1> QED  BY <1>1, <1>2, <1>3, <1>4, <1>6

LEMMA DispatchStep ==
  ASSUME IInv, Dispatch
  PROVE  IInv'
<1>1. PICK n : n = dispatched + 1
  OBVIOUS
<1>2. /\ main = "dispatch" /\ dispatched < Len(list) /\ dispatched' = n
      /\ inputQueue' = Append(inputQueue, n)
      /\ UNCHANGED <<list, breaks, outputQueue, threadExit, worker, isBreak,
                     returncode, xml, truth, lost, turns, collected, count, main>>
  BY <1>1 DEF Dispatch, jobVars
<1>3. /\ Len(list) \in Nat /\ Jobs = 1..Len(list) /\ dispatched \in Nat
      /\ n \in Jobs /\ n \in 1..Len(list) /\ turns \in 0..n /\ Break \notin Jobs
      /\ Jobs' = Jobs /\ inputQueue \in Seq(Jobs \cup {Break})
  <2>1. Len(list) \in Nat /\ Jobs = 1..Len(list) /\ dispatched \in Nat
        /\ turns \in Nat /\ turns <= dispatched /\ Break \notin Jobs
    BY Sizes DEF IInv
  <2>2. n \in Jobs /\ n \in 1..Len(list) /\ turns \in 0..n
    BY <1>1, <1>2, <2>1
  <2> QED  BY <1>2, <2>1, <2>2 DEF IInv, TypeOK, Jobs
<1>4. TypeOK'
  <2>1. inputQueue' \in Seq(Jobs \cup {Break})
    BY <1>2, <1>3
  <2>2. /\ list' \in JobLists /\ dispatched' \in 0..Len(list') /\ turns' \in 0..dispatched'
        /\ breaks' \in 0..Cardinality(Worker)
    BY <1>1, <1>2, <1>3 DEF IInv, TypeOK
  <2> QED  BY <1>2, <1>3, <2>1, <2>2 DEF IInv, TypeOK
<1>5. KeptInv'
  <2> SUFFICES ASSUME NEW j \in Jobs
               PROVE  Places(j)' = IF j \in 1..n THEN 1 ELSE 0
    BY <1>2, <1>3 DEF KeptInv
  <2>1. n \in Jobs \cup {Break}
    BY <1>3
  <2>2. Cardinality(Spots(inputQueue', j)) =
          Cardinality(Spots(inputQueue, j)) + IF n = j THEN 1 ELSE 0
    BY <1>2, <1>3, <2>1, SpotsAppend
  <2>3. PICK a, b, c, d, e \in Nat :
          /\ a = Cardinality(Spots(inputQueue, j)) /\ b = Cardinality(Holders(worker, j))
          /\ c = Cardinality(Spots(outputQueue, j))
          /\ d = Cardinality(({j} \cap collected)) /\ e = Cardinality(({j} \cap lost))
    BY PlaceTypes DEF IInv
  <2>4. a + b + c + d + e = IF j \in 1..dispatched THEN 1 ELSE 0
    BY <2>3 DEF IInv, KeptInv, Places
  <2>5. Places(j)' = a + (IF n = j THEN 1 ELSE 0) + b + c + d + e
    BY <1>2, <2>2, <2>3 DEF Places
  <2>6. j \in 1..n <=> j \in 1..dispatched \/ j = n
    BY <1>1, <1>3
  <2>7. j \in 1..dispatched => j # n
    BY <1>1, <1>3
  <2>8. CASE j = n
    BY <2>3, <2>4, <2>5, <2>6, <2>7, <2>8
  <2>9. CASE j # n
    BY <2>3, <2>4, <2>5, <2>6, <2>9
  <2> QED  BY <2>8, <2>9
<1>6. BreaksLast'
  <2>1. dispatched # Len(list)
    BY <1>2, <1>3
  <2>2. \A i \in DOMAIN inputQueue : inputQueue[i] # Break
    BY <2>1 DEF IInv, BreaksLast
  <2>3. \A i \in DOMAIN inputQueue' : inputQueue'[i] # Break
    <3>1. n \in Jobs \cup {Break}
      BY <1>3
    <3>2. \A i \in DOMAIN Append(inputQueue, n) :
            (i \in DOMAIN inputQueue /\ Append(inputQueue, n)[i] = inputQueue[i])
            \/ Append(inputQueue, n)[i] = n
      BY <1>3, <3>1, Appended
    <3> QED  BY <1>2, <1>3, <2>2, <3>2
  <2>4. ~\E w \in Worker : worker[w] = Exited
    BY <2>1 DEF IInv, BreaksLast, NothingStranded
  <2> QED  BY <1>2, <2>3, <2>4 DEF BreaksLast, NothingStranded
<1>7. MainInv' /\ ReturnIsTrue'
  BY <1>2 DEF IInv, MainInv, ReturnIsTrue
<1>8. TruthInv' /\ CountInv'
  BY <1>2, Unwritten, Uncounted DEF IInv
<1> QED  BY <1>4, <1>5, <1>6, <1>7, <1>8 DEF IInv

LEMMA DispatchBreakStep ==
  ASSUME IInv, DispatchBreak
  PROVE  IInv'
<1>1. /\ main = "dispatch" /\ dispatched = Len(list) /\ breaks' = breaks + 1
      /\ inputQueue' = Append(inputQueue, Break)
      /\ main' = IF breaks' = Cardinality(Worker) THEN "collect" ELSE main
      /\ UNCHANGED <<list, dispatched, outputQueue, threadExit, worker, isBreak,
                     returncode, xml, truth, lost, turns, collected, count>>
  BY DEF DispatchBreak, jobVars
<1>2. /\ Jobs' = Jobs /\ inputQueue \in Seq(Jobs \cup {Break}) /\ Break \notin Jobs
      /\ breaks \in Nat /\ breaks < Cardinality(Worker) /\ Cardinality(Worker) \in Nat
  <2>1. Cardinality(Worker) \in Nat /\ Break \notin Jobs
    BY Sizes DEF IInv
  <2>2. breaks < Cardinality(Worker) /\ breaks \in 0..Cardinality(Worker)
    BY <1>1 DEF IInv, MainInv, TypeOK
  <2> QED  BY <1>1, <2>1, <2>2 DEF IInv, TypeOK, Jobs
<1>3. TypeOK'
  <2>1. inputQueue' \in Seq(Jobs \cup {Break})
    BY <1>1, <1>2
  <2>2. breaks' \in 0..Cardinality(Worker)
    BY <1>1, <1>2
  <2>3. main' \in {"dispatch", "collect", "join", "success", "failure", "aborted"}
    BY <1>1
  <2> QED  BY <1>1, <1>2, <2>1, <2>2, <2>3 DEF IInv, TypeOK
<1>4. KeptInv'
  <2> SUFFICES ASSUME NEW j \in Jobs PROVE Places(j)' = Places(j)
    BY <1>1, <1>2 DEF IInv, KeptInv
  <2>1. Break \in Jobs \cup {Break} /\ Break # j
    BY <1>2
  <2>2. Cardinality(Spots(inputQueue', j)) =
          Cardinality(Spots(inputQueue, j)) + IF Break = j THEN 1 ELSE 0
    BY <1>1, <1>2, <2>1, SpotsAppend
  <2>3. Cardinality(Spots(inputQueue, j)) \in Nat
    BY PlaceTypes DEF IInv
  <2>4. Cardinality(Spots(inputQueue', j)) = Cardinality(Spots(inputQueue, j))
    BY <2>1, <2>2, <2>3
  <2> QED  BY <1>1, <2>4 DEF Places
<1>5. BreaksLast'
  <2>1. PICK s, t : /\ s \in Seq(Jobs \cup {Break})
                    /\ s = inputQueue
                    /\ t = Append(s, Break)
    BY <1>2
  <2>2. /\ DOMAIN t = 1..(Len(s) + 1) /\ DOMAIN s = 1..Len(s) /\ Len(s) \in Nat
        /\ \A i \in 1..Len(s) : t[i] = s[i]
        /\ t[Len(s) + 1] = Break
    BY <2>1
  <2>3. \A i \in DOMAIN s : s[i] = Break => \A k \in DOMAIN s : i <= k => s[k] = Break
    BY <2>1 DEF IInv, BreaksLast
  <2>4. ASSUME NEW i \in DOMAIN t, t[i] = Break, NEW k \in DOMAIN t, i <= k
        PROVE  t[k] = Break
    <3>1. CASE k = Len(s) + 1
      BY <2>2, <3>1
    <3>2. CASE k # Len(s) + 1
      <4>1. k \in DOMAIN s /\ i \in DOMAIN s
        BY <2>2, <2>4, <3>2
      <4> QED  BY <2>2, <2>3, <2>4, <4>1
    <3> QED  BY <3>1, <3>2
  <2>5. ASSUME \E w \in Worker : worker[w] = Exited
        PROVE  \A i \in DOMAIN t : t[i] = Break
    <3>1. \A i \in DOMAIN s : s[i] = Break
      BY <2>1, <2>5 DEF IInv, BreaksLast, NothingStranded
    <3> QED  BY <2>2, <3>1
  <2> QED  BY <1>1, <2>1, <2>4, <2>5 DEF BreaksLast, NothingStranded
<1>6. MainInv' /\ ReturnIsTrue'
  BY <1>1, <1>2 DEF IInv, MainInv, ReturnIsTrue
<1>7. TruthInv' /\ CountInv'
  BY <1>1, Unwritten, Uncounted DEF IInv
<1> QED  BY <1>3, <1>4, <1>5, <1>6, <1>7 DEF IInv

-----------------------------------------------------------------------------
\* A worker still at work, so run_tests has not returned.
LEMMA StillRunning ==
  ASSUME IInv, NEW w \in Worker, worker[w] \notin {Exited, Dead}
  PROVE  main \notin {"success", "failure"}
BY DEF IInv, MainInv

\* What a worker gets from input_queue, and what it leaves there.
LEMMA GetFrame ==
  ASSUME IInv, NEW w \in Worker, worker[w] = Waiting,
         inputQueue # <<>>, inputQueue' = Tail(inputQueue)
  PROVE  /\ main \notin {"success", "failure"}
         /\ Head(inputQueue) \in Jobs \cup {Break}
         /\ inputQueue' \in Seq(Jobs \cup {Break})
         /\ \A j : Cardinality(Spots(inputQueue, j)) =
                     Cardinality(Spots(inputQueue', j))
                     + IF Head(inputQueue) = j THEN 1 ELSE 0
         /\ \A j : Cardinality(Spots(inputQueue', j)) \in Nat
         /\ \A i \in DOMAIN inputQueue' : inputQueue'[i] = Break =>
              /\ dispatched = Len(list)
              /\ \A k \in DOMAIN inputQueue' : i <= k => inputQueue'[k] = Break
         /\ Head(inputQueue) = Break =>
              /\ dispatched = Len(list)
              /\ \A i \in DOMAIN inputQueue' : inputQueue'[i] = Break
         /\ Head(inputQueue) # Break => \A x \in Worker : worker[x] # Exited
<1>1. inputQueue \in Seq(Jobs \cup {Break})
  BY DEF IInv, TypeOK
<1>2. main \notin {"success", "failure"}
  BY StillRunning DEF Waiting, Exited, Dead
<1>3. PICK s, t : s = inputQueue /\ t = inputQueue'
  OBVIOUS
<1>4. /\ t \in Seq(Jobs \cup {Break}) /\ Head(s) \in Jobs \cup {Break}
      /\ 1 \in DOMAIN s /\ Head(s) = s[1]
      /\ \A i \in DOMAIN t : i \in Int /\ i + 1 \in DOMAIN s /\ t[i] = s[i + 1]
  BY <1>1, <1>3, Headless
<1>5. \A i \in DOMAIN s : s[i] = Break =>
        /\ dispatched = Len(list)
        /\ \A k \in DOMAIN s : i <= k => s[k] = Break
  BY <1>3 DEF IInv, BreaksLast
<1>6. ASSUME NEW i \in DOMAIN t, t[i] = Break
      PROVE  /\ dispatched = Len(list)
             /\ \A k \in DOMAIN t : i <= k => t[k] = Break
  <2>1. i \in Int /\ i + 1 \in DOMAIN s /\ s[i + 1] = Break
    BY <1>4, <1>6
  <2>2. ASSUME NEW k \in DOMAIN t, i <= k PROVE t[k] = Break
    <3>1. k \in Int /\ k + 1 \in DOMAIN s /\ t[k] = s[k + 1]
      BY <1>4
    <3>2. i + 1 <= k + 1
      BY <2>1, <2>2, <3>1
    <3> QED  BY <1>5, <2>1, <3>1, <3>2
  <2> QED  BY <1>5, <2>1, <2>2
<1>7. ASSUME Head(s) = Break
      PROVE  dispatched = Len(list) /\ \A i \in DOMAIN t : t[i] = Break
  <2>1. \A k \in DOMAIN s : 1 <= k => s[k] = Break
    BY <1>4, <1>5, <1>7
  <2>2. DOMAIN s = 1..Len(s) /\ Len(s) \in Nat
    BY <1>1, <1>3
  <2>3. \A k \in DOMAIN s : s[k] = Break
    BY <2>1, <2>2
  <2> QED  BY <1>4, <1>5, <1>7, <2>3
<1>8. ASSUME Head(s) # Break PROVE \A x \in Worker : worker[x] # Exited
  <2>1. ~\A i \in DOMAIN inputQueue : inputQueue[i] = Break
    BY <1>3, <1>4, <1>8
  <2> QED  BY <2>1 DEF IInv, BreaksLast, NothingStranded
<1>9. \A j : Cardinality(Spots(inputQueue, j)) =
               Cardinality(Spots(inputQueue', j))
               + IF Head(inputQueue) = j THEN 1 ELSE 0
  BY <1>1, SpotsTail
<1>10. \A j : Cardinality(Spots(inputQueue', j)) \in Nat
  BY <1>3, <1>4, SpotsFinite
<1> QED  BY <1>2, <1>3, <1>4, <1>6, <1>7, <1>8, <1>9, <1>10

LEMMA KeptStep ==
  ASSUME KeptInv, list' = list, dispatched' = dispatched,
         \A j \in Jobs : Places(j)' = Places(j)
  PROVE  KeptInv'
<1>1. Jobs' = Jobs
  BY DEF Jobs
<1> QED  BY <1>1 DEF KeptInv

\* A Break: the worker goes home.
LEMMA GetBreak ==
  ASSUME IInv, NEW w \in Worker, worker[w] = Waiting,
         inputQueue # <<>>, inputQueue' = Tail(inputQueue),
         Head(inputQueue) = Break,
         worker' = [worker EXCEPT ![w] = Exited],
         UNCHANGED <<outputQueue, isBreak, mainVars, threadExit, returncode,
                     xml, truth, lost>>
  PROVE  IInv'
<1>1. UNCHANGED <<list, dispatched, breaks, turns, collected, count, main,
                  outputQueue, isBreak, threadExit, returncode, xml, truth,
                  lost>>
  BY DEF mainVars
<1>2. /\ Jobs' = Jobs /\ DOMAIN worker = Worker
      /\ Break \notin Jobs /\ Waiting \notin Jobs /\ Exited \notin Jobs
      /\ Waiting # Exited
  BY <1>1, Sizes DEF IInv, TypeOK, Jobs, Waiting, Exited
<1>3. TypeOK'
  <2>1. inputQueue' \in Seq(Jobs \cup {Break})
    BY GetFrame
  <2>2. worker' \in [Worker -> Jobs \cup {Waiting, Exited, Dead}]
    BY DEF IInv, TypeOK
  <2> QED  BY <1>1, <1>2, <2>1, <2>2 DEF IInv, TypeOK
<1>4. KeptInv'
  <2>1. ASSUME NEW j \in Jobs PROVE Places(j)' = Places(j)
    <3>1. PICK a \in Nat : a = Cardinality(Spots(inputQueue', j))
      BY GetFrame
    <3>2. Cardinality(Spots(inputQueue, j)) = a + IF Break = j THEN 1 ELSE 0
      BY <3>1, GetFrame
    <3>3. Cardinality(Spots(inputQueue, j)) = Cardinality(Spots(inputQueue', j))
      BY <1>2, <3>1, <3>2
    <3>5. /\ worker[w] # Exited /\ worker'[w] = Exited
          /\ \A x \in Worker : x # w => worker'[x] = worker[x]
          /\ Exited # j /\ worker[w] # j
      BY <1>2
    <3>6. Cardinality(Holders(worker', j)) = Cardinality(Holders(worker, j))
      BY <3>5, WorkerChange
    <3> QED  BY <1>1, <3>3, <3>6 DEF Places
  <2> QED  BY <1>1, <2>1, KeptStep DEF IInv
<1>5. BreaksLast'
  <2>1. /\ dispatched = Len(list)
        /\ \A i \in DOMAIN inputQueue' : inputQueue'[i] = Break
    BY GetFrame
  <2> QED  BY <1>1, <2>1 DEF BreaksLast, NothingStranded
<1>6. MainInv' /\ ReturnIsTrue'
  BY <1>1, GetFrame DEF IInv, MainInv, ReturnIsTrue
<1>7. TruthInv' /\ CountInv'
  BY <1>1, Unwritten, Uncounted DEF IInv
<1> QED  BY <1>3, <1>4, <1>5, <1>6, <1>7 DEF IInv

\* A job that is put back unrun: after SIGINT, or to be skipped.
LEMMA GetPutsBack ==
  ASSUME IInv, NEW w \in Worker, worker[w] = Waiting,
         inputQueue # <<>>, inputQueue' = Tail(inputQueue),
         NEW job, job = Head(inputQueue), job # Break,
         \/ threadExit /\ isBreak' = [isBreak EXCEPT ![job] = TRUE]
         \/ list[job].skip /\ isBreak' = isBreak,
         outputQueue' = Append(outputQueue, job),
         UNCHANGED <<worker, mainVars, threadExit, returncode, xml, truth, lost>>
  PROVE  IInv'
<1>1. UNCHANGED <<list, dispatched, breaks, turns, collected, count, main,
                  worker, threadExit, returncode, xml, truth, lost>>
  BY DEF mainVars
<1>2. /\ Jobs' = Jobs /\ job \in Jobs /\ outputQueue \in Seq(Jobs)
      /\ isBreak \in [Jobs -> BOOLEAN]
  <2>1. job \in Jobs
    BY GetFrame
  <2> QED  BY <1>1, <2>1 DEF IInv, TypeOK, Jobs
<1>3. /\ isBreak' \in [Jobs -> BOOLEAN]
      /\ \A j \in Jobs : j # job => isBreak'[j] = isBreak[j]
      /\ \/ isBreak'[job] /\ threadExit
         \/ list[job].skip /\ isBreak' = isBreak
  <2>1. CASE threadExit /\ isBreak' = [isBreak EXCEPT ![job] = TRUE]
    BY <1>2, <2>1
  <2>2. CASE list[job].skip /\ isBreak' = isBreak
    BY <1>2, <2>2
  <2> QED  BY <2>1, <2>2
<1>4. job \notin collected
  <2>1. 1 \in DOMAIN inputQueue /\ inputQueue[1] = job
    <3>1. inputQueue \in Seq(Jobs \cup {Break})
      BY DEF IInv, TypeOK
    <3> QED  BY <3>1, Headless
  <2> QED  BY <1>2, <2>1, OnePlace DEF IInv, Back
<1>5. TypeOK'
  <2>1. inputQueue' \in Seq(Jobs \cup {Break})
    BY GetFrame
  <2>2. outputQueue' \in Seq(Jobs)
    BY <1>2, Appended
  <2> QED  BY <1>1, <1>2, <1>3, <2>1, <2>2 DEF IInv, TypeOK
<1>6. KeptInv'
  <2>1. ASSUME NEW j \in Jobs PROVE Places(j)' = Places(j)
    <3>1. PICK a1 \in Nat : a1 = Cardinality(Spots(inputQueue', j))
      BY GetFrame
    <3>2. PICK a, b, c, d, e \in Nat :
          /\ a = Cardinality(Spots(inputQueue, j)) /\ b = Cardinality(Holders(worker, j))
          /\ c = Cardinality(Spots(outputQueue, j))
          /\ d = Cardinality(({j} \cap collected)) /\ e = Cardinality(({j} \cap lost))
      BY PlaceTypes DEF IInv
    <3>3. a = a1 + IF job = j THEN 1 ELSE 0
      BY <3>1, <3>2, GetFrame
    <3>4. PICK c1 : c1 = Cardinality(Spots(outputQueue', j))
      OBVIOUS
    <3>5. c1 = c + IF job = j THEN 1 ELSE 0
      BY <1>2, <3>2, <3>4, SpotsAppend
    <3>6. a1 + b + c1 + d + e = a + b + c + d + e
      BY <3>3, <3>5
    <3> QED  BY <1>1, <3>1, <3>2, <3>4, <3>6 DEF Places
  <2> QED  BY <1>1, <2>1, KeptStep DEF IInv
<1>7. BreaksLast'
  <2>1. \A x \in Worker : worker[x] # Exited
    BY GetFrame
  <2>2. \A i \in DOMAIN inputQueue' : inputQueue'[i] = Break =>
              /\ dispatched = Len(list)
              /\ \A k \in DOMAIN inputQueue' : i <= k => inputQueue'[k] = Break
    BY GetFrame
  <2> QED  BY <1>1, <2>1, <2>2 DEF BreaksLast, NothingStranded
<1>8. MainInv' /\ ReturnIsTrue'
  BY <1>1, GetFrame DEF IInv, MainInv, ReturnIsTrue
<1>9. TruthInv'
  <2> SUFFICES ASSUME NEW j \in Jobs
      PROVE /\ isBreak'[j] => threadExit
            /\ Back(j)' => \/ isBreak'[j]
                           \/ list[j].skip
                           \/ truth[j] = "passed" /\ returncode[j] = 0
                           \/ truth[j] = "troubled" /\ returncode[j] # 0
    BY <1>1, <1>2 DEF TruthInv
  <2>1. CASE j = job
    BY <1>2, <1>3, <2>1 DEF IInv, TruthInv
  <2>2. CASE j # job
    <3>1. \A i \in DOMAIN outputQueue' :
            (i \in DOMAIN outputQueue /\ outputQueue'[i] = outputQueue[i])
            \/ outputQueue'[i] = job
      BY <1>2, Appended
    <3>2. Back(j)' => Back(j)
      BY <1>1, <2>2, <3>1 DEF Back
    <3> QED  BY <1>3, <2>2, <3>2 DEF IInv, TruthInv
  <2> QED  BY <2>1, <2>2
<1>10. CountInv'
  <2>1. collected \subseteq Jobs
    BY DEF IInv, TypeOK
  <2>2. Good' = Good
    BY <1>1, <1>3, <1>4, <2>1 DEF Good
  <2>3. Counted' = Counted
    BY <1>1 DEF Counted
  <2> QED  BY <1>1, <2>2, <2>3 DEF IInv, CountInv
<1> QED  BY <1>5, <1>6, <1>7, <1>8, <1>9, <1>10 DEF IInv

\* A job that is run.
LEMMA GetTakes ==
  ASSUME IInv, NEW w \in Worker, worker[w] = Waiting,
         inputQueue # <<>>, inputQueue' = Tail(inputQueue),
         NEW job, job = Head(inputQueue), job # Break,
         worker' = [worker EXCEPT ![w] = job],
         UNCHANGED <<outputQueue, isBreak, mainVars, threadExit, returncode,
                     xml, truth, lost>>
  PROVE  IInv'
<1>1. UNCHANGED <<list, dispatched, breaks, turns, collected, count, main,
                  outputQueue, isBreak, threadExit, returncode, xml, truth,
                  lost>>
  BY DEF mainVars
<1>2. /\ Jobs' = Jobs /\ job \in Jobs /\ DOMAIN worker = Worker
      /\ Waiting \notin Jobs /\ Exited \notin Jobs
  <2>1. job \in Jobs
    BY GetFrame
  <2>2. Waiting \notin Jobs /\ Exited \notin Jobs
    BY Sizes DEF IInv
  <2> QED  BY <1>1, <2>1, <2>2 DEF IInv, TypeOK, Jobs
<1>3. TypeOK'
  <2>1. inputQueue' \in Seq(Jobs \cup {Break})
    BY GetFrame
  <2>2. worker' \in [Worker -> Jobs \cup {Waiting, Exited, Dead}]
    BY <1>2 DEF IInv, TypeOK
  <2> QED  BY <1>1, <1>2, <2>1, <2>2 DEF IInv, TypeOK
<1>4. KeptInv'
  <2>1. ASSUME NEW j \in Jobs PROVE Places(j)' = Places(j)
    <3>1. PICK a1 \in Nat : a1 = Cardinality(Spots(inputQueue', j))
      BY GetFrame
    <3>2. PICK a, b, c, d, e \in Nat :
          /\ a = Cardinality(Spots(inputQueue, j)) /\ b = Cardinality(Holders(worker, j))
          /\ c = Cardinality(Spots(outputQueue, j))
          /\ d = Cardinality(({j} \cap collected)) /\ e = Cardinality(({j} \cap lost))
      BY PlaceTypes DEF IInv
    <3>3. a = a1 + IF job = j THEN 1 ELSE 0
      BY <3>1, <3>2, GetFrame
    <3>4. PICK b1 : b1 = Cardinality(Holders(worker', j))
      OBVIOUS
    <3>5. /\ worker[w] # job /\ worker'[w] = job
          /\ \A x \in Worker : x # w => worker'[x] = worker[x]
          /\ worker[w] # j
      BY <1>2
    <3>6. /\ job = j => b1 = b + 1
          /\ job # j => b1 = b
      BY <3>2, <3>4, <3>5, WorkerChange
    <3>7. a1 + b1 + c + d + e = a + b + c + d + e
      BY <3>3, <3>6
    <3> QED  BY <1>1, <3>1, <3>2, <3>4, <3>7 DEF Places
  <2> QED  BY <1>1, <2>1, KeptStep DEF IInv
<1>5. BreaksLast'
  <2>1. \A x \in Worker : worker[x] # Exited
    BY GetFrame
  <2>2. \A x \in Worker : worker'[x] # Exited
    BY <1>2, <2>1
  <2>3. \A i \in DOMAIN inputQueue' : inputQueue'[i] = Break =>
              /\ dispatched = Len(list)
              /\ \A k \in DOMAIN inputQueue' : i <= k => inputQueue'[k] = Break
    BY GetFrame
  <2> QED  BY <1>1, <2>2, <2>3 DEF BreaksLast, NothingStranded
<1>6. MainInv' /\ ReturnIsTrue'
  BY <1>1, GetFrame DEF IInv, MainInv, ReturnIsTrue
<1>7. TruthInv' /\ CountInv'
  BY <1>1, Unwritten, Uncounted DEF IInv
<1> QED  BY <1>3, <1>4, <1>5, <1>6, <1>7 DEF IInv

LEMMA GetStep ==
  ASSUME IInv, NEW w \in Worker, Get(w)
  PROVE  IInv'
<1>1. PICK job : job = Head(inputQueue)
  OBVIOUS
<1>2. /\ worker[w] = Waiting /\ inputQueue # <<>>
      /\ inputQueue' = Tail(inputQueue)
      /\ UNCHANGED <<mainVars, threadExit, returncode, xml, truth, lost>>
  BY DEF Get
<1>3. \/ /\ job = Break
         /\ worker' = [worker EXCEPT ![w] = Exited]
         /\ UNCHANGED <<outputQueue, isBreak>>
      \/ /\ job # Break /\ threadExit
         /\ isBreak' = [isBreak EXCEPT ![job] = TRUE]
         /\ outputQueue' = Append(outputQueue, job)
         /\ UNCHANGED worker
      \/ /\ job # Break /\ ~threadExit /\ list[job].skip
         /\ outputQueue' = Append(outputQueue, job)
         /\ UNCHANGED <<worker, isBreak>>
      \/ /\ job # Break /\ ~threadExit /\ ~list[job].skip
         /\ worker' = [worker EXCEPT ![w] = job]
         /\ UNCHANGED <<outputQueue, isBreak>>
  BY <1>1 DEF Get
<1>4. CASE job = Break
  BY <1>1, <1>2, <1>3, <1>4, GetBreak
<1>5. CASE job # Break /\ UNCHANGED worker /\ outputQueue' = Append(outputQueue, job)
           /\ (\/ threadExit /\ isBreak' = [isBreak EXCEPT ![job] = TRUE]
               \/ list[job].skip /\ isBreak' = isBreak)
  BY <1>1, <1>2, <1>5, GetPutsBack
<1>6. CASE job # Break /\ worker' = [worker EXCEPT ![w] = job]
           /\ UNCHANGED <<outputQueue, isBreak>>
  BY <1>1, <1>2, <1>6, GetTakes
<1> QED  BY <1>3, <1>4, <1>5, <1>6

-----------------------------------------------------------------------------
\* A program ended: what is written about its job is written before the job
\* is back.
LEMMA FinishStep ==
  ASSUME IInv, NEW w \in Worker, Finish(w)
  PROVE  IInv'
<1>1. PICK job : job = worker[w]
  OBVIOUS
<1>2. PICK status \in {0, 1, 2, Crashed}, decodable \in BOOLEAN :
        /\ returncode' = [returncode EXCEPT ![job] = IF decodable THEN status ELSE 1]
        /\ truth' = [truth EXCEPT ![job] =
                       IF status = 0 /\ decodable THEN "passed" ELSE "troubled"]
        /\ \E file \in IF list[job].kind = "example" THEN {"none"}
                       ELSE IF status = Crashed THEN {"none", "part"}
                       ELSE {"whole"} :
             xml' = [xml EXCEPT ![job] = file]
        /\ outputQueue' = Append(outputQueue, job)
  BY <1>1 DEF Finish
<1>3. /\ job \in Jobs /\ worker' = [worker EXCEPT ![w] = Waiting]
      /\ UNCHANGED <<list, dispatched, breaks, turns, collected, count, main,
                     inputQueue, threadExit, isBreak, lost>>
  BY <1>1 DEF Finish, mainVars
<1>4. /\ Jobs' = Jobs /\ outputQueue \in Seq(Jobs) /\ collected \subseteq Jobs
      /\ DOMAIN worker = Worker /\ Waiting \notin Jobs
      /\ Exited \notin Jobs /\ Dead \notin Jobs
  BY <1>3, Sizes DEF IInv, TypeOK, Jobs
<1>5. /\ worker[w] # worker'[w] /\ worker'[w] = Waiting
      /\ \A x \in Worker : x # w => worker'[x] = worker[x]
  BY <1>1, <1>3, <1>4
<1>6. ~Back(job)
  BY <1>1, <1>3, OnePlace DEF IInv
<1>7. PICK rc, tr : /\ rc = (IF decodable THEN status ELSE 1)
                    /\ tr = (IF status = 0 /\ decodable THEN "passed" ELSE "troubled")
  OBVIOUS
<1>8. /\ rc \in {0, 1, 2, Crashed} /\ tr \in {"passed", "troubled"}
      /\ tr = "passed" => rc = 0
      /\ tr = "troubled" => rc # 0
  BY <1>7 DEF Crashed
<1>9. /\ returncode' \in [Jobs -> {0, 1, 2, Crashed}]
      /\ truth' \in [Jobs -> {"unrun", "passed", "troubled"}]
      /\ returncode'[job] = rc /\ truth'[job] = tr
      /\ \A j \in Jobs : j # job => returncode'[j] = returncode[j] /\ truth'[j] = truth[j]
  <2>1. /\ returncode \in [Jobs -> {0, 1, 2, Crashed}]
        /\ truth \in [Jobs -> {"unrun", "passed", "troubled"}]
    BY DEF IInv, TypeOK
  <2>2. returncode' = [returncode EXCEPT ![job] = rc] /\ truth' = [truth EXCEPT ![job] = tr]
    BY <1>2, <1>7
  <2> QED  BY <1>3, <1>8, <2>1, <2>2
<1>10. TypeOK'
  <2>1. outputQueue' \in Seq(Jobs)
    BY <1>2, <1>3, <1>4, Appended
  <2>2. worker' \in [Worker -> Jobs \cup {Waiting, Exited, Dead}]
    BY <1>3 DEF IInv, TypeOK
  <2>3. xml' \in [Jobs -> {"none", "part", "whole"}]
    <3>1. PICK file \in {"none", "part", "whole"} : xml' = [xml EXCEPT ![job] = file]
      BY <1>2
    <3> QED  BY <3>1 DEF IInv, TypeOK
  <2> QED  BY <1>3, <1>4, <1>9, <2>1, <2>2, <2>3 DEF IInv, TypeOK
<1>11. KeptInv'
  <2>1. ASSUME NEW j \in Jobs PROVE Places(j)' = Places(j)
    <3>2. PICK a, b, c, d, e \in Nat :
          /\ a = Cardinality(Spots(inputQueue, j)) /\ b = Cardinality(Holders(worker, j))
          /\ c = Cardinality(Spots(outputQueue, j))
          /\ d = Cardinality(({j} \cap collected)) /\ e = Cardinality(({j} \cap lost))
      BY PlaceTypes DEF IInv
    <3>3. PICK b1 : b1 = Cardinality(Holders(worker', j))
      OBVIOUS
    <3>4. PICK c1 : c1 = Cardinality(Spots(outputQueue', j))
      OBVIOUS
    <3>5. c1 = c + IF job = j THEN 1 ELSE 0
      BY <1>2, <1>3, <1>4, <3>2, <3>4, SpotsAppend
    <3>6. /\ job = j => b1 = b - 1
          /\ job # j => b1 = b
      <4>1. worker'[w] # j
        BY <1>4, <1>5
      <4> QED  BY <1>1, <1>5, <3>2, <3>3, <4>1, WorkerChange
    <3>7. a + b1 + c1 + d + e = a + b + c + d + e
      BY <3>5, <3>6
    <3> QED  BY <1>3, <3>2, <3>3, <3>4, <3>7 DEF Places
  <2> QED  BY <1>3, <2>1, KeptStep DEF IInv
<1>12. BreaksLast'
  <2>1. Waiting # Exited
    BY DEF Waiting, Exited
  <2>2. \A x \in Worker : worker'[x] = Exited => worker[x] = Exited
    BY <1>5, <2>1
  <2> QED  BY <1>3, <2>2 DEF IInv, BreaksLast, NothingStranded
<1>13. MainInv' /\ ReturnIsTrue'
  <2>1. main \notin {"success", "failure"}
    BY <1>1, <1>3, <1>4, StillRunning
  <2> QED  BY <1>3, <2>1 DEF IInv, MainInv, ReturnIsTrue
<1>14. TruthInv'
  <2> SUFFICES ASSUME NEW j \in Jobs
      PROVE /\ isBreak[j] => threadExit
            /\ Back(j)' => \/ isBreak[j]
                           \/ list[j].skip
                           \/ truth'[j] = "passed" /\ returncode'[j] = 0
                           \/ truth'[j] = "troubled" /\ returncode'[j] # 0
    BY <1>3, <1>4 DEF TruthInv
  <2>1. CASE j = job
    BY <1>8, <1>9, <2>1 DEF IInv, TruthInv
  <2>2. CASE j # job
    <3>1. \A i \in DOMAIN outputQueue' :
            (i \in DOMAIN outputQueue /\ outputQueue'[i] = outputQueue[i])
            \/ outputQueue'[i] = job
      BY <1>2, <1>3, <1>4, Appended
    <3>2. Back(j)' => Back(j)
      BY <1>3, <2>2, <3>1 DEF Back
    <3>3. returncode'[j] = returncode[j] /\ truth'[j] = truth[j]
      BY <1>9, <2>2
    <3> QED  BY <3>2, <3>3 DEF IInv, TruthInv
  <2> QED  BY <2>1, <2>2
<1>15. CountInv'
  <2>1. job \notin collected
    BY <1>6 DEF Back
  <2>2. Good' = Good
    BY <1>3, <1>4, <1>9, <2>1 DEF Good
  <2>3. Counted' = Counted
    BY <1>3 DEF Counted
  <2> QED  BY <1>3, <2>2, <2>3 DEF IInv, CountInv
<1> QED  BY <1>10, <1>11, <1>12, <1>13, <1>14, <1>15 DEF IInv

LEMMA DiesStep ==
  ASSUME IInv, NEW w \in Worker, Dies(w)
  PROVE  IInv'
<1>1. PICK job : job = worker[w]
  OBVIOUS
<1>2. /\ job \in Jobs /\ worker' = [worker EXCEPT ![w] = Dead]
      /\ lost' = lost \cup {job}
      /\ UNCHANGED <<list, dispatched, breaks, turns, collected, count, main,
                     inputQueue, outputQueue, threadExit, isBreak, returncode,
                     xml, truth>>
  BY <1>1 DEF Dies, mainVars, jobVars
<1>3. /\ Jobs' = Jobs /\ DOMAIN worker = Worker
      /\ Exited \notin Jobs /\ Dead \notin Jobs /\ Dead # Exited
  BY <1>2, Sizes DEF IInv, TypeOK, Jobs, Dead, Exited
<1>4. /\ worker[w] # worker'[w] /\ worker'[w] = Dead
      /\ \A x \in Worker : x # w => worker'[x] = worker[x]
  BY <1>1, <1>2, <1>3
<1>5. job \notin lost
  BY <1>1, <1>2, OnePlace DEF IInv
<1>6. TypeOK'
  <2>1. worker' \in [Worker -> Jobs \cup {Waiting, Exited, Dead}]
    BY <1>2 DEF IInv, TypeOK
  <2> QED  BY <1>2, <1>3, <2>1 DEF IInv, TypeOK
<1>7. KeptInv'
  <2>1. ASSUME NEW j \in Jobs PROVE Places(j)' = Places(j)
    <3>1. PICK a, b, c, d, e \in Nat :
          /\ a = Cardinality(Spots(inputQueue, j)) /\ b = Cardinality(Holders(worker, j))
          /\ c = Cardinality(Spots(outputQueue, j))
          /\ d = Cardinality(({j} \cap collected)) /\ e = Cardinality(({j} \cap lost))
      BY PlaceTypes DEF IInv
    <3>2. PICK b1 : b1 = Cardinality(Holders(worker', j))
      OBVIOUS
    <3>3. /\ job = j => b1 = b - 1
          /\ job # j => b1 = b
      <4>1. worker'[w] # j
        BY <1>3, <1>4
      <4> QED  BY <1>1, <1>4, <3>1, <3>2, <4>1, WorkerChange
    <3>4. PICK e1 : e1 = Cardinality(({j} \cap lost'))
      OBVIOUS
    <3>5. /\ job = j => e = 0 /\ e1 = 1
          /\ job # j => e1 = e
      <4>1. CASE job = j
        BY <1>2, <1>5, <3>1, <3>4, <4>1, OneOf
      <4>2. CASE job # j
        <5>1. {j} \cap lost' = {j} \cap lost
          BY <1>2, <4>2
        <5> QED  BY <3>1, <3>4, <4>2, <5>1
      <4> QED  BY <4>1, <4>2
    <3>6. a + b1 + c + d + e1 = a + b + c + d + e
      BY <3>3, <3>5
    <3> QED  BY <1>2, <3>1, <3>2, <3>4, <3>6 DEF Places
  <2> QED  BY <1>2, <2>1, KeptStep DEF IInv
<1>8. BreaksLast'
  <2>1. \A x \in Worker : worker'[x] = Exited => worker[x] = Exited
    BY <1>3, <1>4
  <2> QED  BY <1>2, <2>1 DEF IInv, BreaksLast, NothingStranded
<1>9. MainInv' /\ ReturnIsTrue'
  <2>1. main \notin {"success", "failure"}
    BY <1>1, <1>2, <1>3, StillRunning
  <2> QED  BY <1>2, <2>1 DEF IInv, MainInv, ReturnIsTrue
<1>10. TruthInv' /\ CountInv'
  BY <1>2, Unwritten, Uncounted DEF IInv
<1> QED  BY <1>6, <1>7, <1>8, <1>9, <1>10 DEF IInv

\* What counting a job adds to the counts.
LEMMA CountsOne ==
  ASSUME IInv, NEW s \in Statuses, count' = [count EXCEPT ![s] = @ + 1]
  PROVE  /\ Counted' = Counted + 1
         /\ count'["PASS"] + count'["SKIP"] =
              count["PASS"] + count["SKIP"] + IF s \in {"PASS", "SKIP"} THEN 1 ELSE 0
         /\ \A t \in Statuses : count'[t] \in 0..Counted'
<1>1. /\ \A t \in Statuses : count[t] \in Nat
      /\ DOMAIN count = Statuses
  BY Sizes DEF IInv, TypeOK
<1>2. PICK p, f, v, c, k \in Nat :
        /\ p = count["PASS"] /\ f = count["FAIL"] /\ v = count["VALGR"]
        /\ c = count["CRASH"] /\ k = count["SKIP"]
  BY <1>1 DEF Statuses
<1>3. PICK p1, f1, v1, c1, k1 :
        /\ p1 = count'["PASS"] /\ f1 = count'["FAIL"] /\ v1 = count'["VALGR"]
        /\ c1 = count'["CRASH"] /\ k1 = count'["SKIP"]
  OBVIOUS
<1>4. count'[s] = count[s] + 1 /\ \A t \in Statuses : t # s => count'[t] = count[t]
  BY <1>1
<1>5. /\ p1 = p + (IF s = "PASS" THEN 1 ELSE 0)
      /\ f1 = f + (IF s = "FAIL" THEN 1 ELSE 0)
      /\ v1 = v + (IF s = "VALGR" THEN 1 ELSE 0)
      /\ c1 = c + (IF s = "CRASH" THEN 1 ELSE 0)
      /\ k1 = k + (IF s = "SKIP" THEN 1 ELSE 0)
  <2>1. "PASS" \in Statuses /\ "FAIL" \in Statuses /\ "VALGR" \in Statuses
        /\ "CRASH" \in Statuses /\ "SKIP" \in Statuses
    BY DEF Statuses
  <2>2. ASSUME NEW t \in Statuses, NEW n \in Nat, NEW n1, n = count[t], n1 = count'[t]
        PROVE  n1 = n + (IF s = t THEN 1 ELSE 0)
    BY <1>4, <2>2
  <2>3. p1 = p + (IF s = "PASS" THEN 1 ELSE 0)
    BY <1>2, <1>3, <2>1, <2>2
  <2>4. f1 = f + (IF s = "FAIL" THEN 1 ELSE 0)
    BY <1>2, <1>3, <2>1, <2>2
  <2>5. v1 = v + (IF s = "VALGR" THEN 1 ELSE 0)
    BY <1>2, <1>3, <2>1, <2>2
  <2>6. c1 = c + (IF s = "CRASH" THEN 1 ELSE 0)
    BY <1>2, <1>3, <2>1, <2>2
  <2>7. k1 = k + (IF s = "SKIP" THEN 1 ELSE 0)
    BY <1>2, <1>3, <2>1, <2>2
  <2> QED  BY <2>3, <2>4, <2>5, <2>6, <2>7
<1>6. s \in {"PASS", "FAIL", "VALGR", "CRASH", "SKIP"}
  BY DEF Statuses
<1>7. /\ p1 + f1 + v1 + c1 + k1 = p + f + v + c + k + 1
      /\ p1 + k1 = p + k + IF s \in {"PASS", "SKIP"} THEN 1 ELSE 0
      /\ p1 \in Nat /\ f1 \in Nat /\ v1 \in Nat /\ c1 \in Nat /\ k1 \in Nat
  BY <1>5, <1>6
<1>8. PICK n \in Nat : n = p1 + f1 + v1 + c1 + k1
  BY <1>7
<1>9. p1 \in 0..n /\ f1 \in 0..n /\ v1 \in 0..n /\ c1 \in 0..n /\ k1 \in 0..n
  BY <1>7, <1>8
<1>10. Counted' = n /\ Counted = p + f + v + c + k
  BY <1>2, <1>3, <1>8 DEF Counted
<1>11. \A t \in Statuses : count'[t] \in 0..n
  BY <1>3, <1>9 DEF Statuses
<1> QED  BY <1>2, <1>3, <1>7, <1>8, <1>10, <1>11

LEMMA StatusOfCounts ==
  ASSUME IInv, NEW job \in Jobs
  PROVE  /\ StatusOf(job) \in Statuses
         /\ StatusOf(job) \in {"PASS", "SKIP"} <=> list[job].skip \/ returncode[job] = 0
<1>1. CASE list[job].skip
  <2>1. StatusOf(job) = "SKIP"
    BY <1>1 DEF StatusOf
  <2> QED  BY <1>1, <2>1 DEF Statuses
<1>2. CASE ~list[job].skip
  <2>1. returncode[job] = 0 => StatusOf(job) = "PASS"
    BY <1>2 DEF StatusOf
  <2>2. returncode[job] = 1 => StatusOf(job) = "FAIL"
    BY <1>2 DEF StatusOf
  <2>3. returncode[job] = 2 => StatusOf(job) = "VALGR"
    BY <1>2 DEF StatusOf
  <2>4. returncode[job] = Crashed => StatusOf(job) = "CRASH"
    BY <1>2 DEF StatusOf, Crashed
  <2>5. returncode[job] \in {0, 1, 2, Crashed}
    BY DEF IInv, TypeOK
  <2> QED  BY <1>2, <2>1, <2>2, <2>3, <2>4, <2>5 DEF Statuses, Crashed
<1> QED  BY <1>1, <1>2

-----------------------------------------------------------------------------
\* What is collected: a job that was put back once.
LEMMA CollectFrame ==
  ASSUME IInv, NEW job, job = Head(outputQueue), outputQueue # <<>>,
         outputQueue' = Tail(outputQueue), collected' = collected \cup {job},
         list' = list
  PROVE  /\ job \in Jobs /\ job \notin collected /\ Back(job)
         /\ outputQueue' \in Seq(Jobs)
         /\ \A j : Cardinality(Spots(outputQueue, j)) =
                     Cardinality(Spots(outputQueue', j)) + IF job = j THEN 1 ELSE 0
         /\ \A j : Cardinality(Spots(outputQueue', j)) \in Nat
         /\ \A j : Back(j)' => Back(j)
<1>1. outputQueue \in Seq(Jobs)
  BY DEF IInv, TypeOK
<1>2. PICK s, t : s = outputQueue /\ t = outputQueue'
  OBVIOUS
<1>3. /\ t \in Seq(Jobs) /\ job \in Jobs /\ 1 \in DOMAIN s /\ job = s[1]
      /\ \A i \in DOMAIN t : i \in Int /\ i + 1 \in DOMAIN s /\ t[i] = s[i + 1]
  BY <1>1, <1>2, Headless
<1>4. Back(job)
  BY <1>2, <1>3 DEF Back
<1>5. job \notin collected
  BY <1>2, <1>3, OnePlace DEF IInv
<1>6. \A j : Back(j)' => Back(j)
  <2> SUFFICES ASSUME NEW j, Back(j)' PROVE Back(j)
    OBVIOUS
  <2>1. CASE j \in collected'
    BY <1>4, <2>1 DEF Back
  <2>2. CASE \E i \in DOMAIN t : t[i] = j
    BY <1>2, <1>3, <2>2 DEF Back
  <2> QED  BY <1>2, <2>1, <2>2 DEF Back
<1>7. \A j : Cardinality(Spots(outputQueue, j)) =
               Cardinality(Spots(outputQueue', j)) + IF job = j THEN 1 ELSE 0
  BY <1>1, SpotsTail
<1>8. \A j : Cardinality(Spots(outputQueue', j)) \in Nat
  BY <1>2, <1>3, SpotsFinite
<1> QED  BY <1>2, <1>3, <1>4, <1>5, <1>6, <1>7, <1>8

LEMMA CollectStep ==
  ASSUME IInv, Collect
  PROVE  IInv'
<1>1. PICK job : job = Head(outputQueue)
  OBVIOUS
<1>2. /\ main = "collect" /\ turns < dispatched /\ turns' = turns + 1
      /\ outputQueue # <<>> /\ outputQueue' = Tail(outputQueue)
      /\ collected' = collected \cup {job}
      /\ UNCHANGED <<list, dispatched, breaks, inputQueue, threadExit, worker,
                     isBreak, returncode, xml, truth, lost>>
  BY <1>1 DEF Collect, jobVars
<1>3. \/ /\ isBreak[job]
         /\ UNCHANGED <<count, main>>
      \/ /\ ~isBreak[job]
         /\ count' = [count EXCEPT ![StatusOf(job)] = @ + 1]
         /\ main' \in {"collect", "aborted"}
  BY <1>1, <1>2 DEF Collect
<1>4. /\ Jobs' = Jobs /\ collected \subseteq Jobs
      /\ dispatched \in Nat /\ turns \in Nat /\ Len(list) \in Nat
      /\ dispatched <= Len(list)
      /\ \A t \in Statuses : count[t] \in Nat
  BY <1>2, Sizes DEF IInv, TypeOK, Jobs
<1>5. /\ job \in Jobs /\ job \notin collected
      /\ outputQueue' \in Seq(Jobs)
      /\ \A j : Back(j)' => Back(j)
  BY <1>1, <1>2, CollectFrame
<1>6. main' \in {"collect", "aborted"}
  BY <1>2, <1>3
\* The counts.
<1>7. PICK n, m, g, g1 : /\ n = Counted /\ m = Counted'
                         /\ g = count["PASS"] + count["SKIP"]
                         /\ g1 = count'["PASS"] + count'["SKIP"]
  OBVIOUS
<1>8. n \in Nat /\ g \in Nat /\ n <= turns
  <2>1. /\ count["PASS"] \in Nat /\ count["FAIL"] \in Nat /\ count["VALGR"] \in Nat
        /\ count["CRASH"] \in Nat /\ count["SKIP"] \in Nat
    BY <1>4 DEF Statuses
  <2> QED  BY <1>7, <2>1 DEF IInv, CountInv, Counted
<1>9. /\ count' \in [Statuses -> 0..Len(list)]
      /\ m <= turns'
      /\ isBreak[job] => g1 = g
      /\ ~isBreak[job] => g1 = g + IF list[job].skip \/ returncode[job] = 0
                                   THEN 1 ELSE 0
  <2>1. CASE isBreak[job] /\ UNCHANGED <<count, main>>
    <3>1. m = n /\ g1 = g
      BY <1>7, <2>1 DEF Counted
    <3> QED  BY <1>2, <1>4, <1>8, <2>1, <3>1 DEF IInv, TypeOK
  <2>2. CASE ~isBreak[job] /\ count' = [count EXCEPT ![StatusOf(job)] = @ + 1]
    <3>1. PICK s \in Statuses :
            /\ s = StatusOf(job)
            /\ s \in {"PASS", "SKIP"} <=> (list[job].skip \/ returncode[job] = 0)
      BY <1>5, StatusOfCounts
    <3>2. count' = [count EXCEPT ![s] = @ + 1]
      BY <2>2, <3>1
    <3>3. /\ m = n + 1
          /\ g1 = g + IF s \in {"PASS", "SKIP"} THEN 1 ELSE 0
          /\ \A t \in Statuses : count'[t] \in 0..m
      BY <1>7, <3>2, CountsOne
    <3>4. m <= turns' /\ m <= Len(list) /\ m \in Nat
      BY <1>2, <1>4, <1>8, <3>3
    <3>5. \A t \in Statuses : count'[t] \in 0..Len(list)
      BY <1>4, <3>3, <3>4
    <3>6. DOMAIN count = Statuses /\ count' = [t \in Statuses |-> count'[t]]
      BY <3>2 DEF IInv, TypeOK
    <3>7. count' \in [Statuses -> 0..Len(list)]
      <4>1. PICK f : f = count'
        OBVIOUS
      <4>2. f = [t \in Statuses |-> f[t]] /\ \A t \in Statuses : f[t] \in 0..Len(list)
        BY <3>5, <3>6, <4>1
      <4>3. f \in [Statuses -> 0..Len(list)]
        BY <4>2
      <4> QED  BY <4>1, <4>3
    <3>8. g1 = g + IF list[job].skip \/ returncode[job] = 0 THEN 1 ELSE 0
      BY <3>1, <3>3
    <3> QED  BY <2>2, <3>4, <3>7, <3>8
  <2> QED  BY <1>3, <2>1, <2>2
<1>10. TypeOK'
  <2>1. turns' \in 0..dispatched' /\ dispatched' \in 0..Len(list')
    BY <1>2, <1>4
  <2>2. collected' \subseteq Jobs
    BY <1>2, <1>4, <1>5
  <2>3. main' \in {"dispatch", "collect", "join", "success", "failure", "aborted"}
    BY <1>6
  <2> QED  BY <1>2, <1>4, <1>5, <1>9, <2>1, <2>2, <2>3 DEF IInv, TypeOK
<1>11. KeptInv'
  <2>1. ASSUME NEW j \in Jobs PROVE Places(j)' = Places(j)
    <3>1. PICK a, b, c, d, e \in Nat :
          /\ a = Cardinality(Spots(inputQueue, j)) /\ b = Cardinality(Holders(worker, j))
          /\ c = Cardinality(Spots(outputQueue, j))
          /\ d = Cardinality(({j} \cap collected)) /\ e = Cardinality(({j} \cap lost))
      BY PlaceTypes DEF IInv
    <3>2. PICK c1 \in Nat : c1 = Cardinality(Spots(outputQueue', j))
      BY <1>1, <1>2, CollectFrame
    <3>3. c = c1 + IF job = j THEN 1 ELSE 0
      BY <1>1, <1>2, <3>1, <3>2, CollectFrame
    <3>4. PICK d1 : d1 = Cardinality(({j} \cap collected'))
      OBVIOUS
    <3>5. /\ job = j => d = 0 /\ d1 = 1
          /\ job # j => d1 = d
      <4>1. CASE job = j
        BY <1>2, <1>5, <3>1, <3>4, <4>1, OneOf
      <4>2. CASE job # j
        <5>1. {j} \cap collected' = {j} \cap collected
          BY <1>2, <4>2
        <5> QED  BY <3>1, <3>4, <4>2, <5>1
      <4> QED  BY <4>1, <4>2
    <3>6. a + b + c1 + d1 + e = a + b + c + d + e
      BY <3>3, <3>5
    <3> QED  BY <1>2, <3>1, <3>2, <3>4, <3>6 DEF Places
  <2> QED  BY <1>2, <2>1, KeptStep DEF IInv
<1>12. BreaksLast'
  BY <1>2 DEF IInv, BreaksLast, NothingStranded
<1>13. MainInv' /\ ReturnIsTrue'
  BY <1>2, <1>6 DEF IInv, MainInv, ReturnIsTrue
<1>14. TruthInv'
  BY <1>2, <1>4, <1>5 DEF IInv, TruthInv
<1>15. CountInv'
  <2>1. IsFiniteSet(collected) /\ Cardinality(collected) = turns
    BY DEF IInv, CountInv
  <2>2. IsFiniteSet(collected') /\ Cardinality(collected') = turns'
    BY <1>2, <1>5, <2>1, FS_AddElement
  <2>3. PICK S, T : S = Good /\ T = Good'
    OBVIOUS
  <2>4. S \in SUBSET collected
    BY <2>3 DEF Good
  <2>5. IsFiniteSet(S) /\ Cardinality(S) = g /\ job \notin S
    BY <1>5, <1>7, <2>1, <2>3, <2>4, FS_Subset DEF IInv, CountInv
  <2>6. Cardinality(T) = g1
    <3>1. CASE isBreak[job] \/ (~list[job].skip /\ returncode[job] # 0)
      <4>1. T = S
        BY <1>2, <2>3, <3>1 DEF Good
      <4>2. g1 = g
        BY <1>8, <1>9, <3>1
      <4> QED  BY <2>5, <4>1, <4>2
    <3>2. CASE ~isBreak[job] /\ (list[job].skip \/ returncode[job] = 0)
      <4>1. T = S \cup {job}
        BY <1>2, <2>3, <3>2 DEF Good
      <4>2. g1 = g + 1
        BY <1>9, <3>2
      <4> QED  BY <2>5, <4>1, <4>2, FS_AddElement
    <3> QED  BY <3>1, <3>2
  <2> QED  BY <1>7, <1>9, <2>2, <2>3, <2>6 DEF CountInv
<1> QED  BY <1>10, <1>11, <1>12, <1>13, <1>14, <1>15 DEF IInv

LEMMA CollectEndsStep ==
  ASSUME IInv, CollectEnds
  PROVE  IInv'
<1>1. /\ main = "collect" /\ turns = dispatched /\ main' = "join"
      /\ UNCHANGED <<list, dispatched, breaks, inputQueue, outputQueue,
                     threadExit, worker, isBreak, returncode, xml, truth, lost,
                     turns, collected, count>>
  BY DEF CollectEnds, jobVars
<1>2. TypeOK'
  BY <1>1 DEF IInv, TypeOK, Jobs
<1>3. KeptInv' /\ BreaksLast' /\ TruthInv' /\ CountInv'
  BY <1>1, Unmoved, Unwritten, Uncounted DEF IInv
<1>4. MainInv' /\ ReturnIsTrue'
  BY <1>1 DEF IInv, MainInv, ReturnIsTrue
<1> QED  BY <1>2, <1>3, <1>4 DEF IInv

\* All jobs were collected.  If all were counted as passed or skipped, each
\* was; if not, one was interrupted or is troubled.
LEMMA ReturnStep ==
  ASSUME IInv, Return
  PROVE  IInv'
<1>1. /\ main = "join" /\ \A w \in Worker : worker[w] \in {Exited, Dead}
      /\ main' = (IF count["PASS"] + count["SKIP"] = dispatched THEN "success"
                  ELSE "failure")
      /\ UNCHANGED <<list, dispatched, breaks, inputQueue, outputQueue,
                     threadExit, worker, isBreak, returncode, xml, truth, lost,
                     turns, collected, count>>
  BY DEF Return, jobVars
<1>2. TypeOK'
  <2>1. main' \in {"dispatch", "collect", "join", "success", "failure", "aborted"}
    BY <1>1
  <2> QED  BY <1>1, <2>1 DEF IInv, TypeOK, Jobs
<1>3. KeptInv' /\ BreaksLast' /\ TruthInv' /\ CountInv'
  BY <1>1, Unmoved, Unwritten, Uncounted DEF IInv
<1>4. turns = dispatched /\ dispatched = Len(list)
  BY <1>1 DEF IInv, MainInv
<1>5. MainInv'
  BY <1>1, <1>4 DEF MainInv
<1>6. /\ Len(list) \in Nat /\ Jobs = 1..Len(list) /\ Jobs' = Jobs
      /\ IsFiniteSet(Jobs) /\ Cardinality(Jobs) = Len(list)
  <2>1. Len(list) \in Nat /\ Jobs = 1..Len(list) /\ Jobs' = Jobs
    BY <1>1, Sizes DEF IInv, Jobs
  <2>2. IsFiniteSet(1..Len(list)) /\ Cardinality(1..Len(list)) = Len(list)
    BY <2>1, FS_Interval
  <2> QED  BY <2>1, <2>2
<1>7. /\ collected \in SUBSET Jobs /\ Good \in SUBSET collected
      /\ IsFiniteSet(collected) /\ Cardinality(collected) = Len(list)
      /\ Cardinality(Good) = count["PASS"] + count["SKIP"]
  BY <1>4 DEF IInv, TypeOK, CountInv, Good
<1>8. collected = Jobs
  <2> HIDE DEF Jobs
  <2> QED  BY <1>6, <1>7, FS_Subset
<1>9. ASSUME main' = "success", NEW j \in Jobs
      PROVE  list[j].skip \/ truth[j] = "passed"
  <2>1. Cardinality(Good) = Cardinality(collected)
    BY <1>1, <1>4, <1>7, <1>9
  <2>2. Good = collected
    <3> HIDE DEF Good
    <3> QED  BY <1>7, <2>1, FS_Subset
  <2>3. j \in Good
    BY <1>8, <2>2
  <2>4. ~isBreak[j] /\ (list[j].skip \/ returncode[j] = 0) /\ Back(j)
    BY <2>3 DEF Good, Back
  <2> QED  BY <2>4 DEF IInv, TruthInv
<1>10. ASSUME main' = "failure"
       PROVE  threadExit \/ \E j \in Jobs : ~list[j].skip /\ truth[j] = "troubled"
  <2>1. Good # collected
    <3>1. count["PASS"] + count["SKIP"] # dispatched
      BY <1>1, <1>10
    <3> QED  BY <1>4, <1>7, <3>1
  <2>2. PICK j \in collected : isBreak[j] \/ (~list[j].skip /\ returncode[j] # 0)
    BY <2>1 DEF Good
  <2>3. j \in Jobs /\ Back(j)
    BY <1>8, <2>2 DEF Back
  <2> QED  BY <2>2, <2>3 DEF IInv, TruthInv
<1>11. ReturnIsTrue'
  BY <1>1, <1>6, <1>9, <1>10 DEF ReturnIsTrue
<1> QED  BY <1>2, <1>3, <1>5, <1>11 DEF IInv

-----------------------------------------------------------------------------
LEMMA IInvNext == IInv /\ [Next]_vars => IInv'
<1> SUFFICES ASSUME IInv, [Next]_vars PROVE IInv'
  OBVIOUS
<1>1. CASE Interrupt
  BY <1>1, InterruptStep
<1>2. CASE Dispatch
  BY <1>2, DispatchStep
<1>3. CASE DispatchBreak
  BY <1>3, DispatchBreakStep
<1>4. CASE Collect
  BY <1>4, CollectStep
<1>5. CASE CollectEnds
  BY <1>5, CollectEndsStep
<1>6. CASE Return
  BY <1>6, ReturnStep
<1>7. ASSUME NEW w \in Worker, Get(w) PROVE IInv'
  BY <1>7, GetStep
<1>8. ASSUME NEW w \in Worker, Finish(w) PROVE IInv'
  BY <1>8, FinishStep
<1>9. ASSUME NEW w \in Worker, Dies(w) PROVE IInv'
  BY <1>9, DiesStep
<1>10. CASE UNCHANGED vars
  <2>1. UNCHANGED <<list, dispatched, breaks, inputQueue, outputQueue, threadExit,
          worker, isBreak, returncode, xml, truth, lost, turns, collected,
          count, main>>
    BY <1>10 DEF vars
  <2>2. TypeOK'
    BY <2>1 DEF IInv, TypeOK, Jobs
  <2>3. KeptInv' /\ BreaksLast' /\ TruthInv' /\ CountInv'
    BY <2>1, Unmoved, Unwritten, Uncounted DEF IInv
  <2>4. MainInv' /\ ReturnIsTrue'
    BY <2>1 DEF IInv, MainInv, ReturnIsTrue, Jobs
  <2> QED  BY <2>2, <2>3, <2>4 DEF IInv
<1>11. CASE DispatchFails
  BY <1>11, DispatchFailsStep
<1> QED  BY <1>1, <1>2, <1>3, <1>4, <1>5, <1>6, <1>7, <1>8, <1>9, <1>10, <1>11
         DEF Next, Main

LEMMA IInvAlways == Spec => []IInv
<1>1. Init => IInv
  BY IInvInit
<1>2. IInv /\ [Next]_vars => IInv'
  BY IInvNext
<1> QED  BY <1>1, <1>2, PTL DEF Spec

LEMMA IInvKeeps == IInv => Consistent
<1> SUFFICES ASSUME IInv PROVE Consistent
  OBVIOUS
<1>1. JobsAreKept
  <2> SUFFICES ASSUME NEW j \in 1..dispatched PROVE Places(j) = 1
    BY DEF JobsAreKept, Places, Spots, Holders
  <2>1. j \in Jobs
    BY Sizes DEF IInv
  <2> QED  BY <2>1 DEF IInv, KeptInv
<1> QED  BY <1>1 DEF Consistent, IInv

\* The two queues between run_tests and its worker threads lose no job and
\* deliver none twice: whatever SIGINT and exceptions do, a job that was
\* dispatched is in exactly one place, so the loop that collects as many jobs
\* as were dispatched waits for the right number of them.
THEOREM Consistency == Spec => []Consistent
<1>1. IInv => Consistent
  BY IInvKeeps
<1> QED  BY <1>1, IInvAlways, PTL

\* run_tests returns 0 only if every test was skipped or ran and passed, and
\* another value only if SIGINT came or a test that ran is in trouble: the
\* comparison of passed_tests + skipped_tests with total_tests says that of
\* every list of tests, though it counts and does not look at the tests.
THEOREM TrueReturn == Spec => []ReturnIsTrue
<1>1. IInv => ReturnIsTrue
  BY DEF IInv
<1> QED  BY <1>1, IInvAlways, PTL

\* The Breaks come after all jobs in input_queue, one per worker, so no
\* worker thread goes home while a job waits for one.
THEOREM NobodyStranded == Spec => []NothingStranded
<1>1. IInv => NothingStranded
  BY DEF IInv, BreaksLast
<1> QED  BY <1>1, IInvAlways, PTL
=============================================================================
