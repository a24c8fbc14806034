-------------------------- MODULE TaskStackProofs --------------------------
(***************************************************************************)
(* Proofs about TaskStack for every number of workers and every            *)
(* repository.                                                             *)
(***************************************************************************)
EXTENDS TaskStack, FiniteSetTheorems, SequenceTheorems, TLAPS

-----------------------------------------------------------------------------
(* The inductive invariant                                                 *)

\* While the main thread pushes, no worker exists; while it starts them, those
\* that are still to come do not.
Born ==
    /\ main \in {"count", "push"} => \A w \in Threads : pc[w] = "unborn"
    /\ main = "start" => \A i \in at .. Len(Workers) : pc[Workers[i]] = "unborn"

\* A worker has a task exactly while it runs one.
Busy ==
    \A w \in Threads :
        /\ pc[w] \in {"run", "push", "insert"} <=> task[w] # Idle
        /\ pc[w] = "push" => task[w] \in CategoryTasks /\ HasChild(w)
        /\ pc[w] = "insert" => task[w] \in PackageTasks /\ HasChild(w)

\* The workers in front of the one that is waited for have left.
Joined ==
    /\ main = "join" => \A i \in 1 .. at - 1 : pc[Workers[i]] = "exited"
    /\ main = "compare" => \A w \in Threads : pc[w] = "exited"

\* Somebody is still to handle the i-th child of t: t waits on the stack, a worker
\* runs it and is not that far, or the main thread has it still to push.
Owed(t, i) ==
    \/ t \in ToSet(stack)
    \/ \E w \in Threads : task[w] = t /\ i > pos[w]
    \/ main \in {"count", "push"} /\ \E k \in at .. Len(Categories) : Categories[k] = t

\* No package and no ebuild is lost.
Conserved ==
    \A c \in CategoryTasks : \A i \in DOMAIN PackagesOf[c] :
        \/ Owed(c, i)
        \/ \A j \in DOMAIN EbuildsOf[PackagesOf[c][i]] :
            \/ Owed(PackagesOf[c][i], j)
            \/ EbuildsOf[PackagesOf[c][i]][j] \in ebuilds_found

IInv ==
    /\ TypeOK /\ CounterCovers
    /\ Born /\ Busy /\ Joined
    /\ Exclusive /\ ExitMeansDone /\ Conserved

-----------------------------------------------------------------------------
(* Constants, cardinalities and the stack                                  *)

\* The children of a task, and which sets they are from.
LEMMA ChildFacts ==
    /\ \A c \in CategoryTasks : Children(c) = PackagesOf[c] /\ c \in Tasks
    /\ \A p \in PackageTasks : Children(p) = EbuildsOf[p] /\ p \in Tasks
    /\ \A t \in Tasks : Len(Children(t)) \in Nat /\ DOMAIN Children(t) = 1 .. Len(Children(t))
    /\ \A c \in CategoryTasks : \A i \in DOMAIN PackagesOf[c] : PackagesOf[c][i] \in PackageTasks
    /\ \A p \in PackageTasks : \A i \in DOMAIN EbuildsOf[p] : EbuildsOf[p][i] \in AllEbuilds
    /\ Len(Categories) \in Nat /\ DOMAIN Categories = 1 .. Len(Categories)
    /\ \A k \in DOMAIN Categories : Categories[k] \in CategoryTasks
    /\ Idle \notin Tasks
<1>1. ASSUME NEW c \in CategoryTasks
      PROVE  /\ Children(c) = PackagesOf[c] /\ c \in Tasks
             /\ Len(Children(c)) \in Nat /\ DOMAIN Children(c) = 1 .. Len(Children(c))
             /\ \A i \in DOMAIN PackagesOf[c] : PackagesOf[c][i] \in PackageTasks
  BY TaskAssumption DEF Children, Tasks
<1>2. ASSUME NEW p \in PackageTasks
      PROVE  /\ Children(p) = EbuildsOf[p] /\ p \in Tasks
             /\ Len(Children(p)) \in Nat /\ DOMAIN Children(p) = 1 .. Len(Children(p))
             /\ \A i \in DOMAIN EbuildsOf[p] : EbuildsOf[p][i] \in AllEbuilds
  <2>1. p \notin CategoryTasks /\ EbuildsOf[p] \in Seq(AllEbuilds)
    BY TaskAssumption
  <2> QED
    BY <2>1 DEF Children, Tasks
<1>3. /\ Len(Categories) \in Nat /\ DOMAIN Categories = 1 .. Len(Categories)
      /\ \A k \in DOMAIN Categories : Categories[k] \in CategoryTasks
      /\ Idle \notin Tasks
  BY TaskAssumption
<1> QED
  BY <1>1, <1>2, <1>3 DEF Tasks

\* Each thread of the pool has one place in it.
LEMMA WorkerFacts ==
    /\ Len(Workers) \in Nat /\ DOMAIN Workers = 1 .. Len(Workers)
    /\ \A i \in 1 .. Len(Workers) : Workers[i] \in Threads
    /\ \A w \in Threads : \E i \in 1 .. Len(Workers) : w = Workers[i]
    /\ \A i, j \in 1 .. Len(Workers) : Workers[i] = Workers[j] => i = j
<1>1. Len(Workers) \in Nat /\ DOMAIN Workers = 1 .. Len(Workers)
  BY PoolAssumption
<1>2. \A i, j \in DOMAIN Workers : Workers[i] = Workers[j] => i = j
  BY PoolAssumption DEF IsInjective
<1> QED
  BY <1>1, <1>2, PoolAssumption DEF Threads, ToSet

\* The pool is finite.
LEMMA ThreadsFinite == IsFiniteSet(Threads)
<1> DEFINE S == 1 .. Len(Workers)
<1>1. IsFiniteSet(S)
  BY WorkerFacts, FS_Interval
<1>2. Workers \in Surjection(S, Threads)
  <2>1. Workers \in [S -> Threads]
    BY WorkerFacts, PoolAssumption
  <2> QED
    BY <2>1, WorkerFacts DEF Surjection
<1> QED
  BY <1>1, <1>2, FS_Surjection

\* The sets that the counter covers have natural sizes.
LEMMA CountFacts ==
    /\ IsFiniteSet(Running) /\ Cardinality(Running) \in Nat
    /\ IsFiniteSet(Counting) /\ Cardinality(Counting) \in Nat
    /\ Cardinality(Running) = 0 <=> Running = {}
    /\ Cardinality(Counting) = 0 <=> Counting = {}
<1>1. Running \in SUBSET Threads /\ Counting \in SUBSET Threads
  BY DEF Running, Counting
<1>2. IsFiniteSet(Running) /\ IsFiniteSet(Counting)
  BY <1>1, ThreadsFinite, FS_Subset
<1> QED
  BY <1>2, FS_CardinalityType, FS_EmptySet

\* push puts a task in front of the others.
LEMMA PushFacts ==
    ASSUME NEW s \in Seq(Tasks), NEW t \in Tasks
    PROVE  /\ <<t>> \o s \in Seq(Tasks)
           /\ Len(<<t>> \o s) = Len(s) + 1
           /\ ToSet(<<t>> \o s) = ToSet(s) \cup {t}
<1> DEFINE new == <<t>> \o s
<1>1. new \in Seq(Tasks) /\ Len(new) = Len(s) + 1
  OBVIOUS
<1>2. \A i \in 1 .. Len(new) : new[i] = IF i = 1 THEN t ELSE s[i - 1]
  OBVIOUS
<1>3. ASSUME NEW x \in ToSet(s) PROVE x \in ToSet(new)
  <2>1. PICK i \in DOMAIN s : x = s[i]
    BY DEF ToSet
  <2>2. i + 1 \in 1 .. Len(new) /\ new[i + 1] = x
    BY <1>1, <1>2, <2>1
  <2> QED
    BY <1>1, <2>2 DEF ToSet
<1>4. t \in ToSet(new)
  BY <1>1, <1>2 DEF ToSet
<1>5. ASSUME NEW x \in ToSet(new) PROVE x \in ToSet(s) \cup {t}
  <2>1. PICK i \in 1 .. Len(new) : x = new[i]
    BY <1>1 DEF ToSet
  <2>2. i # 1 => i - 1 \in 1 .. Len(s) /\ x = s[i - 1]
    BY <1>1, <1>2, <2>1
  <2> QED
    BY <1>2, <2>1, <2>2 DEF ToSet
<1> QED
  BY <1>1, <1>3, <1>4, <1>5

\* consume_one takes the task in front.
LEMMA PopFacts ==
    ASSUME NEW s \in Seq(Tasks), s # <<>>
    PROVE  /\ Head(s) \in Tasks /\ Tail(s) \in Seq(Tasks)
           /\ Len(Tail(s)) = Len(s) - 1
           /\ ToSet(s) = ToSet(Tail(s)) \cup {Head(s)}
<1>1. /\ Head(s) \in Tasks /\ Tail(s) \in Seq(Tasks)
      /\ Len(Tail(s)) = Len(s) - 1 /\ Head(s) = s[1]
      /\ 1 \in DOMAIN s
  OBVIOUS
<1>2. \A i \in 1 .. Len(s) - 1 : Tail(s)[i] = s[i + 1]
  OBVIOUS
<1>3. ASSUME NEW x \in ToSet(s) PROVE x \in ToSet(Tail(s)) \cup {Head(s)}
  <2>1. PICK i \in 1 .. Len(s) : x = s[i]
    BY DEF ToSet
  <2>2. CASE i = 1
    BY <1>1, <2>1, <2>2
  <2>3. CASE i # 1
    <3>1. i - 1 \in DOMAIN Tail(s) /\ x = Tail(s)[i - 1]
      BY <1>1, <1>2, <2>1, <2>3
    <3> QED
      BY <3>1 DEF ToSet
  <2> QED
    BY <2>2, <2>3
<1>4. ASSUME NEW x \in ToSet(Tail(s)) PROVE x \in ToSet(s)
  <2>1. PICK i \in 1 .. Len(Tail(s)) : x = Tail(s)[i]
    BY <1>1 DEF ToSet
  <2>2. i + 1 \in 1 .. Len(s) /\ x = s[i + 1]
    BY <1>1, <1>2, <2>1
  <2> QED
    BY <2>2 DEF ToSet
<1>5. Head(s) \in ToSet(s)
  BY <1>1 DEF ToSet
<1> QED
  BY <1>1, <1>3, <1>4, <1>5

-----------------------------------------------------------------------------
(* Consequences of the invariant                                           *)

\* When the counter is zero and the main thread no longer pushes, all is done.
LEMMA NoMoreWork ==
    ASSUME IInv, outstanding = 0, main \notin {"count", "push"}
    PROVE  stack = <<>> /\ Running = {} /\ ebuilds_found = AllEbuilds
<1>1. stack = <<>> /\ Running = {}
  <2>1. Len(stack) \in Nat /\ outstanding = Len(stack) + Cardinality(Running) + Cardinality(Counting)
    BY CountFacts DEF IInv, TypeOK, CounterCovers
  <2>2. Len(stack) = 0 /\ Cardinality(Running) = 0
    BY <2>1, CountFacts
  <2> QED
    BY <2>2, CountFacts DEF IInv, TypeOK
<1>2. \A t \in Tasks : \A i : ~Owed(t, i)
  BY <1>1, ChildFacts DEF Owed, ToSet, Running
<1>3. ASSUME NEW e \in AllEbuilds PROVE e \in ebuilds_found
  <2>1. PICK p \in PackageTasks : e \in ToSet(EbuildsOf[p])
    BY DEF AllEbuilds
  <2>2. PICK j \in DOMAIN EbuildsOf[p] : e = EbuildsOf[p][j]
    BY <2>1 DEF ToSet
  <2>3. PICK c \in CategoryTasks : p \in ToSet(PackagesOf[c])
    BY DEF PackageTasks
  <2>4. PICK i \in DOMAIN PackagesOf[c] : p = PackagesOf[c][i]
    BY <2>3 DEF ToSet
  <2> QED
    BY <1>2, <2>2, <2>4, ChildFacts DEF IInv, Conserved
<1> QED
  BY <1>1, <1>3 DEF IInv, TypeOK

\* Nothing is lost by a step that leaves everything owed that was owed.
LEMMA ConservedFrame ==
    ASSUME IInv, ebuilds_found \subseteq ebuilds_found',
           \A t \in Tasks : \A i \in DOMAIN Children(t) : Owed(t, i) => Owed(t, i)'
    PROVE  Conserved'
<1> SUFFICES ASSUME NEW c \in CategoryTasks, NEW i \in DOMAIN PackagesOf[c],
                    ~Owed(c, i)',
                    NEW j \in DOMAIN EbuildsOf[PackagesOf[c][i]]
             PROVE  \/ Owed(PackagesOf[c][i], j)'
                    \/ EbuildsOf[PackagesOf[c][i]][j] \in ebuilds_found'
  BY DEF Conserved
<1>1. ~Owed(c, i)
  BY ChildFacts
<1>2. \/ Owed(PackagesOf[c][i], j)
      \/ EbuildsOf[PackagesOf[c][i]][j] \in ebuilds_found
  BY <1>1 DEF IInv, Conserved
<1> QED
  BY <1>2, ChildFacts

\* After a worker has left, the stack is empty, nothing runs and nothing is added.
LEMMA DoneStays ==
    ASSUME IInv, stack' = stack, ebuilds_found' = ebuilds_found, Running' = Running,
           \A w \in Threads : pc'[w] = "exited" => pc[w] = "exited"
    PROVE  ExitMeansDone'
BY DEF IInv, ExitMeansDone

-----------------------------------------------------------------------------
(* The initial states                                                      *)

\* The invariant holds at the start.
LEMMA InitIInv == Init => IInv
<1> SUFFICES ASSUME Init PROVE IInv
  OBVIOUS
<1> USE DEF Init
<1>1. TypeOK
  BY WorkerFacts, ChildFacts, PoolAssumption DEF TypeOK
<1>2. Running = {} /\ Counting = {}
  BY DEF Running, Counting
<1>3. CounterCovers
  BY <1>2, FS_EmptySet DEF CounterCovers
<1>4. Born /\ Busy /\ Joined /\ ExitMeansDone
  BY WorkerFacts DEF Born, Busy, Joined, ExitMeansDone
<1>5. Exclusive
  BY PoolAssumption DEF Exclusive
<1>6. \A c \in CategoryTasks : \A i : Owed(c, i)
  <2> SUFFICES ASSUME NEW c \in CategoryTasks, NEW i PROVE Owed(c, i)
    OBVIOUS
  <2>1. PICK k \in DOMAIN Categories : Categories[k] = c
    BY DEF CategoryTasks, ToSet
  <2> QED
    BY <2>1, ChildFacts DEF Owed
<1> QED
  BY <1>1, <1>3, <1>4, <1>5, <1>6 DEF IInv, Conserved

-----------------------------------------------------------------------------
(* The steps of the main thread                                            *)

\* The counter is raised for a category.
LEMMA CountCategoryStep == IInv /\ CountCategory => IInv'
<1> SUFFICES ASSUME IInv, CountCategory PROVE IInv'
  OBVIOUS
<1> USE DEF CountCategory, workerVars
<1>1. TypeOK'
  BY DEF IInv, TypeOK
<1>2. Running' = Running /\ Counting' = Counting
  BY DEF Running, Counting
<1>3. CounterCovers'
  BY <1>2, CountFacts DEF IInv, TypeOK, CounterCovers
<1>4. Born' /\ Busy' /\ Joined' /\ Exclusive'
  BY DEF IInv, Born, Busy, HasChild, Joined, Exclusive
<1>5. ExitMeansDone'
  BY <1>2, DoneStays
<1>6. Conserved'
  BY ConservedFrame DEF Owed
<1> QED
  BY <1>1, <1>3, <1>4, <1>5, <1>6 DEF IInv

\* A category is pushed.
LEMMA PushCategoryStep == IInv /\ PushCategory => IInv'
<1> SUFFICES ASSUME IInv, PushCategory PROVE IInv'
  OBVIOUS
<1> USE DEF PushCategory, workerVars
<1>1. /\ at \in 1 .. Len(Categories)
      /\ Categories[at] \in CategoryTasks
      /\ Categories[at] \in Tasks
      /\ stack \in Seq(Tasks)
  BY ChildFacts DEF IInv, TypeOK
<1>2. /\ stack' \in Seq(Tasks) /\ Len(stack') = Len(stack) + 1
      /\ ToSet(stack') = ToSet(stack) \cup {Categories[at]}
  BY <1>1, PushFacts
<1>3. TypeOK'
  BY <1>1, <1>2, ChildFacts, WorkerFacts, PoolAssumption DEF IInv, TypeOK
<1>4. Running' = Running /\ Counting' = Counting
  BY DEF Running, Counting
<1>5. CounterCovers'
  BY <1>2, <1>4, CountFacts DEF IInv, TypeOK, CounterCovers
<1>6. Born' /\ Busy' /\ Joined' /\ Exclusive'
  BY WorkerFacts DEF IInv, Born, Busy, HasChild, Joined, Exclusive
<1>7. ExitMeansDone'
  BY DEF IInv, Born, ExitMeansDone
<1>8. ASSUME NEW t \in Tasks, NEW i \in DOMAIN Children(t), Owed(t, i)
      PROVE  Owed(t, i)'
  <2>1. CASE t \in ToSet(stack)
    BY <1>2, <2>1 DEF Owed
  <2>2. CASE \E w \in Threads : task[w] = t /\ i > pos[w]
    BY <2>2 DEF Owed
  <2>3. CASE \E k \in at .. Len(Categories) : Categories[k] = t
    <3>1. PICK k \in at .. Len(Categories) : Categories[k] = t
      BY <2>3
    <3>2. CASE k = at
      BY <1>2, <3>1, <3>2 DEF Owed
    <3>3. CASE k # at
      <4>1. k \in at' .. Len(Categories) /\ main' = "count"
        BY <1>1, <3>1, <3>3, ChildFacts
      <4> QED
        BY <3>1, <4>1 DEF Owed
    <3> QED
      BY <3>2, <3>3
  <2> QED
    BY <1>8, <2>1, <2>2, <2>3 DEF Owed
<1>9. Conserved'
  BY <1>8, ConservedFrame
<1> QED
  BY <1>3, <1>5, <1>6, <1>7, <1>9 DEF IInv

\* A worker is started.
LEMMA StartWorkerStep == IInv /\ StartWorker => IInv'
<1> SUFFICES ASSUME IInv, StartWorker PROVE IInv'
  OBVIOUS
<1> USE DEF StartWorker
<1>1. /\ at \in 1 .. Len(Workers) /\ Len(Workers) \in Nat
      /\ Workers[at] \in Threads /\ pc[Workers[at]] = "unborn"
      /\ pc \in [Threads -> {"unborn", "test", "consume", "run", "push", "insert", "exited"}]
  <2>1. at \in 1 .. Len(Workers) /\ Len(Workers) \in Nat
    BY WorkerFacts DEF IInv, TypeOK
  <2>2. at \in at .. Len(Workers)
    BY <2>1
  <2> QED
    BY <2>1, <2>2, WorkerFacts DEF IInv, TypeOK, Born
<1>2. TypeOK'
  BY <1>1, WorkerFacts, PoolAssumption DEF IInv, TypeOK
<1>3. Running' = Running /\ Counting' = Counting
  BY <1>1 DEF Running, Counting
<1>4. CounterCovers'
  BY <1>3, CountFacts DEF IInv, TypeOK, CounterCovers
<1>5. Born'
  BY <1>1, WorkerFacts DEF IInv, Born
<1>6. Busy'
  BY <1>1 DEF IInv, Busy, HasChild
<1>7. Joined' /\ Exclusive'
  BY <1>1 DEF IInv, Joined, Exclusive
<1>8. ExitMeansDone'
  BY <1>1, <1>3, DoneStays
<1>9. Conserved'
  BY ConservedFrame DEF Owed
<1> QED
  BY <1>2, <1>4, <1>5, <1>6, <1>7, <1>8, <1>9 DEF IInv

\* A worker is joined.
LEMMA JoinWorkerStep == IInv /\ JoinWorker => IInv'
<1> SUFFICES ASSUME IInv, JoinWorker PROVE IInv'
  OBVIOUS
<1> USE DEF JoinWorker, workerVars
<1>1. at \in 1 .. Len(Workers) /\ Len(Workers) \in Nat
  BY WorkerFacts DEF IInv, TypeOK
<1>2. TypeOK'
  BY <1>1, WorkerFacts DEF IInv, TypeOK
<1>3. Running' = Running /\ Counting' = Counting
  BY DEF Running, Counting
<1>4. CounterCovers'
  BY <1>3, CountFacts DEF IInv, TypeOK, CounterCovers
<1>5. Born' /\ Busy'
  BY DEF IInv, Born, Busy, HasChild
<1>6. Joined'
  BY <1>1, WorkerFacts DEF IInv, Joined
<1>7. Exclusive'
  BY <1>6 DEF IInv, Joined, Exclusive
<1>8. ExitMeansDone'
  BY <1>3, DoneStays
<1>9. Conserved'
  BY ConservedFrame DEF Owed
<1> QED
  BY <1>2, <1>4, <1>5, <1>6, <1>7, <1>8, <1>9 DEF IInv

-----------------------------------------------------------------------------
(* The steps of a worker                                                   *)

\* The types of what a worker's step reads.
LEMMA WorkerTypes ==
    ASSUME IInv, NEW w \in Threads
    PROVE  /\ pc \in [Threads -> {"unborn", "test", "consume", "run", "push", "insert", "exited"}]
           /\ task \in [Threads -> Tasks \cup {Idle}]
           /\ pos \in [Threads -> Nat]
           /\ stack \in Seq(Tasks) /\ Len(stack) \in Nat
           /\ outstanding \in Nat
           /\ pc[w] = "unborn" \/ main \notin {"count", "push"}
BY DEF IInv, TypeOK, Born

\* A running worker's task, and its next child.
LEMMA RunTypes ==
    ASSUME IInv, NEW w \in Threads, pc[w] \in {"run", "push", "insert"}
    PROVE  /\ task[w] \in Tasks /\ Len(Children(task[w])) \in Nat
           /\ pos[w] \in 0 .. Len(Children(task[w]))
           /\ DOMAIN Children(task[w]) = 1 .. Len(Children(task[w]))
           /\ HasChild(w) => pos[w] + 1 \in DOMAIN Children(task[w])
           /\ HasChild(w) /\ task[w] \in CategoryTasks =>
                /\ Child(w) = PackagesOf[task[w]][pos[w] + 1]
                /\ Child(w) \in PackageTasks /\ Child(w) \in Tasks
           /\ HasChild(w) /\ task[w] \in PackageTasks =>
                /\ Child(w) = EbuildsOf[task[w]][pos[w] + 1]
                /\ Child(w) \in AllEbuilds
<1>1. /\ task[w] \in Tasks
      /\ pos[w] \in 0 .. Len(Children(task[w]))
  BY DEF IInv, TypeOK, Busy
<1>2. /\ Len(Children(task[w])) \in Nat
      /\ DOMAIN Children(task[w]) = 1 .. Len(Children(task[w]))
  BY <1>1, ChildFacts
<1>3. HasChild(w) => pos[w] + 1 \in DOMAIN Children(task[w])
  BY <1>1, <1>2 DEF HasChild
<1> QED
  BY <1>1, <1>2, <1>3, ChildFacts DEF Child

\* A worker's step leaves the main thread's part of the invariant alone, if nobody
\* is born by it and nobody who has left comes back.
LEMMA MainFrame ==
    ASSUME IInv, UNCHANGED mainVars,
           NEW w \in Threads, pc[w] \notin {"unborn", "exited"},
           NEW label, pc' = [pc EXCEPT ![w] = label], label # "unborn"
    PROVE  Born' /\ Joined'
<1>1. main \notin {"count", "push", "compare"}
  BY WorkerTypes DEF IInv, Joined, Born
<1>2. ASSUME main = "start", NEW i \in at .. Len(Workers) PROVE pc'[Workers[i]] = "unborn"
  <2>1. pc[Workers[i]] = "unborn"
    BY <1>2 DEF IInv, Born
  <2> QED
    BY <2>1, WorkerTypes
<1>3. ASSUME main = "join", NEW i \in 1 .. at - 1 PROVE pc'[Workers[i]] = "exited"
  <2>1. pc[Workers[i]] = "exited"
    BY <1>3 DEF IInv, Joined
  <2> QED
    BY <2>1, WorkerTypes
<1> QED
  BY <1>1, <1>2, <1>3 DEF Born, Joined, mainVars

\* The test of the counter, after which a worker may leave.
LEMMA TestStep == ASSUME NEW w \in Threads PROVE IInv /\ Test(w) => IInv'
<1> SUFFICES ASSUME IInv, Test(w) PROVE IInv'
  OBVIOUS
<1> USE DEF Test, mainVars
<1>1. TypeOK'
  BY DEF IInv, TypeOK
<1>2. Running' = Running /\ Counting' = Counting
  BY WorkerTypes DEF Running, Counting
<1>3. CounterCovers'
  BY <1>2 DEF IInv, CounterCovers
<1>4. Born' /\ Joined'
  <2>1. CASE KeepGoing
    BY <2>1, MainFrame
  <2>2. CASE ~KeepGoing
    BY <2>2, MainFrame
  <2> QED
    BY <2>1, <2>2
<1>5. Busy' /\ Exclusive'
  BY WorkerTypes DEF IInv, Busy, HasChild, Exclusive
<1>6. ExitMeansDone'
  <2>1. CASE KeepGoing
    BY <1>2, <2>1, DoneStays, WorkerTypes
  <2>2. CASE ~KeepGoing
    <3>1. outstanding = 0
      BY <2>2, WorkerTypes DEF KeepGoing
    <3>2. stack = <<>> /\ Running = {} /\ ebuilds_found = AllEbuilds
      BY <3>1, NoMoreWork, WorkerTypes
    <3> QED
      BY <1>2, <3>2 DEF ExitMeansDone
  <2> QED
    BY <2>1, <2>2
<1>7. Conserved'
  BY ConservedFrame DEF Owed
<1> QED
  BY <1>1, <1>3, <1>4, <1>5, <1>6, <1>7 DEF IInv

\* A task is taken from the stack, or none is there.
LEMMA ConsumeStep == ASSUME NEW w \in Threads PROVE IInv /\ Consume(w) => IInv'
<1> SUFFICES ASSUME IInv, Consume(w) PROVE IInv'
  OBVIOUS
<1> USE DEF Consume, mainVars
<1>1. CASE stack = <<>>
  <2> USE <1>1
  <2>1. TypeOK'
    BY DEF IInv, TypeOK
  <2>2. Running' = Running /\ Counting' = Counting
    BY WorkerTypes DEF Running, Counting
  <2>3. CounterCovers'
    BY <2>2 DEF IInv, CounterCovers
  <2>4. Born' /\ Joined'
    BY MainFrame
  <2>5. Busy' /\ Exclusive'
    BY WorkerTypes DEF IInv, Busy, HasChild, Exclusive
  <2>6. ExitMeansDone'
    BY <2>2, DoneStays, WorkerTypes
  <2>7. Conserved'
    BY ConservedFrame DEF Owed
  <2> QED
    BY <2>1, <2>3, <2>4, <2>5, <2>6, <2>7 DEF IInv
<1>2. CASE stack # <<>>
  <2>1. /\ Head(stack) \in Tasks /\ stack' = Tail(stack) /\ stack' \in Seq(Tasks)
        /\ Len(stack') = Len(stack) - 1
        /\ ToSet(stack) = ToSet(stack') \cup {Head(stack)}
        /\ task' = [task EXCEPT ![w] = Head(stack)]
        /\ pc' = [pc EXCEPT ![w] = "run"]
    BY <1>2, PopFacts, WorkerTypes
  <2>2. task[w] = Idle /\ pos[w] = 0 /\ Head(stack) # Idle
    BY <2>1, ChildFacts DEF IInv, TypeOK, Busy
  <2>3. TypeOK'
    BY <2>1, <2>2, ChildFacts DEF IInv, TypeOK
  <2>4. Running' = Running \cup {w} /\ w \notin Running /\ Counting' = Counting
    BY <2>1, <2>2, WorkerTypes DEF Running, Counting
  <2>5. Cardinality(Running') = Cardinality(Running) + 1
    BY <2>4, CountFacts, FS_AddElement
  <2>6. CounterCovers'
    BY <2>1, <2>4, <2>5, CountFacts, WorkerTypes DEF IInv, CounterCovers
  <2>7. Born' /\ Joined'
    BY <2>1, MainFrame
  <2>8. Busy' /\ Exclusive'
    BY <2>1, <2>2, WorkerTypes DEF IInv, Busy, HasChild, Exclusive
  <2>9. ExitMeansDone'
    BY <1>2, <2>1, WorkerTypes DEF IInv, ExitMeansDone
  <2>10. ASSUME NEW t \in Tasks, NEW i \in DOMAIN Children(t), Owed(t, i)
         PROVE  Owed(t, i)'
    <3>1. CASE t = Head(stack)
      <4>1. task'[w] = t /\ i > pos'[w]
        BY <2>1, <2>2, <3>1, ChildFacts, WorkerTypes
      <4> QED
        BY <4>1 DEF Owed
    <3>2. CASE t \in ToSet(stack')
      BY <3>2 DEF Owed
    <3>3. CASE \E x \in Threads : task[x] = t /\ i > pos[x]
      <4>1. PICK x \in Threads : task[x] = t /\ i > pos[x]
        BY <3>3
      <4>2. x # w
        BY <2>2, <4>1, ChildFacts
      <4>3. task'[x] = t /\ i > pos'[x]
        BY <2>1, <4>1, <4>2, WorkerTypes
      <4> QED
        BY <4>3 DEF Owed
    <3>4. main \notin {"count", "push"}
      BY WorkerTypes
    <3> QED
      BY <2>1, <2>10, <3>1, <3>2, <3>3, <3>4 DEF Owed
  <2>11. Conserved'
    BY <2>10, ConservedFrame
  <2> QED
    BY <2>3, <2>6, <2>7, <2>8, <2>9, <2>11 DEF IInv
<1> QED
  BY <1>1, <1>2

\* The counter is raised for a package.
LEMMA CountPackageStep == ASSUME NEW w \in Threads PROVE IInv /\ CountPackage(w) => IInv'
<1> SUFFICES ASSUME IInv, CountPackage(w) PROVE IInv'
  OBVIOUS
<1> USE DEF CountPackage, mainVars
<1>1. TypeOK'
  BY DEF IInv, TypeOK
<1>2. Running' = Running /\ Counting' = Counting \cup {w} /\ w \notin Counting
  BY WorkerTypes DEF Running, Counting
<1>3. Cardinality(Counting') = Cardinality(Counting) + 1
  BY <1>2, CountFacts, FS_AddElement
<1>4. CounterCovers'
  BY <1>2, <1>3, CountFacts, WorkerTypes DEF IInv, CounterCovers
<1>5. Born' /\ Joined'
  BY MainFrame
<1>6. Busy' /\ Exclusive'
  BY WorkerTypes DEF IInv, Busy, HasChild, Exclusive
<1>7. ExitMeansDone'
  BY <1>2, DoneStays, WorkerTypes
<1>8. Conserved'
  BY ConservedFrame DEF Owed
<1> QED
  BY <1>1, <1>4, <1>5, <1>6, <1>7, <1>8 DEF IInv

\* A package is pushed: what the category's task owed, the stack owes now.
LEMMA PushPackageStep == ASSUME NEW w \in Threads PROVE IInv /\ PushPackage(w) => IInv'
<1> SUFFICES ASSUME IInv, PushPackage(w) PROVE IInv'
  OBVIOUS
<1> USE DEF PushPackage, mainVars
<1>1. task[w] \in CategoryTasks /\ HasChild(w) /\ task[w] # Idle
  BY DEF IInv, Busy
<1>2. /\ Child(w) = PackagesOf[task[w]][pos[w] + 1] /\ Child(w) \in Tasks
      /\ pos[w] + 1 \in 1 .. Len(Children(task[w]))
  BY <1>1, RunTypes
<1>3. /\ stack' \in Seq(Tasks) /\ Len(stack') = Len(stack) + 1
      /\ ToSet(stack') = ToSet(stack) \cup {Child(w)}
  BY <1>2, PushFacts, WorkerTypes
<1>4. TypeOK'
  BY <1>1, <1>2, <1>3 DEF IInv, TypeOK
<1>5. Running' = Running /\ Counting' = Counting \ {w} /\ w \in Counting
  BY WorkerTypes DEF Running, Counting
<1>6. Cardinality(Counting') = Cardinality(Counting) - 1
  BY <1>5, CountFacts, FS_RemoveElement
<1>7. CounterCovers'
  BY <1>3, <1>5, <1>6, CountFacts, WorkerTypes DEF IInv, CounterCovers
<1>8. Born' /\ Joined'
  BY MainFrame
<1>9. Busy' /\ Exclusive'
  BY WorkerTypes DEF IInv, Busy, HasChild, Exclusive
<1>10. ExitMeansDone'
  <2>1. w \in Running
    BY <1>1 DEF Running
  <2>2. \A x \in Threads : pc[x] # "exited"
    BY <2>1 DEF IInv, ExitMeansDone
  <2> QED
    BY <2>2, WorkerTypes DEF ExitMeansDone
<1>11. ASSUME NEW t \in Tasks, NEW i, Owed(t, i), ~(t = task[w] /\ i = pos[w] + 1),
              i \in Nat
       PROVE  Owed(t, i)'
  <2>1. CASE t \in ToSet(stack)
    BY <1>3, <2>1 DEF Owed
  <2>2. CASE \E x \in Threads : task[x] = t /\ i > pos[x]
    <3>1. PICK x \in Threads : task[x] = t /\ i > pos[x]
      BY <2>2
    <3>2. task'[x] = t /\ i > pos'[x]
      BY <1>11, <3>1, WorkerTypes
    <3> QED
      BY <3>2 DEF Owed
  <2> QED
    BY <1>11, <2>1, <2>2, WorkerTypes DEF Owed
<1>12. ASSUME NEW t, t = Child(w), NEW j PROVE Owed(t, j)'
  BY <1>3, <1>12 DEF Owed
<1>13. Conserved'
  <2> SUFFICES ASSUME NEW c \in CategoryTasks, NEW i \in DOMAIN PackagesOf[c],
                      ~Owed(c, i)',
                      NEW j \in DOMAIN EbuildsOf[PackagesOf[c][i]],
                      ~Owed(PackagesOf[c][i], j)'
               PROVE  EbuildsOf[PackagesOf[c][i]][j] \in ebuilds_found'
    BY DEF Conserved
  <2>1. PackagesOf[c][i] # Child(w)
    BY <1>12
  <2>2. i \in Nat /\ j \in Nat /\ c \in Tasks
        /\ PackagesOf[c][i] \in Tasks /\ PackagesOf[c][i] \in PackageTasks
    BY ChildFacts
  <2>3. ~Owed(c, i)
    BY <1>2, <1>11, <2>1, <2>2
  <2>4. PackagesOf[c][i] # task[w]
    BY <1>1, <2>2, TaskAssumption
  <2>5. ~Owed(PackagesOf[c][i], j)
    BY <1>11, <2>2, <2>4
  <2> QED
    BY <2>3, <2>5 DEF IInv, Conserved
<1> QED
  BY <1>4, <1>7, <1>8, <1>9, <1>10, <1>13 DEF IInv

\* The mutex is taken.
LEMMA LockStep == ASSUME NEW w \in Threads PROVE IInv /\ Lock(w) => IInv'
<1> SUFFICES ASSUME IInv, Lock(w) PROVE IInv'
  OBVIOUS
<1> USE DEF Lock, mainVars
<1>1. TypeOK'
  BY DEF IInv, TypeOK
<1>2. Running' = Running /\ Counting' = Counting
  BY WorkerTypes DEF Running, Counting
<1>3. CounterCovers'
  BY <1>2 DEF IInv, CounterCovers
<1>4. Born' /\ Joined'
  BY MainFrame
<1>5. Busy'
  BY WorkerTypes DEF IInv, Busy, HasChild
<1>6. Exclusive'
  BY WorkerTypes, PoolAssumption DEF IInv, Exclusive
<1>7. ExitMeansDone'
  BY <1>2, DoneStays, WorkerTypes
<1>8. Conserved'
  BY ConservedFrame DEF Owed
<1> QED
  BY <1>1, <1>3, <1>4, <1>5, <1>6, <1>7, <1>8 DEF IInv

\* An ebuild is inserted: what the package's task owed is found.
LEMMA InsertEbuildStep == ASSUME NEW w \in Threads PROVE IInv /\ InsertEbuild(w) => IInv'
<1> SUFFICES ASSUME IInv, InsertEbuild(w) PROVE IInv'
  OBVIOUS
<1> USE DEF InsertEbuild, mainVars
<1>1. task[w] \in PackageTasks /\ HasChild(w) /\ task[w] # Idle
  BY DEF IInv, Busy
<1>2. /\ Child(w) = EbuildsOf[task[w]][pos[w] + 1] /\ Child(w) \in AllEbuilds
      /\ pos[w] + 1 \in 1 .. Len(Children(task[w]))
  BY <1>1, RunTypes
<1>3. TypeOK'
  BY <1>1, <1>2 DEF IInv, TypeOK
<1>4. Running' = Running /\ Counting' = Counting
  BY WorkerTypes DEF Running, Counting
<1>5. CounterCovers'
  BY <1>4 DEF IInv, CounterCovers
<1>6. Born' /\ Joined'
  BY MainFrame
<1>7. Busy'
  BY WorkerTypes DEF IInv, Busy, HasChild
<1>8. Exclusive'
  BY WorkerTypes, PoolAssumption DEF IInv, Exclusive
<1>9. ExitMeansDone'
  <2>1. w \in Running
    BY <1>1 DEF Running
  <2>2. \A x \in Threads : pc[x] # "exited"
    BY <2>1 DEF IInv, ExitMeansDone
  <2> QED
    BY <2>2, WorkerTypes DEF ExitMeansDone
<1>10. ASSUME NEW t \in Tasks, NEW i, Owed(t, i), ~(t = task[w] /\ i = pos[w] + 1),
              i \in Nat
       PROVE  Owed(t, i)'
  <2>1. CASE t \in ToSet(stack)
    BY <2>1 DEF Owed
  <2>2. CASE \E x \in Threads : task[x] = t /\ i > pos[x]
    <3>1. PICK x \in Threads : task[x] = t /\ i > pos[x]
      BY <2>2
    <3>2. task'[x] = t /\ i > pos'[x]
      BY <1>10, <3>1, WorkerTypes
    <3> QED
      BY <3>2 DEF Owed
  <2> QED
    BY <1>10, <2>1, <2>2, WorkerTypes DEF Owed
<1>11. Conserved'
  <2> SUFFICES ASSUME NEW c \in CategoryTasks, NEW i \in DOMAIN PackagesOf[c],
                      ~Owed(c, i)',
                      NEW j \in DOMAIN EbuildsOf[PackagesOf[c][i]],
                      ~Owed(PackagesOf[c][i], j)'
               PROVE  EbuildsOf[PackagesOf[c][i]][j] \in ebuilds_found'
    BY DEF Conserved
  <2>1. i \in Nat /\ j \in Nat /\ c \in Tasks
        /\ PackagesOf[c][i] \in Tasks /\ PackagesOf[c][i] \in PackageTasks
    BY ChildFacts
  <2>2. c # task[w]
    BY <1>1, TaskAssumption
  <2>3. ~Owed(c, i)
    BY <1>10, <2>1, <2>2
  <2>4. CASE PackagesOf[c][i] = task[w] /\ j = pos[w] + 1
    BY <1>2, <2>4
  <2>5. CASE ~(PackagesOf[c][i] = task[w] /\ j = pos[w] + 1)
    <3>1. ~Owed(PackagesOf[c][i], j)
      BY <1>10, <2>1, <2>5
    <3> QED
      BY <2>3, <3>1 DEF IInv, Conserved
  <2> QED
    BY <2>4, <2>5
<1> QED
  BY <1>3, <1>5, <1>6, <1>7, <1>8, <1>9, <1>11 DEF IInv

\* A task ends, with all its children handled.
LEMMA FinishTaskStep == ASSUME NEW w \in Threads PROVE IInv /\ FinishTask(w) => IInv'
<1> SUFFICES ASSUME IInv, FinishTask(w) PROVE IInv'
  OBVIOUS
<1> USE DEF FinishTask, mainVars
<1>1. /\ task[w] \in Tasks /\ Len(Children(task[w])) \in Nat
      /\ pos[w] = Len(Children(task[w]))
  BY RunTypes DEF HasChild
<1>2. /\ Running' = Running \ {w} /\ w \in Running /\ Counting' = Counting
  BY <1>1, ChildFacts, WorkerTypes DEF Running, Counting
<1>3. /\ Cardinality(Running') = Cardinality(Running) - 1
      /\ Cardinality(Running) \in Nat /\ Cardinality(Running) # 0
  BY <1>2, CountFacts, FS_RemoveElement
<1>4. outstanding >= 1
  BY <1>3, CountFacts, WorkerTypes DEF IInv, CounterCovers
<1>5. TypeOK'
  BY <1>4 DEF IInv, TypeOK
<1>6. CounterCovers'
  BY <1>2, <1>3, CountFacts, WorkerTypes DEF IInv, CounterCovers
<1>7. Born' /\ Joined'
  BY MainFrame
<1>8. Busy' /\ Exclusive'
  BY WorkerTypes DEF IInv, Busy, HasChild, Exclusive
<1>9. ExitMeansDone'
  <2>1. \A x \in Threads : pc[x] # "exited"
    BY <1>2 DEF IInv, ExitMeansDone
  <2> QED
    BY <2>1, WorkerTypes DEF ExitMeansDone
<1>10. ASSUME NEW t \in Tasks, NEW i \in DOMAIN Children(t), Owed(t, i)
       PROVE  Owed(t, i)'
  <2>1. CASE t \in ToSet(stack)
    BY <2>1 DEF Owed
  <2>2. CASE \E x \in Threads : task[x] = t /\ i > pos[x]
    <3>1. PICK x \in Threads : task[x] = t /\ i > pos[x]
      BY <2>2
    <3>2. x # w
      BY <1>1, <3>1, ChildFacts
    <3>3. task'[x] = t /\ i > pos'[x]
      BY <3>1, <3>2, WorkerTypes
    <3> QED
      BY <3>3 DEF Owed
  <2> QED
    BY <1>10, <2>1, <2>2, WorkerTypes DEF Owed
<1>11. Conserved'
  BY <1>10, ConservedFrame
<1> QED
  BY <1>5, <1>6, <1>7, <1>8, <1>9, <1>11 DEF IInv

-----------------------------------------------------------------------------
(* The theorems                                                            *)

\* Every step keeps the invariant.
LEMMA NextIInv == IInv /\ [Next]_vars => IInv'
<1> SUFFICES ASSUME IInv, [Next]_vars PROVE IInv'
  OBVIOUS
<1>1. CASE Main
  BY <1>1, CountCategoryStep, PushCategoryStep, StartWorkerStep, JoinWorkerStep DEF Main
<1>2. CASE \E w \in Threads : Work(w)
  BY <1>2, TestStep, ConsumeStep, CountPackageStep, PushPackageStep, LockStep,
     InsertEbuildStep, FinishTaskStep DEF Work
<1>3. CASE UNCHANGED vars
  <2> USE <1>3 DEF vars, mainVars, workerVars
  <2>1. TypeOK' /\ Born' /\ Busy' /\ Joined' /\ Exclusive'
    BY DEF IInv, TypeOK, Born, Busy, HasChild, Joined, Exclusive
  <2>2. Running' = Running /\ Counting' = Counting
    BY DEF Running, Counting
  <2>3. CounterCovers' /\ ExitMeansDone'
    BY <2>2 DEF IInv, CounterCovers, ExitMeansDone
  <2>4. Conserved'
    BY ConservedFrame DEF Owed
  <2> QED
    BY <2>1, <2>3, <2>4 DEF IInv
<1> QED
  BY <1>1, <1>2, <1>3 DEF Next, Over

\* The invariant holds in every reachable state.
THEOREM Invariance == Spec => []IInv
BY InitIInv, NextIInv, PTL DEF Spec

\* The counter covers every task that is not done, for any number of workers and any
\* repository.
THEOREM CounterCoversAlways == Spec => []CounterCovers
<1>1. IInv => CounterCovers
  BY DEF IInv
<1> QED
  BY Invariance, <1>1, PTL

\* A worker that sees the counter at zero may leave: nothing is left to do, now or
\* later, and every ebuild has been found.
THEOREM ExitMeansDoneAlways == Spec => []ExitMeansDone
<1>1. IInv => ExitMeansDone
  BY DEF IInv
<1> QED
  BY Invariance, <1>1, PTL

\* The set of ebuilds is written by one worker at a time, and read only after all of
\* them have left.
THEOREM ExclusiveAlways == Spec => []Exclusive
<1>1. IInv => Exclusive
  BY DEF IInv
<1> QED
  BY Invariance, <1>1, PTL

\* The parallel scan implements the census, for any number of workers and any
\* repository.
THEOREM Refinement == Spec => ImplementsCensus
<1>1. Init => Census!Init
  BY DEF Init, Census!Init
<1>2. IInv /\ [Next]_vars => [Census!Next]_<<ebuilds_found, main = "compare">>
  <2> SUFFICES ASSUME IInv, [Next]_vars
               PROVE  [Census!Next]_<<ebuilds_found, main = "compare">>
    OBVIOUS
  <2> USE DEF Census!Next, Census!Find, Census!Compare
  <2>1. CASE CountCategory \/ PushCategory \/ StartWorker
    BY <2>1 DEF CountCategory, PushCategory, StartWorker
  <2>2. CASE JoinWorker
    <3>1. CASE at < Len(Workers)
      BY <2>2, <3>1 DEF JoinWorker
    <3>2. CASE ~(at < Len(Workers))
      <4>1. Workers[at] \in Threads /\ pc[Workers[at]] = "exited"
        BY <2>2, WorkerFacts DEF JoinWorker, IInv, TypeOK
      <4>2. ebuilds_found = AllEbuilds
        BY <4>1 DEF IInv, ExitMeansDone
      <4> QED
        BY <2>2, <3>2, <4>2 DEF JoinWorker
    <3> QED
      BY <3>1, <3>2
  <2>3. ASSUME NEW w \in Threads, InsertEbuild(w)
        PROVE  Census!Find
    <3>1. pc[w] = "insert" /\ task[w] \in PackageTasks /\ HasChild(w)
      BY <2>3 DEF InsertEbuild, IInv, Busy
    <3>2. Child(w) \in AllEbuilds
      BY <3>1, RunTypes
    <3>3. main # "compare" /\ main' = main
      BY <2>3, <3>1 DEF InsertEbuild, mainVars, IInv, Exclusive
    <3> QED
      BY <2>3, <3>2, <3>3 DEF InsertEbuild
  <2>4. ASSUME NEW w \in Threads, Work(w), ~InsertEbuild(w)
        PROVE  UNCHANGED <<ebuilds_found, main = "compare">>
    BY <2>4 DEF Work, Test, Consume, CountPackage, PushPackage, Lock, FinishTask, mainVars
  <2>5. CASE UNCHANGED vars
    BY <2>5 DEF vars, mainVars
  <2> QED
    BY <2>1, <2>2, <2>3, <2>4, <2>5 DEF Next, Main, Over
<1> QED
  BY Invariance, <1>1, <1>2, PTL DEF Spec, ImplementsCensus, Census!Spec

=============================================================================
