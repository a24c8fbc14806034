----------------------------- MODULE TaskStack -----------------------------
(***************************************************************************)
(* The parallel scan of an ebuild repository: test/repo/iter.cpp on top of *)
(* Threadpool.  The main thread pushes a task for each category on a       *)
(* lock-free stack and starts the workers one by one; a category task      *)
(* pushes a task for each of its packages, a package task inserts its      *)
(* ebuilds into a set under a mutex.  A worker stops when the counter of   *)
(* outstanding tasks is zero, and the main thread joins all of them before *)
(* it reads the set.                                                       *)
(***************************************************************************)
EXTENDS Naturals, Sequences, FiniteSets, SequencesExt

CONSTANTS
    Workers,        \* the threads of the pool, in the order they are started
    Categories,     \* the categories, in the order the repository yields them
    PackagesOf,     \* for each category, its packages in order
    EbuildsOf       \* for each package, its ebuilds in order

Idle == "idle"      \* no task at hand
Free == "free"      \* the mutex is not held

CategoryTasks == ToSet(Categories)
PackageTasks  == UNION {ToSet(PackagesOf[c]) : c \in CategoryTasks}
Tasks         == CategoryTasks \cup PackageTasks
AllEbuilds    == UNION {ToSet(EbuildsOf[p]) : p \in PackageTasks}
Threads       == ToSet(Workers)

\* Threadpool's constructor refuses a pool without threads.
ASSUME PoolAssumption ==
    /\ Workers \in Seq(Threads) /\ Len(Workers) > 0 /\ IsInjective(Workers)
    /\ Free \notin Threads

ASSUME TaskAssumption ==
    /\ Categories \in Seq(CategoryTasks)
    /\ \A c \in CategoryTasks : PackagesOf[c] \in Seq(PackageTasks)
    /\ \A p \in PackageTasks : EbuildsOf[p] \in Seq(AllEbuilds)
    /\ CategoryTasks \cap PackageTasks = {} /\ Idle \notin Tasks

VARIABLES
    stack,          \* the tasks on the stack, the next one to pop in front
    outstanding,    \* the counter
    ebuilds_found,
    set_mutex,      \* the worker that holds it, or Free
    main,           \* what the main thread is about to do
    at,             \* at which category or worker it is
    pc,             \* what each worker is about to do
    task,           \* the task each worker runs, or Idle
    pos             \* how many children of its task each worker is through with

mainVars   == <<main, at>>
workerVars == <<pc, task, pos>>
vars == <<stack, outstanding, ebuilds_found, set_mutex, mainVars, workerVars>>

Children(t) == IF t \in CategoryTasks THEN PackagesOf[t] ELSE EbuildsOf[t]

TypeOK ==
    /\ stack \in Seq(Tasks)
    /\ outstanding \in Nat
    /\ ebuilds_found \subseteq AllEbuilds
    /\ set_mutex \in Threads \cup {Free}
    /\ main \in {"count", "push", "start", "join", "compare"}
    /\ main \in {"count", "push"} => at \in DOMAIN Categories
    /\ main \in {"start", "join"} => at \in DOMAIN Workers
    /\ pc \in [Threads -> {"unborn", "test", "consume", "run", "push", "insert", "exited"}]
    /\ task \in [Threads -> Tasks \cup {Idle}]
    /\ pos \in [Threads -> Nat]
    /\ \A w \in Threads :
        IF task[w] = Idle THEN pos[w] = 0 ELSE pos[w] \in 0 .. Len(Children(task[w]))

Init ==
    /\ stack = <<>> /\ outstanding = 0
    /\ ebuilds_found = {} /\ set_mutex = Free
    /\ main = (IF Categories = <<>> THEN "start" ELSE "count") /\ at = 1
    /\ pc = [w \in Threads |-> "unborn"]
    /\ task = [w \in Threads |-> Idle]
    /\ pos = [w \in Threads |-> 0]

-----------------------------------------------------------------------------
(* The main thread.                                                        *)

CountCategory ==
    /\ main = "count"
    /\ outstanding' = outstanding + 1
    /\ main' = "push"
    /\ UNCHANGED <<stack, ebuilds_found, set_mutex, at, workerVars>>

PushCategory ==
    /\ main = "push"
    /\ stack' = <<Categories[at]>> \o stack
    /\ IF at < Len(Categories)
       THEN main' = "count" /\ at' = at + 1
       ELSE main' = "start" /\ at' = 1
    /\ UNCHANGED <<outstanding, ebuilds_found, set_mutex, workerVars>>

\* threads.emplace_back(func_): the worker runs while the next ones are started.
StartWorker ==
    /\ main = "start"
    /\ pc' = [pc EXCEPT ![Workers[at]] = "test"]
    /\ IF at < Len(Workers)
       THEN at' = at + 1 /\ UNCHANGED main
       ELSE main' = "join" /\ at' = 1
    /\ UNCHANGED <<stack, outstanding, ebuilds_found, set_mutex, task, pos>>

\* A mutant: the workers are not waited for.
JoinWithoutWaiting ==
    /\ main = "join"
    /\ main' = "compare" /\ at' = 1
    /\ UNCHANGED <<stack, outstanding, ebuilds_found, set_mutex, workerVars>>

JoinWorker ==
    /\ main = "join"
    /\ pc[Workers[at]] = "exited"
    /\ IF at < Len(Workers)
       THEN at' = at + 1 /\ UNCHANGED main
       ELSE main' = "compare" /\ at' = 1
    /\ UNCHANGED <<stack, outstanding, ebuilds_found, set_mutex, workerVars>>

Main == CountCategory \/ PushCategory \/ StartWorker \/ JoinWorker

-----------------------------------------------------------------------------
(* A worker w.                                                             *)

\* Mutants: the stack decides when to stop; the bound is off by one.
StackNotEmpty == stack # <<>>
AtLeastZero   == outstanding >= 0

KeepGoing == outstanding > 0

\* while (outstanding > 0)
Test(w) ==
    /\ pc[w] = "test"
    /\ pc' = [pc EXCEPT ![w] = IF KeepGoing THEN "consume" ELSE "exited"]
    /\ UNCHANGED <<stack, outstanding, ebuilds_found, set_mutex, mainVars, task, pos>>

\* consume_one: pops a task and calls it, or finds the stack empty.
Consume(w) ==
    /\ pc[w] = "consume"
    /\ IF stack = <<>>
       THEN pc' = [pc EXCEPT ![w] = "test"] /\ UNCHANGED <<stack, task>>
       ELSE /\ stack' = Tail(stack)
            /\ task' = [task EXCEPT ![w] = Head(stack)]
            /\ pc' = [pc EXCEPT ![w] = "run"]
    /\ UNCHANGED <<outstanding, ebuilds_found, set_mutex, mainVars, pos>>

HasChild(w) == pos[w] < Len(Children(task[w]))
Child(w)    == Children(task[w])[pos[w] + 1]

\* Mutants of the worker's operations: a task that has nothing to do returns before the
\* decrement; the mutex is not waited for.
LockWithoutWaiting(w) ==
    /\ pc[w] = "run" /\ task[w] \in PackageTasks /\ HasChild(w)
    /\ set_mutex' = w
    /\ pc' = [pc EXCEPT ![w] = "insert"]
    /\ UNCHANGED <<stack, outstanding, ebuilds_found, mainVars, task, pos>>
FinishTaskSilent(w) ==
    /\ pc[w] = "run" /\ ~HasChild(w)
    /\ outstanding' = IF pos[w] = 0 THEN outstanding ELSE outstanding - 1
    /\ task' = [task EXCEPT ![w] = Idle]
    /\ pos' = [pos EXCEPT ![w] = 0]
    /\ pc' = [pc EXCEPT ![w] = "test"]
    /\ UNCHANGED <<stack, ebuilds_found, set_mutex, mainVars>>

CountPackage(w) ==
    /\ pc[w] = "run" /\ task[w] \in CategoryTasks /\ HasChild(w)
    /\ outstanding' = outstanding + 1
    /\ pc' = [pc EXCEPT ![w] = "push"]
    /\ UNCHANGED <<stack, ebuilds_found, set_mutex, mainVars, task, pos>>

PushPackage(w) ==
    /\ pc[w] = "push"
    /\ stack' = <<Child(w)>> \o stack
    /\ pos' = [pos EXCEPT ![w] = @ + 1]
    /\ pc' = [pc EXCEPT ![w] = "run"]
    /\ UNCHANGED <<outstanding, ebuilds_found, set_mutex, mainVars, task>>

\* const std::scoped_lock lock{set_mutex}
Lock(w) ==
    /\ pc[w] = "run" /\ task[w] \in PackageTasks /\ HasChild(w)
    /\ set_mutex = Free
    /\ set_mutex' = w
    /\ pc' = [pc EXCEPT ![w] = "insert"]
    /\ UNCHANGED <<stack, outstanding, ebuilds_found, mainVars, task, pos>>

\* The insertion, and the end of the scope of the lock.
InsertEbuild(w) ==
    /\ pc[w] = "insert"
    /\ ebuilds_found' = ebuilds_found \cup {Child(w)}
    /\ set_mutex' = Free
    /\ pos' = [pos EXCEPT ![w] = @ + 1]
    /\ pc' = [pc EXCEPT ![w] = "run"]
    /\ UNCHANGED <<stack, outstanding, mainVars, task>>

\* outstanding--, the last thing a task of either kind does.
FinishTask(w) ==
    /\ pc[w] = "run" /\ ~HasChild(w)
    /\ outstanding' = outstanding - 1
    /\ task' = [task EXCEPT ![w] = Idle]
    /\ pos' = [pos EXCEPT ![w] = 0]
    /\ pc' = [pc EXCEPT ![w] = "test"]
    /\ UNCHANGED <<stack, ebuilds_found, set_mutex, mainVars>>

Work(w) ==
    \/ Test(w) \/ Consume(w)
    \/ CountPackage(w) \/ PushPackage(w)
    \/ Lock(w) \/ InsertEbuild(w)
    \/ FinishTask(w)

\* The scan is over.
Over == main = "compare" /\ UNCHANGED vars

Next == Main \/ (\E w \in Threads : Work(w)) \/ Over

Spec ==
    /\ Init /\ [][Next]_vars
    /\ WF_vars(Main) /\ \A w \in Threads : WF_vars(Work(w))

-----------------------------------------------------------------------------
Running  == {w \in Threads : task[w] # Idle}
Counting == {w \in Threads : pc[w] = "push"}

\* The counter covers every task that is not done: those on the stack, those
\* running and those counted but not on the stack yet.
CounterCovers ==
    outstanding = Len(stack) + Cardinality(Running) + Cardinality(Counting)
                  + (IF main = "push" THEN 1 ELSE 0)

\* No worker leaves while there is work, or may be: one that has left leaves an
\* empty stack, no running task and all the ebuilds found.
ExitMeansDone ==
    (\E w \in Threads : pc[w] = "exited") =>
        stack = <<>> /\ Running = {} /\ ebuilds_found = AllEbuilds

\* The insertions are mutually exclusive, and none happens while the main thread
\* reads the set.
Exclusive ==
    /\ \A w \in Threads : pc[w] = "insert" <=> set_mutex = w
    /\ main = "compare" => \A w \in Threads : pc[w] = "exited"

\* The parallel scan implements the census: the main thread compares the complete
\* set, and nothing is inserted afterwards.
Census == INSTANCE RepoCensus WITH compared <- (main = "compare")
ImplementsCensus == Census!Spec

\* The scan ends: the workers do not wait for each other, nor for a task that is
\* never pushed.
ScanEnds == <>(main = "compare")
=============================================================================
