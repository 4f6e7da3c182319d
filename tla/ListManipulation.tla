-------------------------- MODULE ListManipulation --------------------------
(***************************************************************************)
(* The Petri net template workflow/list_manipulation.xpnet.in, from which  *)
(* the four steps of orbit_cones_from_afaces are made: a list is cut into  *)
(* batches, workers process the batches in parallel, and the results are   *)
(* joined in the order in which they arrive.                               *)
(*                                                                         *)
(* What a step does with an element may depend on the whole list and the   *)
(* position of the element; it is the parameter Process.  The module       *)
(* functions run on workers: process takes its token and reads the list    *)
(* when it begins and puts out its result when it ends.                    *)
(***************************************************************************)
EXTENDS Integers, FiniteSets, Sequences

CONSTANTS
  Value,         \* what lists are made of
  List,          \* the lists a step may be given
  Args,          \* the arguments a step may be given
  JobSize,       \* config.job_size
  Process(_, _)  \* Process(list, i): the results for the element i of the list

ASSUME ListAssumption ==
  /\ List \in SUBSET Seq(Value)
  /\ \A list \in List : \A i \in 1..Len(list) : Process(list, i) \in Seq(Value)

\* skip: does <prefix>_init() skip the step?  symmetry_group_size: the divisor
\* of job_size, 1 in the steps that do not divide it.
ASSUME ConfigAssumption ==
  /\ Args \in SUBSET [skip : BOOLEAN, symmetry_group_size : Nat \ {0}]
  /\ JobSize \in Nat \ {0}

VARIABLES
  original,            \* history: the list the step was given
  in_args,
  control,             \* "enabled", "initialised", "running" or "finished"
  inout_list,
  skip,
  batch_size,
  list_size,
  last_task,
  open_tasks,          \* the ranges on the place open_tasks
  processing,          \* those a worker is busy with, and their results
  processed_elements,  \* those that are done, and their results
  processed_list,
  number_of_open_tasks,
  all_tasks_generated,
  joined               \* history: the positions whose results are joined

tasks == <<last_task, open_tasks, processing, processed_elements>>
input == <<original, in_args>>
vars == <<input, control, inout_list, skip, batch_size, list_size, tasks,
          processed_list, number_of_open_tasks, all_tasks_generated, joined>>

TaskRange == [start : Nat, length : Nat]
Position(t) == t.start + 1 .. t.start + t.length

TypeOK ==
  /\ original \in List
  /\ in_args \in Args
  /\ control \in {"enabled", "initialised", "running", "finished"}
  /\ inout_list \in Seq(Value)
  /\ skip \in BOOLEAN
  /\ batch_size \in Nat
  /\ list_size \in Nat
  /\ last_task \in TaskRange
  /\ open_tasks \in SUBSET TaskRange
  /\ processing \in SUBSET [task : TaskRange, elements : Seq(Value)]
  /\ processed_elements \in SUBSET [task : TaskRange, elements : Seq(Value)]
  /\ processed_list \in Seq(Value)
  /\ number_of_open_tasks \in Nat
  /\ all_tasks_generated \in BOOLEAN
  /\ joined \in SUBSET (1..Len(original))

-----------------------------------------------------------------------------
Smaller(a, b) == IF a <= b THEN a ELSE b
Larger(a, b) == IF a >= b THEN a ELSE b

\* Fault: the batch size is not kept from becoming zero.
BatchSizeZero == JobSize \div in_args.symmetry_group_size

\* The batch size <prefix>_init() chooses.
BatchSize == Larger(1, JobSize \div in_args.symmetry_group_size)

\* list_manipulation_example_process(): negative elements are dropped, the
\* others doubled.
list_manipulation_example_process(list, i) ==
  IF list[i] >= 0 THEN <<2 * list[i]>> ELSE <<>>

\* Fault: the element after the range is processed as well.
ResultsBeyond(list, t) ==
  LET results[i \in Nat] ==
        IF i = 0 THEN <<>> ELSE results[i - 1] \o Process(list, t.start + i)
  IN  results[Smaller(t.length + 1, Len(list) - t.start)]

\* <prefix>_process(): the results for the elements of a range, in order.
Results(list, t) ==
  LET results[i \in 0..t.length] ==
        IF i = 0 THEN <<>> ELSE results[i - 1] \o Process(list, t.start + i)
  IN  results[t.length]

Init ==
  /\ original \in List
  /\ in_args \in Args
  /\ control = "enabled"
  /\ inout_list = original
  /\ skip = FALSE
  /\ batch_size = 0
  /\ list_size = 0
  /\ last_task = [start |-> 0, length |-> 0]
  /\ open_tasks = {}
  /\ processing = {}
  /\ processed_elements = {}
  /\ processed_list = <<>>
  /\ number_of_open_tasks = 0
  /\ all_tasks_generated = FALSE
  /\ joined = {}

\* Transition init.
init ==
  /\ control = "enabled"
  /\ control' = "initialised"
  /\ skip' = in_args.skip
  /\ batch_size' = BatchSize
  /\ UNCHANGED <<input, inout_list, list_size, tasks, processed_list,
                 number_of_open_tasks, all_tasks_generated, joined>>

\* Transition skip: the list stays what it is.
SkipList ==
  /\ control = "initialised"
  /\ skip
  /\ control' = "finished"
  /\ UNCHANGED <<input, inout_list, skip, batch_size, list_size, tasks,
                 processed_list, number_of_open_tasks, all_tasks_generated,
                 joined>>

\* Transition no_skip: the first task, which is empty for an empty list.
no_skip ==
  /\ control = "initialised"
  /\ ~ skip
  /\ control' = "running"
  /\ list_size' = Len(inout_list)
  /\ last_task' = [start |-> 0, length |-> Smaller(list_size', batch_size)]
  /\ open_tasks' = {last_task'}
  /\ number_of_open_tasks' = 1
  /\ all_tasks_generated' = (last_task'.length >= list_size')
  /\ processed_list' = <<>>
  /\ UNCHANGED <<input, inout_list, skip, batch_size, processing,
                 processed_elements, joined>>

\* Fault: a task begins with the last element of the one before.
NextTaskOverlaps ==
  LET start == last_task.start + last_task.length - 1
  IN  [start |-> start, length |-> Smaller(list_size - start, batch_size)]

\* The task that follows the last one.
NextTask ==
  LET start == last_task.start + last_task.length
  IN  [start |-> start, length |-> Smaller(list_size - start, batch_size)]

generate_tasks ==
  /\ control = "running"
  /\ ~ all_tasks_generated
  /\ last_task' = NextTask
  /\ open_tasks' = open_tasks \cup {NextTask}
  /\ number_of_open_tasks' = number_of_open_tasks + 1
  /\ all_tasks_generated' = (NextTask.start + NextTask.length >= list_size)
  /\ UNCHANGED <<input, control, inout_list, skip, batch_size, list_size,
                 processing, processed_elements, processed_list, joined>>

\* Transition process, from its begin on a worker ...
BeginProcess(t) ==
  /\ t \in open_tasks
  /\ open_tasks' = open_tasks \ {t}
  /\ processing' =
       processing \cup {[task |-> t, elements |-> Results(inout_list, t)]}
  /\ UNCHANGED <<input, control, inout_list, skip, batch_size, list_size,
                 last_task, processed_elements, processed_list,
                 number_of_open_tasks, all_tasks_generated, joined>>

\* ... to its end.
EndProcess(r) ==
  /\ r \in processing
  /\ processing' = processing \ {r}
  /\ processed_elements' = processed_elements \cup {r}
  /\ UNCHANGED <<input, control, inout_list, skip, batch_size, list_size,
                 last_task, open_tasks, processed_list, number_of_open_tasks,
                 all_tasks_generated, joined>>

\* Fault: the counter is not decremented.
aggregateUncounted(r) ==
  /\ r \in processed_elements
  /\ processed_elements' = processed_elements \ {r}
  /\ processed_list' = processed_list \o r.elements
  /\ joined' = joined \cup Position(r.task)
  /\ UNCHANGED <<input, control, inout_list, skip, batch_size, list_size,
                 last_task, open_tasks, processing, number_of_open_tasks,
                 all_tasks_generated>>

aggregate(r) ==
  /\ r \in processed_elements
  /\ processed_elements' = processed_elements \ {r}
  /\ processed_list' = processed_list \o r.elements
  /\ number_of_open_tasks' = number_of_open_tasks - 1
  /\ joined' = joined \cup Position(r.task)
  /\ UNCHANGED <<input, control, inout_list, skip, batch_size, list_size,
                 last_task, open_tasks, processing, all_tasks_generated>>

\* Fault: the net ends as soon as no task is open.
cleanEarly ==
  /\ control = "running"
  /\ number_of_open_tasks = 0
  /\ control' = "finished"
  /\ inout_list' = processed_list
  /\ UNCHANGED <<input, skip, batch_size, list_size, tasks, processed_list,
                 number_of_open_tasks, all_tasks_generated, joined>>

clean ==
  /\ control = "running"
  /\ all_tasks_generated
  /\ number_of_open_tasks = 0
  /\ control' = "finished"
  /\ inout_list' = processed_list
  /\ UNCHANGED <<input, skip, batch_size, list_size, tasks, processed_list,
                 number_of_open_tasks, all_tasks_generated, joined>>

\* The net has finished; nothing is left to fire.
Finished == control = "finished" /\ UNCHANGED vars

Next ==
  \/ init
  \/ SkipList
  \/ no_skip
  \/ generate_tasks
  \/ \E t \in open_tasks : BeginProcess(t)
  \/ \E r \in processing : EndProcess(r)
  \/ \E r \in processed_elements : aggregate(r)
  \/ clean
  \/ Finished

Spec == Init /\ [][Next]_vars

\* The engine fires a transition that stays enabled, a job that was started
\* ends.
FairSpec == Spec /\ WF_vars(Next)

-----------------------------------------------------------------------------
(* Properties *)

\* The tasks whose results are not joined yet.
TasksOf(S) == {r.task : r \in S}
Unjoined ==
  open_tasks \cup TasksOf(processing) \cup TasksOf(processed_elements)

\* The batches cut so far and not joined yet, and the positions joined, are
\* disjoint and make up a prefix of the list, the whole list when all tasks
\* are generated: no element is left out, none is processed twice.
TasksPartition ==
  control = "running" =>
    LET generated == last_task.start + last_task.length
    IN  /\ generated <= list_size
        /\ all_tasks_generated <=> generated = list_size
        /\ 1..generated = joined \cup UNION {Position(t) : t \in Unjoined}
        /\ \A t \in Unjoined : Position(t) \cap joined = {}
        /\ \A t, u \in Unjoined : t # u => Position(t) \cap Position(u) = {}

\* number_of_open_tasks counts the tasks that are not joined yet, wherever
\* they are, so that clean cannot overtake a worker that reads the list.
TasksCounted ==
  control = "running" =>
    /\ number_of_open_tasks = Cardinality(Unjoined)
    /\ Cardinality(Unjoined) =
         Cardinality(open_tasks) + Cardinality(processing)
         + Cardinality(processed_elements)

\* How often v occurs in s.
Count(s, v) == Cardinality({i \in DOMAIN s : s[i] = v})

\* The list of the results for all elements, processed one after the other.
Reference == Results(original, [start |-> 0, length |-> Len(original)])

\* Up to its order, the list in the end is the one that a single worker would
\* have computed; if the step is skipped the list has not changed at all.
Complete ==
  control = "finished" =>
    IF in_args.skip THEN inout_list = original
    ELSE /\ Len(inout_list) = Len(Reference)
         /\ \A i \in DOMAIN Reference :
              Count(inout_list, Reference[i]) = Count(Reference, Reference[i])

\* The step ends.
Termination == <>(control = "finished")

-----------------------------------------------------------------------------
(* The inductive invariant *)

Generated == last_task.start + last_task.length

\* Tasks exist only while the net runs, each in one place; they lie in the
\* part of the list that is cut already, are empty only if the list is, and
\* carry the results for the list the step was given.
TaskShape ==
  /\ IsFiniteSet(open_tasks)
  /\ IsFiniteSet(processing)
  /\ IsFiniteSet(processed_elements)
  /\ control # "running" => Unjoined = {}
  /\ \A t \in Unjoined :
       /\ t.start + t.length <= Generated
       /\ t.length = 0 => list_size = 0
  /\ open_tasks \cap TasksOf(processing) = {}
  /\ open_tasks \cap TasksOf(processed_elements) = {}
  /\ TasksOf(processing) \cap TasksOf(processed_elements) = {}
  /\ \A r \in processing \cup processed_elements :
       r.elements = Results(original, r.task)

\* The list is read, but not written, until the net ends.
ListShape ==
  /\ control # "finished" => inout_list = original
  /\ control \in {"enabled", "initialised"} =>
       joined = {} /\ processed_list = <<>>
  /\ control = "initialised" => skip = in_args.skip /\ batch_size > 0
  /\ control = "running" =>
       /\ ~ in_args.skip
       /\ list_size = Len(original)
       /\ batch_size > 0
  /\ control = "finished" =>
       IF in_args.skip THEN inout_list = original
       ELSE inout_list = processed_list /\ joined = 1..Len(original)

\* Where the elements of W are in a sequence, and in the results for some
\* positions of a list.
Hits(s, W) == {j \in DOMAIN s : s[j] \in W}
Occurrences(list, I, W) ==
  UNION {{<<i, j>> : j \in Hits(Process(list, i), W)} : i \in I}

\* The sets of values that are counted: each value, and all of them.
Kinds == {Value} \cup {{v} : v \in Value}

\* What is joined is what the positions in joined yield, up to its order.
ResultsJoined ==
  \A W \in Kinds :
    Cardinality(Hits(processed_list, W)) =
      Cardinality(Occurrences(original, joined, W))

OpenTasksCounted ==
  control = "running" =>
    number_of_open_tasks =
      Cardinality(open_tasks) + Cardinality(processing)
      + Cardinality(processed_elements)

IInv ==
  /\ TypeOK
  /\ TaskShape
  /\ TasksPartition
  /\ OpenTasksCounted
  /\ ListShape
  /\ ResultsJoined
=============================================================================
