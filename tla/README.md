# Verification of git-fans

TLA+ specifications of git-fans, a program that computes GIT fans with a
parallel search on top of GPI-Space and Singular, with the TLC runs that check
them on small instances and TLAPS proofs for every instance. All paths below
are relative to the root of the repository; line numbers are in `PROJECT.json`.

## 1. The system

git-fans is a set of Petri nets (`workflow/*.xpnet`) that a workflow engine
executes: a transition fires when its input places hold tokens and its
condition holds; a transition with a module function runs that function on a
worker, takes its tokens when it begins and puts out its results when it ends,
so that many functions run at once on many machines. The functions are in
`src/util-gitfan/gitfanImpl.cpp`; they call Singular for the mathematics and
share state only through tokens, the working directory, and the cone storage
(`src/storage`).

| component | state | operations | hard about it |
|---|---|---|---|
| traversal `traverse_gitfan.xpnet` | a flag, three counters, job tokens | fetch cones, expand them, add up insertions, end | ends by a flag and a counter while jobs run; a fetch races with insertions; two limits |
| contract `conestorage.hpp` | cones, marked or not | `addMarkedCone`, `unmarkCones`, `endOfTransaction`, `saveConesPersistently` | many adders, one unmarker, no lock |
| remote storage `storage/rpc` | two sets in memory, three buffers, four files | `put`, `get`, `finish`, `save`, `flushPending`, destructor | killed between the writes of a flush; the destructor flushes on another thread than the handlers |
| linear file system storage | directories and mark files | the contract | mkdir, touch and scan interleave |
| constant file system storage, `StringContainer` | two directory trees | the contract, retries | directories are removed while others create what is below |
| list template `list_manipulation.xpnet.in` | list, batches, counter | cut, process, join, replace | results in any order; the list is replaced in place |
| a-faces `full_dim_afaces.xpnet` | iterator position, counter, list | create batches, filter, join | end of file and end of iteration |
| `SimplexFaceIterator` | a subset, its size | `increment` | jumps by binomial coefficients |
| orbit cones `orbit_cones_from_afaces.xpnet` | list, files | compute, cut, expand, make unique, number | orbits found twice, composed permutations, files removed behind the next net |
| top-level net `gitfan.xpnet` | control tokens, files | preprocess, chain the nets, write the results | two control paths; any task may throw while the other path goes on, and leaves what it was writing; no output stream is checked |
| Singular wrapper `singular_library_wrapper.cpp` | the symbols of an interpreter that lives as long as its worker | load a symbol unless it is there, compute, kill scratch symbols | a symbol is loaded once, so that no file may change after any worker has read it |
| conversion `conversion.hxx` | none | list to hexadecimal name and back, to Singular and back | a last block that is not full; names of equal length |
| `LRUCache` | keys in order of use, values | `get` | what is evicted |
| Singular libraries | interpreter | polyhedral geometry | mathematics, not control |
| programs `gitfan`, `expand_orbits` | none | start the workflow, return its outcome; print orbits | an exception of a task |
| options, service provider, logging | none | parse, choose, print | none |

How they interact: `gitfan.xpnet` runs a-faces, then orbit cones, then the
traversal (or starts from precomputed orbit cones). Each of them hands the next
one a list of files. The traversal's jobs call the storage: expansion jobs call
`addMarkedCone` for every neighbour and `endOfTransaction` after every cone,
one fetching job at a time calls `unmarkCones`, the last job of the workflow
saves.

What makes each part correct: the traversal visits every reachable cone once
and counts right, whatever the interleaving; a storage says "new" once for each
cone, keeps it retrievable, hands it out once; the logs of the server are never
ahead of each other in the wrong direction; batches partition their input and
are all joined before a net ends; the numbers of orbit cones are permuted as
the symmetries permute the cones; every worker, and every file of the result,
has the orbit cones in one and the same order, because a number in a hash means
a position in it; names and paths lead back to what they name.

## 2. Modules

| module | models | composed with |
|---|---|---|
| `GitFan` | the promise: cones are found one from the other, their number is reported once at the end | implemented by `TraverseGitfan` |
| `TraverseGitfan` | every transition of the traversal, jobs split at every storage call | uses the contract of `ConeStorage` in its storage steps |
| `ConeStorage` | the contract of `IConeStorage` | implemented by the three storages |
| `RpcServer` | server handlers, flush, the destructor on its own thread, kill; clients as in the traversal | `Contract == INSTANCE ConeStorage` |
| `LinearConeStorage` | one step for each system call | `Contract` |
| `ConstantConeStorage` | one step for each system call on `_marked`, retries, file system errors | `Contract` |
| `ListManipulation` | the template, what is done with an element is a parameter | its instances are the steps of `OrbitCones` |
| `SimplexFaceIterator` | `increment()` as a function | extended by `FullDimAfaces` |
| `FullDimAfaces` | every transition, both sources of faces | |
| `Conversion` | names of lists, objects of Singular, `expand_orbits` | extended by `OrbitCones` and `MCSimplexFaceIterator` |
| `StoragePaths` | names as directories, in both file system storages | extended by `ConstantConeStorage` and `MCSimplexFaceIterator` |
| `LRUCache` | `get` as an operator on caches | extended by `OrbitCones` |
| `OrbitCones` | every transition; each list manipulation is one step | extended by `GitFanWorkflow` |
| `SingularSession` | what each task leaves of the symbols of its worker | extended by `GitFanWorkflow` |
| `GitFanWorkflow` | the top-level net, the workers' sessions, the results, the outcome of `main` | the actions of `OrbitCones`, `Fan == INSTANCE GitFan` for the traversal |
| `TraverseGitfanProofs`, `RpcServerProofs`, `LinearConeStorageProofs`, `ConstantConeStorageProofs`, `ListManipulationProofs`, `FullDimAfacesProofs` | theorems about the module of that name | each extends it |
| `GitFanWorkflowProofs` | theorems about `OrbitCones` and `GitFanWorkflow` | extends `GitFanWorkflow` |
| `DataLemmas` | induction, recursion and counting, for the proofs | extended by the proofs about lists, a-faces and the workflow |
| `MC*` | instances for TLC | |

Definitions keep the names of the code. Those whose comment starts with "Fault"
are mistaken variants of the definition below them. No specification uses
them; each shows that a property fails when the code has that mistake
("mutants" in `PROJECT.json`).

### Correspondence

*TraverseGitfan.* Places with one token (`number_of_cones` ...) are variables;
job tokens have identities, and `place` says where each one is. The transition
`get_expandable_cones` holds the counters' tokens from `GetBegins` to `GetEnds`,
which is why `sum_up_number_of_cones`, `consume_zero` and `clean` ask for
`~ getting`. A job is `compute_initial_cone` or `expand_cones`, then `AddKnown`,
`AddNew` and perhaps `MarkNew` for each neighbour, `endOfTransaction` after each
cone. The neighbours of a cone are a constant function: they are computed by a
pure function from data nobody changes. `Minus` is the subtraction of unsigned
numbers modulo `UlongRange`; it is 64 in the runs, far above what the counters
reach, and any positive number in the proofs.

*ConeStorage.* A new cone is stored before it is marked, a fetch has to return
the cones marked when it began unless it has returned enough. This is the
weakest contract the implementations keep, and the traversal is proved correct
with it, not with an atomic one.

*RpcServer.* Handlers run one at a time, because the server has one io thread
(`Ready`). `flushPending` is three steps, and `Kill` may come between any two.
Duplicate lines in the text logs are abstracted to sets. The RPC library, its
sockets and the lock file are external.

The destructor is `Stop`, the flush of the thread `main`, and `Join`. `main()`
creates the server after the runtime system and destroys it before, at its end
and also when the workflow has thrown, so that `Stop` is possible at any time:
handlers run on while the destructor flushes, and workers go on calling. Only
when the members are destroyed after the body (`Join`) is the io thread joined.
`raced` says that both threads have used the pending entries, or that the
destructor began while a flush of the io thread was under way. A handler that
had ended before the destructor began counts as ordered before it. What a data
race may do is `LoseEntries`, any number of times; that it may crash is `Kill`.
Properties of the logs hold as long as the threads have not raced, which is what
they are about; that they may race is a finding (section 5). `orderly` says
that the destructor began after the traversal had ended, i.e. `save` was
answered, and then the threads cannot race.

`save` leaves any part of the cones in its file and may answer true or false for
any of them: `stream.good()` is asked for while the end of the file may still be
in the buffer. A line that was cut off counts as missing. The writes of
`flushPending` are assumed to succeed. The answer of `finish` reaches the client
before a flush that it triggers, which allows more than the code does.
In `Contract` the stored
cones are the marked and the unmarked ones, a scan lasts from the call of `get`
to its answer, and a job that asks for more cones than there are asks for all.

*LinearConeStorage, ConstantConeStorage.* A step is a system call. The parents
of cones in the linear storage and all of `_all` except the last level are
reduced to nothing, because no directory is ever removed there. Cones have
equal length, so that no cone's directory is above another's (the constant
storage appends a suffix for this). `touch` never fails in the model of the
linear storage, as the comment of that class demands. `Save` answers false if
its file cannot be opened, and otherwise true whatever part of the cones the
file has, as the streams are never asked for errors; `saved` is the answer and
the file.

*ListManipulation, FullDimAfaces.* The counters and flags of the nets; the
second one keeps the joined list as the number of times each face occurs,
because its order depends on the workers, and so does the result of a batch.
Each line of a file of representatives is a different face, as they represent
different orbits. Positions in the file of
representatives are counted in lines. A batch past the end of the iterator
would throw and stop the net, so TLC's deadlock check covers it.

*SimplexFaceIterator.* The products are exact. In the code they are unsigned
longs and at most (inc + 1) * n, where inc is a job size. n - k below zero does
not occur: a face has at most n elements.

*OrbitCones.* `ListStep` stands for a run of the list template: the results of
all elements, in any order (with job_size 1 every order does happen; what the
template guarantees is the property `Complete` of `ListManipulation`). The
results are indexed by the positions of the elements that have one, so that an
element that is dropped is a position without result. Files are functions from
paths to cones; before anything is written the file of the group on hashes is
`<<>>`, which no group is. Orbits, permutations and lists are numbered from 1
where the code counts from 0. What a cone is, its preimage under a symmetry and
its cut with the moving cone are parameters; assumed is that they are cones
again, that `Less` is a strict linear order of the cones (`ConeAssumption`,
`OrderAssumption`), and that the symmetries of a problem are a group of
permutations of the same numbers that acts on the cones (`GroupAssumption`), as
the name symmetry group and the removal of equal orbits by their least cones
presuppose. That the a-faces of a problem have different file names is assumed
as well (`ProblemAssumption`) and is what `NamesRoundTrip` shows of the
conversion. `FilesRead` and `OrbitsRead` are the files in the order in which the
code asks the two caches for them.

*Conversion, StoragePaths, LRUCache.* Pure operators. A name is the sequence of
its hexadecimal digits and a path the sequence of the names of its directories,
without the root. `hexStringToList` is the table of the code's `switch`, not the
inverse of `listToHexString`; that they are inverse is a property. A cache is a
value; `get` gives the cache it leaves and what it returns. The nodes of its list
have identities, and the map holds for each key the one its iterator points to:
a hit erases that node, whatever key it has. The cones of
`ConstantConeStorage` are paths made by `asPath`, and a mark is a directory at
which its iterator stops (`isAtValidPosition`).

*SingularSession.* A session is a function from the names of the symbols that
are defined to their values. `load_ssi_if_not_defined` is the only way in which
a file gets in. Each function of the wrapper is an operator that says what is
left of the session: global symbols it loads, in its order, and scratch symbols
that it kills. `trivialGroupAction` permutes `1..r` as Singular reads it, which
is (1, 0) for r = 0. What the interpreter computes is an uninterpreted value
such as `<<"movingCone", Q>>`.

*GitFanWorkflow.* Places of the net are `control` (shared with `OrbitCones`),
`traverse`, `order` and `output`. `InputData` is what `main` passes on of the
options. A precomputed group is assumed to permute the precomputed cones, as its
option says (`WorkflowAssumption`), and the fan to be connected
(`FanAssumption`). Which workers run the tasks of a step is
chosen freely (`TakePart`), as the engine does. The net of a-faces is one step,
`full_dim_afaces`: what it leaves is the property `Complete` of `FullDimAfaces`.
The traversal takes steps of `GitFan`, which `TraverseGitfan` implements as long
as no `--max-cones` is given; the limit is left to `TraverseGitfan`. `Throw`
stands for an exception of any module call: the engine stops, `put_and_run`
throws and `main` returns -1, while the files that are there remain, and a result
that a task was writing stays as far as it got. The last task, which saves the
cones and writes the file that loads them, is three steps: the cones are saved
(`outputGitCones`), the load file is created and lists the orbit cones
(`outputLoadGitConesSingularFile`), the saved cones are read and it is completed
(`EndLoadFile`). After each of them the task may throw.
No output stream of the results is checked, so that a task may also end with an
incomplete file: a beginning of its lines, the last one cut off
(`CutOff`) or not. `truncated` remembers for which results this has happened,
and `MaxTruncated` is the bound on their number.
`clean` of the intermediate files runs beside everything that follows.

## 3. Runs

| run | checks | shows |
|---|---|---|
| `traverse` | `TypeOK TokensCounted NoConeForgotten ExpandedOnce CountsAddUp WithinLimits Complete EnumeratesFan Termination` | a fan of four reachable cones and one unreachable, batches of two, at most three jobs: c2 and c3 find c4 and each other at the same time, and the queue is full while cones are still marked; it implements `GitFan` and ends |
| `traverse_limit` | `ExactLimit` | `--max-cones` 3 of 4, unlimited queue: exactly three are expanded |
| `rpc` | `LogsClosed EvolutionConsistent NothingLostOnStop KeepsContract` | three cones that are all neighbours, two workers, killed or stopped anywhere |
| `rpc_race` | `UsedByOneThread`, violated | see section 5 |
| `linear` | `NoLostMark MarkedOnce KeepsContract` | three cones, two workers, one unmarking job; the contract includes its liveness |
| `constant` | `NoEmptyDirectories KeepsContract CallsReturn` | two cones below the same directories, two file system errors, two tries |
| `constant_lost` | `NoLostMark`, violated | see section 5 |
| `list` | `TasksPartition TasksCounted Complete Termination` | the lists of `tests/xpnet_tests.cpp.in`, an empty list, one that batches divide, a skipped step, a group larger than the job size |
| `simplex` | `StepsReported AtItsRank NamesRoundTrip PathsRoundTrip` | every n up to 7, every k, every sequence of increments up to 60; the name, the orbit and the paths of every face met |
| `afaces` | `FacesPartition BatchesCounted Complete Progress` | faces of a simplex with 5 vertices, 16 of them; job sizes that divide their number, and just do not; files with and without final newline |
| `orbit` | `FilesThere CacheRecent OrbitsOnce ActionOnCones` | a triangle with its symmetries, with rotations, without any; every order of the results |
| `workflow` | `SymbolsCurrent LoadFileUsable ResultsAgree WorkflowEnds` | two workers, seven combinations of options, a task that throws anywhere, one of the results incomplete without notice |

What `workflow` shows: no worker ever uses a symbol that its file contradicts,
although symbols are never loaded again and the orbit cone files are overwritten
in place; the paths join unless a task throws; in whatever state the file that
loads the cones is left, the orbit cones it names are there, and it has a git
cone only after all orbit cones; with its commands it has every cone of the fan,
unless the cones were saved incompletely without notice. When `main` returns,
its order of orbit cones, that of the order file and that of every worker are
the same, as far as the files go, and the files are complete unless a write
error went unnoticed.

What the storages are checked for differs: the contract alone does not say that
a stored cone gets marked, and `NoLostMark` does. A limit on the number of cones
is set in `traverse_limit` only (`ExactLimit`); in `traverse` the part of
`WithinLimits` about it holds trivially.

*Bounds.* Every run is finite without a bound on its length. In the runs of
`RpcServer` what comes after a race is followed only while at most `MaxRaced`
cones are found (`RacedBound`): a state in which the threads have raced and more
are found is checked, its successors are not. The symmetry of these runs
exchanges workers, and the two cones that are not initial, as the fan allows. In
`workflow` at most one of the three results is incomplete without notice
(`MaxTruncated = 1`); the theorems have no such bound. What matters is that the
interesting cases occur. In the traversal: two jobs that add the same cone, a
fetch that comes back empty while a job inserts, a full queue, a job of several
cones. In the storages: two workers racing for one cone, and a scan or a removal
between any two of their system calls. A third worker would meet the same states
as one of the two. `MaxFaults = 2` lets an error hit a retry too. In `simplex`
the largest increment exceeds a whole size of faces (35) and so crosses sizes.
In `orbit` orbits have 1, 3 and 6 cones, so that stabilisers of order 6, 2 and 1
occur, and the group does not commute. Names have one or two digits in
`NamesRoundTrip`, so that a last block is full or not, and up to seven in
`PathsRoundTrip`, cut at one, two or three digits, so that the last piece is
full or not. In `workflow` one worker may run everything and the other nothing,
or start late with files others wrote; two a-faces, whose cuts with the moving
cone have the same orbit, are enough for an orbit to be dropped as a duplicate
and two others for two orders of the list; the options lead through a moving
cone that is given, computed or absent, a group that is given or trivial,
precomputed cones with and without group, and no orbit cones at all. Token,
worker and cone symmetry is used only in runs without liveness properties.

*Fairness.* The workflow engine fires a transition that stays enabled, and a
function that was started on a worker ends: weak fairness on each job, on the
engine's steps for each token, on the fetching job and on `clean`. In the
storages a call that was begun goes on (weak fairness on the steps of each
call), but nobody has to begin one. Nothing is assumed of file system errors.
`ConstantConeStorage.CallsReturn` needs no strong fairness, because one
unmarking job removes only cones it found in its scan.
In `GitFanWorkflow` weak fairness is on the step as a whole: the engine fires
something as long as something is enabled, and a task returns or throws. That is
enough, although expansion jobs that find nothing new leave everything as it is
once a worker has its symbols: such a step changes no variable, and weak
fairness asks for steps that do. There are finitely many such jobs, by
`Termination` of `TraverseGitfan`.
In `FullDimAfaces` the end of the net is stated without fairness: every step
brings a measure down (`Progress`) and the net cannot deadlock before it has
finished. TLC evaluates the recursive functions of the iterator again for every
ENABLED, which makes the liveness formula too slow to check.

## 4. Proofs

The theorems hold for every value of the constants: every finite set of cones,
every fan, every list, every set of tokens or workers and every configuration.
What they assume is in the named assumptions of the modules (`ConeAssumption`,
`ConfigAssumption`, `RpcAssumption`, `LinearAssumption`, `ConstantAssumption`,
`ListAssumption`, `AfacesAssumption`, and for the workflow `ProblemAssumption`,
`ConeAssumption`, `OrderAssumption` and `GroupAssumption` of `OrbitCones`,
`WorkflowAssumption`, `MissingAssumption` and `FanAssumption` of
`GitFanWorkflow`), which the runs evaluate.

In each module the safety properties alone are not inductive. What has to be
added is in the section "The inductive invariant" of the module, mostly as one
definition `IInv`; in FullDimAfaces the parts `CountInv`, `FileShape` and
`JoinedOnce` are separate, because they hold under different assumptions, and in
GitFanWorkflow there are four, each built on the one before. The runs of
section 3 were repeated with these invariants before they were proved.

*TraverseGitfanProofs.* `IInv` is inductive, `NextPreserves` has a lemma for
each action. The counts need to know which job inserted which cone, and that
these sets are disjoint (`StorageShape`); the fact that a fetched cone is in one
job needs the shape of a job at each place (`JobShape`); that the net ends with
nothing left needs that all neighbours of expanded cones are stored and the
initial cone is stored or on its way (`SearchShape`); the limits need the
relation between the fetch under way and the counters (`FetchShape`,
`TokenShape`). From `IInv`:

- `TypeCorrect`, `TokensAreCounted`, `NothingForgotten`, `ConesExpandedOnce`,
  `InsertionsAddUp`, `LimitsKept`: the invariants of the runs;
- `TraversalComplete`: at the end no token is left and no cone is marked
  (`AtTheEnd`), so that the stored cones are closed under neighbourhood and
  contain `Reachable`;
- `LimitExact`: with a limit, exactly that many cones were expanded, or all;
- `ImplementsPromise`: without a limit each step is a step of `GitFan` or
  leaves its variables unchanged.

*RpcServerProofs.* `ConeShape` says that every retrieved cone is in one place:
handed to the net, being expanded by one worker, or ended. `WorkerShape` says
that a worker ends its transaction only when all neighbours are found, and that
at most one answer under way calls a cone new. `ThreadShape` says when which
thread flushes: of two threads that have not raced one at most does. `LogShape`
relates the files to the memory of the server: what was found is what is on file
or pending, all neighbours of an ended cone were found, and how far a flush,
finished or interrupted, of either thread has brought each of the three files.
The parts about the logs are guarded by `~ raced`, and `EndShape` says why a
destructor that begins after the traversal cannot race: no worker expands
anything any more and no flush of the io thread is under way. `LogsAlwaysClosed`
and `EvolutionAlwaysConsistent` follow for a kill or a stop at any point unless
the threads race; `StopLosesNothing` for every stop after the traversal and for a
stop in its middle unless they race. `RpcKeepsContract`, by refinement, holds
even then, as the race does not touch the cones.

*LinearConeStorageProofs.* `IInv` adds to `NoLostMark` and `MarkedOnce` that a
call about to return true is the only one for its cone (`CallShape`) and which
marks a scan still has to remove (`ScanShape`). `LinearKeepsContract` proves the
safety part of the contract from it.

*ConstantConeStorageProofs.* `CallShape` and `ScanShape` are as before. For
`NothingLeftBehind` every directory of `_marked` has to lead somewhere at any
time (`DirectoriesLead`): to a marked cone, to a directory that is there and
that a call has found or created last (`Held`), or to the one that
`removeIfEmpty` takes next. A directory that is not empty passes on what its
contents lead to, one that is removed hands what led to it to its parent. The
lemmas on paths show from `asPath` itself that only a cone's own directory is at
a valid position, that cones have no directory below them, and when one path is
a prefix of another. `ConstantKeepsContract` is the safety part of the contract,
with errors of the file system and lost marks (section 5).

*ListManipulationProofs.* That the list is complete up to its order is a
statement on how often a value occurs. `ResultsJoined` states it for each value
and for all of them: the number of places in the joined list is that of the
places in the results for the positions joined so far, which are disjoint
intervals (`TasksPartition`). What a worker makes of a range is a recursive
concatenation; that it has these occurrences is shown by induction over its
length.

*FullDimAfacesProofs.* `AfacesBatchesCounted` holds whatever the batches are, as
a batch has a number and is in one place (`BatchShape`). `FileIsPartitioned`:
the batches cut the part of the file that is read into disjoint intervals of
lines (`FileShape`), the end of the file in all its variants included.
`AfacesComplete`: whenever the batches partition the faces, the list is complete.
For files that gives `FileComplete`; that the iterator partitions the faces is
`FacesPartition` of the run `afaces` and `AtItsRank` of `simplex`, and not
proved.

*GitFanWorkflowProofs.* Four invariants, for every group, every geometry,
every order of results and every way of spreading the tasks over the workers.

- `OrbitInv`: what the list names at each place of the control token. First
  a-faces, each once; then files, each once; then orbits, each with a number of
  its own, whose files carry this number; in the end files in the directory of
  results, which `clean` does not touch. That the files of an orbit are there
  and different is shown from `Firsts` and `Elements`: the indices are those
  of the group, in ascending order, with the least cone swapped to the front
  (which has to exist, `LeastCone`). Flattening the orbits keeps the files apart
  because their orbits have different numbers. `FilesAlwaysThere` follows.
- `WorkflowInv`: `PhaseShape` says in which order files come to be, and
  `SessionShape` that every session is a part of the function `Symbols`. This
  maps a name to what loading it would give now, and is defined only for the
  symbols that a worker may have loaded by now: those whose files are there and,
  for the orbit cones and the group on hashes, only once the traversal has
  begun. The proof is that no step changes `Symbols` where it is defined
  (`SymbolsKept`), and that every task leaves a session that is a part of it if
  it finds one. `SymbolsAlwaysCurrent` and `WorkflowFilesThere` follow.
- `ResultInv`: `ConesShape` says how many numbers each symmetry permutes, which
  is the length of a concatenation, depending on the lengths of its parts only
  (`FlattenLength`), or comes from the options; without orbit cones there is
  nothing to permute and the trivial group is not asked. `FanShape` says how far
  the fan is on each control path, `ResultShape` what may be in each of the three
  files at each step, and that only an unnoticed error makes it less than the
  whole. A task that throws leaves a beginning (`ThrowPreserves`).
  `LoadFileAlwaysUsable` holds after every step, throws included;
  `ResultsAlwaysAgree` when `main` returns, the fan being complete because a
  closed part of a connected fan is all of it.
- `ConesInv`: which cones the list stands for at each place of the control
  token. `IsOrbitOf` says that an orbit in the list has all cones of an orbit of
  the group, each once, the least one first, and an action that permutes its
  numbers as the symmetries permute its cones. `ExpandCones` shows this of
  `expandOrbitConeOrbit`, from what `Firsts`, `Elements` and `ElementIndex` are
  (`ElementsOfOrbit`, `ActionOnOrbit`) and from the group being closed. Orbits
  with a cone in common are equal because the group has inverses (`OrbitsMeet`),
  so that comparing first cones compares orbits (`SameFirstCone`); of equal ones
  the last is kept, so one is kept of each (`UniqueCones`). In the end the number
  of a cone in the list is its number in its orbit plus the number of cones in
  the orbits before (`FlattenAt`), the same for the cones and for the
  permutations, as their parts have the same lengths (`BeforeAgrees`):
  `RemoveStructureCones`. `OrbitsAlwaysOnce` and `ActionAlwaysOnCones` follow for
  the pipeline, `WorkflowCones` for the whole computation. The latter holds for
  orbit cones that are computed: what is in precomputed files is up to the user.

Lists that are filtered are written with `Restrict` on the positions, since the
definition of `SelectSeq` is out of the provers' reach.

*DataLemmas.* The induction theorems of the library have an operator as a
parameter, which the provers cannot instantiate. Here induction is stated with a
set of numbers (`SetInduction`, from the well-foundedness of `<`), and so is the
existence of a function defined by recursion on an interval
(`IntervalRecursion`).

*Only model-checked:* everything about liveness, fairness and ENABLED
(`Termination`, `EnumeratesFan`, `CallsReturn`, `WorkflowEnds`, the liveness part
of the contract), which the prover does not support; `Progress` of
`FullDimAfaces`, which rests on the iterator; the recursive algorithms (jumps of
the iterator, names and paths, the cache: `StepsReported`, `AtItsRank`,
`NamesRoundTrip`, `PathsRoundTrip`, `CacheRecent`), where the recursion is not
over an interval of numbers.

## 5. Findings

`constant_lost`: `ConstantConeStorage::addMarkedCone` adds a cone to `_all`,
then to `_marked`. If `unmarkCones` removes a directory of `_marked` after
`fs::create_directory` has found it existing and before it checks that it is a
directory, `create_directory` throws, the call is tried again, and now `_all`
knows the cone: the call returns false and the cone stays unmarked for ever.
No error of the file system is needed (`MaxFaults = 0`). The class comment
promises that many `addMarkedCone` and one `unmarkCones` may run at once. The
traversal would end without having expanded that cone. For this reason `constant`
checks the safety part of the contract only. That part does not say that a
stored cone is marked in the end.

`rpc_race`: `~Server` flushes on the main thread while its io thread still runs
handlers, which is joined only afterwards. `main` destroys the server before the
runtime system; if `put_and_run` has thrown in mid-traversal, workers may still
call `put` and `finish`, and these append to the vectors that the destructor
writes and clears. `server.hpp` says that the class is not thread safe. After a
traversal that ended this cannot happen: no call is left (`orderly`).

No run, but a step of the model: the handler of `save` returns `stream.good()`
before the stream is flushed or closed. If only the end of the file, still in the
buffer, cannot be written, the answer is true and the file is not complete;
`outputGitCones` then does not throw, and the load file is made from what is
there. The contract says "return false in case of failure". The file system
storages do not look at the stream at all. What this means for the results is
part of `LoadFileUsable` and `ResultsAgree`.

## 6. Not modelled

- The Singular libraries `gitfanparallel.lib` and `load_git_cones.lib`: rational
  geometry; its results are constants and uninterpreted values.
- The functions named `TESTING_ONLY` (except the one `expand_orbits` uses, whose
  result is a parameter) and `computeOrbitOfSymmetryGroup`, which no net uses.
- Option parsing, the service provider and the serialisation of its options:
  no state that a property is about.
- Logging and statistics: no decision depends on them.
- The RPC transport and its threads, except that handlers run on one of them;
  the restart of a workflow: the program has none.
- Some errors that the code does not look at: `touch` in the linear storage
  (`linear_conestorage.cpp:43`), whose class comment demands a file system that
  works, the log files of `flushPending`, and a file of representatives that
  cannot be opened (`gitfanImpl.cpp:238`), whose first batch throws.
- A factory that throws inside `LRUCache::get`: it leaves the key in the list
  without a value, but the exception ends the task that owns the cache.

## 7. Plan

1. Done: traversal and its promise, contract, three storages, list template,
   a-faces with their iterator, orbit cones, proofs of the traversal and the
   linear storage.
2. Done: the top-level net with the sessions of the workers, conversion,
   storage paths, LRU cache, `expand_orbits`.
3. Done: proofs of `RpcServer`, `ConstantConeStorage`, `ListManipulation` and of
   `FullDimAfaces` as far as files go.
4. Done: proofs of `OrbitCones` and `GitFanWorkflow` as far as files, sessions
   and results go.
5. Done: proofs of `OrbitsOnce` and `ActionOnCones`, from the action of the group
   on cones.
6. Left: the jumps of the iterator, which `FileComplete` would need to cover the
   faces that are not read from a file, and the cache.
