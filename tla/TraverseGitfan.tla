--------------------------- MODULE TraverseGitfan ---------------------------
(***************************************************************************)
(* The Petri net of workflow/traverse_gitfan.xpnet, which enumerates the   *)
(* cones of a GIT fan by breadth-parallel search: worker jobs expand cones *)
(* and insert the neighbours they find into a shared cone storage, one     *)
(* job at a time fetches the cones that are still to be expanded.          *)
(*                                                                         *)
(* A transition that runs a module function on a worker is not atomic:     *)
(* its input tokens are taken when it starts and its output tokens appear  *)
(* when it ends, and between the two it calls the storage, interleaved     *)
(* with every other running job.  Job tokens keep an identity (Token), so  *)
(* two jobs with equal contents are still two tokens.                      *)
(*                                                                         *)
(* The storage is the contract of storage/conestorage.hpp, in the weakest  *)
(* form its implementations keep (see ConeStorage): a new cone may become  *)
(* visible to unmarkCones() later than to other addMarkedCone() calls, and *)
(* unmarkCones() may miss a cone whose insertion overlaps it.              *)
(***************************************************************************)
EXTENDS Integers, FiniteSets

CONSTANTS
  Cone,           \* the git cones, by their hashes
  Root,           \* the empty hash the initial expansion is recorded under
  InitialCones,   \* computeInitialCone(): {} without orbit cones, else {c}
  Neighbours,     \* computeNeighbourHashes() of each cone
  Token,          \* identities of job tokens
  JobSize,        \* config.job_size
  MaxJobQueue,    \* config.max_job_queue, 0 for no limit
  MaxCones,       \* config.max_cones, negative for no limit
  UlongRange      \* number of values of an unsigned long

ASSUME ConeAssumption ==
  /\ IsFiniteSet(Cone)
  /\ Root \notin Cone
  /\ InitialCones \in SUBSET Cone
  /\ Neighbours \in [Cone -> SUBSET Cone]

ASSUME ConfigAssumption ==
  /\ JobSize \in Nat \ {0}
  /\ MaxJobQueue \in Nat
  /\ MaxCones \in Int
  /\ UlongRange \in Nat \ {0}

VARIABLES
  control,        \* the places enabled and finished, or the net in between
  expandable_cones_available,
  number_of_unprocessed_tokens,
  number_of_fetched_expandable_cones,
  number_of_cones,
  getting,        \* is get_expandable_cones running?
  size,           \* its argument of unmarkCones()
  seen,           \* the cones marked when that call began
  place,          \* where each job token is; "none" when it does not exist
  rest,           \* the cones of a job not begun yet
  current,        \* the cone whose neighbours a job is inserting
  pending,        \* its neighbours not inserted yet
  insertionCount, \* the local variable of insertNeighbours()
  stored,         \* the cones the storage knows
  marked,         \* those unmarkCones() can return
  unmarked,       \* those it has returned
  inserted,       \* history: the cones a job added first
  expanded        \* history: the cones endOfTransaction() was called for

net == <<control, expandable_cones_available, number_of_unprocessed_tokens,
         number_of_fetched_expandable_cones, number_of_cones>>
get == <<getting, size, seen>>
job == <<place, rest, current, pending, insertionCount, inserted>>
storage == <<stored, marked, unmarked>>
vars == <<net, get, job, storage, expanded>>

Place == {"none", "enable_compute_initial_cone", "cones_to_be_expanded",
          "expanding", "number_of_insertions"}

TypeOK ==
  /\ control \in {"enabled", "running", "finished"}
  /\ expandable_cones_available \in BOOLEAN
  /\ number_of_unprocessed_tokens \in Nat
  /\ number_of_fetched_expandable_cones \in Nat
  /\ number_of_cones \in Nat
  /\ getting \in BOOLEAN
  /\ size \in Nat
  /\ seen \in SUBSET Cone
  /\ place \in [Token -> Place]
  /\ rest \in [Token -> SUBSET Cone]
  /\ current \in [Token -> Cone \cup {Root}]
  /\ pending \in [Token -> SUBSET Cone]
  /\ insertionCount \in [Token -> Nat]
  /\ stored \in SUBSET Cone
  /\ marked \in SUBSET Cone
  /\ unmarked \in SUBSET Cone
  /\ inserted \in [Token -> SUBSET Cone]
  /\ expanded \in SUBSET (Cone \cup {Root})

-----------------------------------------------------------------------------
(* Operators.  A definition commented as a fault is a variant of the one    *)
(* below it with a mistake in it: no specification uses it, it is there to *)
(* show that a property notices the mistake.                               *)

\* The tokens that number_of_unprocessed_tokens counts.
Live == {t \in Token : place[t] # "none"}

\* The neighbours a job inserts for one of its cones; the job of
\* compute_initial_cone inserts the initial cone as if it neighboured Root.
NeighboursOf(e) == IF e = Root THEN InitialCones ELSE Neighbours[e]

\* Fault: the counter is not decremented.
MinusForgotten(a, b) == a

\* Fault: the counter is decremented twice.
MinusTwice(a, b) == a - b - b

\* Subtraction of unsigned longs.
Minus(a, b) == IF b <= a THEN a - b ELSE (a + UlongRange) - b

Smaller(a, b) == IF a <= b THEN a ELSE b

\* Fault: the limit is compared with every fetch alone.
FetchSizePerJob == IF MaxCones >= 0 THEN Smaller(JobSize, MaxCones) ELSE JobSize

\* How many cones the next fetch asks for.
FetchSize ==
  IF MaxCones >= 0
  THEN Smaller(JobSize, Minus(MaxCones, number_of_fetched_expandable_cones))
  ELSE JobSize

\* Fault: one job too many.
QueueOverfull ==
  number_of_unprocessed_tokens <= MaxJobQueue \/ MaxJobQueue = 0

\* The condition of get_expandable_cones on the number of jobs.
QueueHasRoom ==
  number_of_unprocessed_tokens < MaxJobQueue \/ MaxJobQueue = 0

\* Fault: the fetch may leave out cones it could have returned.
FetchedSome(S) == S \in SUBSET marked /\ Cardinality(S) <= size

\* What unmarkCones(size) may return: at most size cones, all of them marked,
\* and fewer than size only if no cone was left that it had to see.
Fetched(S) ==
  /\ S \in SUBSET marked
  /\ Cardinality(S) <= size
  /\ Cardinality(S) < size => seen \subseteq S

\* Fault: only marked cones are looked up.
KnownIfMarked(n) == n \in marked

\* Does addMarkedCone(n) find that the cone exists, marked or not?
Known(n) == n \in stored

\* The cone a job has added but, its addMarkedCone() still running, not marked.
Adding(t) == inserted[t] \ (marked \cup unmarked)

-----------------------------------------------------------------------------
Init ==
  /\ control = "enabled"
  /\ expandable_cones_available = FALSE
  /\ number_of_unprocessed_tokens = 0
  /\ number_of_fetched_expandable_cones = 0
  /\ number_of_cones = 0
  /\ getting = FALSE
  /\ size = 0
  /\ seen = {}
  /\ place = [t \in Token |-> "none"]
  /\ rest = [t \in Token |-> {}]
  /\ current = [t \in Token |-> Root]
  /\ pending = [t \in Token |-> {}]
  /\ insertionCount = [t \in Token |-> 0]
  /\ stored = {}
  /\ marked = {}
  /\ unmarked = {}
  /\ inserted = [t \in Token |-> {}]
  /\ expanded = {}

\* Transition init: one token of work, for the initial cone.
Start(t) ==
  /\ control = "enabled"
  /\ control' = "running"
  /\ expandable_cones_available' = FALSE
  /\ number_of_cones' = 0
  /\ number_of_fetched_expandable_cones' = 0
  /\ number_of_unprocessed_tokens' = 1
  /\ place' = [place EXCEPT ![t] = "enable_compute_initial_cone"]
  /\ UNCHANGED <<get, rest, current, pending, insertionCount, inserted,
                 storage, expanded>>

-----------------------------------------------------------------------------
(* Worker jobs: insertNeighbours() and the two transitions that end in it *)

\* The job proceeds to insert the neighbours of e.
BeginCone(t, e) ==
  /\ place' = [place EXCEPT ![t] = "expanding"]
  /\ current' = [current EXCEPT ![t] = e]
  /\ pending' = [pending EXCEPT ![t] = NeighboursOf(e)]

\* The job returns: its insertion count becomes a token.
Return(t) ==
  /\ place' = [place EXCEPT ![t] = "number_of_insertions"]
  /\ current' = [current EXCEPT ![t] = Root]
  /\ UNCHANGED pending

\* Transition compute_initial_cone.  Without orbit cones there is no initial
\* cone and insertNeighbours() returns 0 at once.
compute_initial_cone(t) ==
  /\ place[t] = "enable_compute_initial_cone"
  /\ IF InitialCones = {} THEN Return(t) ELSE BeginCone(t, Root)
  /\ UNCHANGED <<net, get, rest, insertionCount, inserted, storage, expanded>>

\* Transition expand_cones_and_insert_neighbours.  The neighbours are computed
\* by a pure function; a job without cones returns 0 at once.
expand_cones(t) ==
  /\ place[t] = "cones_to_be_expanded"
  /\ \/ rest[t] = {} /\ Return(t) /\ UNCHANGED rest
     \/ \E e \in rest[t] :
          /\ BeginCone(t, e)
          /\ rest' = [rest EXCEPT ![t] = @ \ {e}]
  /\ UNCHANGED <<net, get, insertionCount, inserted, storage, expanded>>

\* Fault: insertions of known cones count as well.
AddCounts(t, n, new) ==
  /\ pending' = [pending EXCEPT ![t] = @ \ {n}]
  /\ insertionCount' = [insertionCount EXCEPT ![t] = @ + 1]

\* A call addMarkedCone(n) returns; it counts if the cone was new.
AddReturns(t, n, new) ==
  /\ pending' = [pending EXCEPT ![t] = @ \ {n}]
  /\ insertionCount' = [insertionCount EXCEPT ![t] = IF new THEN @ + 1 ELSE @]

\* addMarkedCone(n) of a cone the storage knows, be it marked or not.
AddKnown(t, n) ==
  /\ place[t] = "expanding"
  /\ n \in pending[t] /\ Known(n)
  /\ Adding(t) = {}
  /\ AddReturns(t, n, FALSE)
  /\ UNCHANGED <<net, get, place, rest, current, inserted, storage, expanded>>

\* addMarkedCone(n) of a new cone: the storage decides that it is new, and
\* marks it in the same step or in one to come (MarkNew).
AddNew(t, n) ==
  /\ place[t] = "expanding"
  /\ n \in pending[t] /\ ~ Known(n)
  /\ Adding(t) = {}
  /\ stored' = stored \cup {n}
  /\ inserted' = [inserted EXCEPT ![t] = @ \cup {n}]
  /\ \/ marked' = marked \cup {n} /\ AddReturns(t, n, TRUE)
     \/ UNCHANGED <<marked, pending, insertionCount>>
  /\ UNCHANGED <<net, get, place, rest, current, unmarked, expanded>>

MarkNew(t, n) ==
  /\ place[t] = "expanding"
  /\ n \in Adding(t)
  /\ marked' = marked \cup {n}
  /\ AddReturns(t, n, TRUE)
  /\ UNCHANGED <<net, get, place, rest, current, inserted, stored, unmarked,
                 expanded>>

\* All neighbours of the current cone are in: endOfTransaction(), then the
\* next cone of the job, or the end of the job.
endOfTransaction(t) ==
  /\ place[t] = "expanding"
  /\ pending[t] = {}
  /\ expanded' = expanded \cup {current[t]}
  /\ \/ rest[t] = {} /\ Return(t) /\ UNCHANGED rest
     \/ \E e \in rest[t] :
          /\ BeginCone(t, e)
          /\ rest' = [rest EXCEPT ![t] = @ \ {e}]
  /\ UNCHANGED <<net, get, insertionCount, inserted, storage>>

-----------------------------------------------------------------------------
(* Transition get_expandable_cones, which runs on a worker of its own *)

\* It holds the tokens of the three counters from its start to its end, so
\* that no transition that needs one of them can fire in between.
GetBegins ==
  /\ control = "running"
  /\ ~ getting
  /\ expandable_cones_available
  /\ QueueHasRoom
  /\ getting' = TRUE
  /\ size' = FetchSize
  /\ seen' = marked
  /\ UNCHANGED <<net, job, storage, expanded>>

\* The fetched cones become one job token, an empty one included.
GetEnds(t, S) ==
  /\ getting
  /\ place[t] = "none"
  /\ Fetched(S)
  /\ getting' = FALSE
  /\ size' = 0
  /\ seen' = {}
  /\ marked' = marked \ S
  /\ unmarked' = unmarked \cup S
  /\ place' = [place EXCEPT ![t] = "cones_to_be_expanded"]
  /\ rest' = [rest EXCEPT ![t] = S]
  /\ number_of_unprocessed_tokens' = number_of_unprocessed_tokens + 1
  /\ number_of_fetched_expandable_cones' =
       number_of_fetched_expandable_cones + Cardinality(S)
  /\ expandable_cones_available' = (S # {})
  /\ UNCHANGED <<control, number_of_cones, current, pending, insertionCount,
                 inserted, stored, expanded>>

-----------------------------------------------------------------------------
(* The transitions of the workflow engine itself *)

\* The token of an insertion count is consumed.
ConsumeCount(t) ==
  /\ control = "running"
  /\ ~ getting
  /\ place[t] = "number_of_insertions"
  /\ place' = [place EXCEPT ![t] = "none"]
  /\ insertionCount' = [insertionCount EXCEPT ![t] = 0]
  /\ inserted' = [inserted EXCEPT ![t] = {}]
  /\ number_of_unprocessed_tokens' = Minus(number_of_unprocessed_tokens, 1)

sum_up_number_of_cones(t) ==
  /\ insertionCount[t] > 0
  /\ ConsumeCount(t)
  /\ number_of_cones' = number_of_cones + insertionCount[t]
  /\ expandable_cones_available' = TRUE
  /\ UNCHANGED <<control, number_of_fetched_expandable_cones, get, rest,
                 current, pending, storage, expanded>>

consume_zero(t) ==
  /\ insertionCount[t] <= 0
  /\ ConsumeCount(t)
  /\ UNCHANGED <<control, number_of_cones, expandable_cones_available,
                 number_of_fetched_expandable_cones, get, rest, current,
                 pending, storage, expanded>>

\* Fault: jobs still on their way do not keep the net from ending.
cleanEarly ==
  /\ control = "running"
  /\ ~ getting
  /\ ~ expandable_cones_available
  /\ control' = "finished"
  /\ UNCHANGED <<expandable_cones_available, number_of_unprocessed_tokens,
                 number_of_fetched_expandable_cones, number_of_cones, get,
                 job, storage, expanded>>

clean ==
  /\ control = "running"
  /\ ~ getting
  /\ ~ expandable_cones_available
  /\ number_of_unprocessed_tokens = 0
  /\ control' = "finished"
  /\ UNCHANGED <<expandable_cones_available, number_of_unprocessed_tokens,
                 number_of_fetched_expandable_cones, number_of_cones, get,
                 job, storage, expanded>>

\* The net has finished; nothing is left to fire.
Finished == control = "finished" /\ UNCHANGED vars

-----------------------------------------------------------------------------
Worker(t) ==
  \/ compute_initial_cone(t)
  \/ expand_cones(t)
  \/ \E n \in Cone : AddKnown(t, n) \/ AddNew(t, n) \/ MarkNew(t, n)
  \/ endOfTransaction(t)

Get == GetBegins \/ \E t \in Token : \E S \in SUBSET marked : GetEnds(t, S)

Engine(t) == sum_up_number_of_cones(t) \/ consume_zero(t)

Next ==
  \/ \E t \in Token : Start(t) \/ Worker(t) \/ Engine(t)
  \/ Get
  \/ clean
  \/ Finished

\* The workflow engine fires a transition that stays enabled, and a job that
\* was started ends.
Fairness ==
  /\ WF_vars(\E t \in Token : Start(t))
  /\ \A t \in Token : WF_vars(Worker(t)) /\ WF_vars(Engine(t))
  /\ WF_vars(Get)
  /\ WF_vars(clean)

Spec == Init /\ [][Next]_vars
FairSpec == Spec /\ Fairness
-----------------------------------------------------------------------------
(* Properties *)

\* The cones the search has to find: the least set that holds the initial
\* cone and is closed under neighbourhood.
Closed(S) ==
  /\ InitialCones \subseteq S
  /\ \A c \in S : Neighbours[c] \subseteq S

Reachable == {c \in Cone : \A S \in SUBSET Cone : Closed(S) => c \in S}

\* The cones of a job that are not through endOfTransaction() yet.
Held(t) ==
  rest[t] \cup (IF place[t] = "expanding" THEN {current[t]} \ {Root} ELSE {})

\* While the net runs, number_of_unprocessed_tokens is the number of job
\* tokens: those waiting, those a worker is busy with and the insertion
\* counts not added up.  The guard of clean and the queue limit of
\* get_expandable_cones rely on it, and the unsigned counter never wraps.
TokensCounted ==
  control = "running" => number_of_unprocessed_tokens = Cardinality(Live)

\* The fetch limit is used up: get_expandable_cones asks for no cone any more.
LimitReached ==
  MaxCones >= 0 /\ number_of_fetched_expandable_cones >= MaxCones

\* No marked cone is forgotten: the net knows that cones are available, or a
\* running fetch saw the cone, or a job is still to announce insertions.
\* Otherwise clean could end the traversal with cones left to expand.
NoConeForgotten ==
  \A c \in marked :
    \/ LimitReached
    \/ ~ getting /\ expandable_cones_available
    \/ getting /\ c \in seen
    \/ \E t \in Token : insertionCount[t] > 0

\* A cone that was fetched is in exactly one job until the transaction that
\* expands it has ended, and is never expanded again.
ExpandedOnce ==
  /\ unmarked = (expanded \ {Root}) \cup UNION {Held(t) : t \in Token}
  /\ \A t \in Token : Held(t) \cap expanded = {}
  /\ \A t, u \in Token : t # u => Held(t) \cap Held(u) = {}

\* Every insertion is counted by exactly one job and added up exactly once.
CountsAddUp ==
  /\ number_of_cones = Cardinality(stored \ UNION {inserted[t] : t \in Token})
  /\ \A t \in Token :
       insertionCount[t] = Cardinality(inserted[t] \ Adding(t))

\* At most max_job_queue job tokens exist, and at most max_cones cones are
\* handed out for expansion.
WithinLimits ==
  /\ MaxJobQueue > 0 => Cardinality(Live) <= MaxJobQueue
  /\ MaxCones >= 0 => Cardinality(unmarked) <= MaxCones

\* Without a limit the finished net has found and expanded every reachable
\* cone, and reports their number.
Complete ==
  control = "finished" /\ MaxCones < 0 =>
    /\ stored = Reachable
    /\ expanded \ {Root} = Reachable
    /\ number_of_cones = Cardinality(Reachable)

\* With a limit the finished net has expanded exactly max_cones cones, or
\* every reachable one if there are not so many.
ExactLimit ==
  control = "finished" /\ MaxCones >= 0 =>
    /\ stored \subseteq Reachable
    /\ Cardinality(expanded \ {Root}) =
         Smaller(MaxCones, Cardinality(Reachable))
    /\ number_of_cones = Cardinality(stored)

\* The net implements the promise of GitFan, when no limit is set.
Promise ==
  INSTANCE GitFan WITH
    found <- stored,
    reported <- IF control = "finished" THEN {number_of_cones} ELSE {}

\* Step by step the net finds neighbours of cones found before; it reports
\* their number once, only when nothing is left to find, and it does report.
EnumeratesFan == Promise!FairSpec

\* The traversal ends: every job ends, every insertion count is consumed and
\* clean puts the token on finished.
Termination == <>(control = "finished")
-----------------------------------------------------------------------------
(* The inductive invariant of the proofs: the properties above and what    *)
(* they need to be preserved by every step.                                *)

\* What a job carries at each of its places.
JobShape ==
  \A t \in Token :
    /\ place[t] # "expanding" => pending[t] = {} /\ current[t] = Root
    /\ place[t] \notin {"cones_to_be_expanded", "expanding"} => rest[t] = {}
    /\ place[t] \notin {"expanding", "number_of_insertions"} =>
         inserted[t] = {}
    /\ place[t] = "expanding" =>
         /\ current[t] \notin rest[t]
         /\ pending[t] \subseteq NeighboursOf(current[t])
         /\ NeighboursOf(current[t]) \subseteq pending[t] \cup stored

\* What the storage holds, and which job each cone it is adding belongs to.
StorageShape ==
  /\ marked \cup unmarked \subseteq stored
  /\ marked \cap unmarked = {}
  /\ \A c \in stored :
       c \in marked \cup unmarked \/ \E t \in Token : c \in inserted[t]
  /\ \A t \in Token : inserted[t] \subseteq stored /\ Adding(t) \subseteq pending[t]
  /\ \A t, u \in Token : t # u => inserted[t] \cap inserted[u] = {}

\* The net before its start and after its end.
ControlShape ==
  /\ control # "running" =>
       ~ getting /\ ~ expandable_cones_available /\ Live = {}
  /\ control = "enabled" => stored = {} /\ expanded = {}

\* What a running fetch relies on, and the fetches so far.
FetchShape ==
  /\ number_of_fetched_expandable_cones = Cardinality(unmarked)
  /\ MaxCones >= 0 => number_of_fetched_expandable_cones <= MaxCones
  /\ getting => size = FetchSize /\ seen \subseteq marked /\ QueueHasRoom

\* The job tokens, counted and limited.
TokenShape ==
  /\ IsFiniteSet(Live)
  /\ control # "enabled" => number_of_unprocessed_tokens = Cardinality(Live)
  /\ MaxJobQueue > 0 => Cardinality(Live) <= MaxJobQueue

\* The search has found nothing unreachable, and has left out no neighbour of
\* a cone it is done with.
SearchShape ==
  /\ stored \subseteq Reachable
  /\ \A e \in expanded : NeighboursOf(e) \subseteq stored
  /\ \/ control = "enabled"
     \/ InitialCones \subseteq stored
     \/ \E t \in Token :
          \/ place[t] = "enable_compute_initial_cone"
          \/ place[t] = "expanding" /\ current[t] = Root

IInv ==
  /\ TypeOK
  /\ JobShape
  /\ StorageShape
  /\ ControlShape
  /\ FetchShape
  /\ TokenShape
  /\ SearchShape
  /\ NoConeForgotten
  /\ ExpandedOnce
  /\ CountsAddUp
=============================================================================
