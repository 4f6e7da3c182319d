------------------------------ MODULE RpcServer ------------------------------
(***************************************************************************)
(* The remote cone storage: storage/rpc/server.cpp keeps the cones in      *)
(* memory and logs them to three append-only files, storage/rpc/client.hpp *)
(* forwards IConeStorage to it.  Calls are synchronous, the server handles *)
(* them one after the other on its io thread.                              *)
(*                                                                         *)
(* The clients are the jobs of the traversal: workers that insert the      *)
(* neighbours of a cone and then end the transaction, and the one job that *)
(* fetches cones.  The server process can be killed at any step, also      *)
(* between the three writes of flushPending(), and leaves the files.       *)
(*                                                                         *)
(* Server lives in main(), which unwinds when the workflow has ended or    *)
(* has thrown: its destructor flushes on the main thread, before the io    *)
(* thread is joined and while the workers may still call.  Threads that    *)
(* use the pending entries at once are a data race.                        *)
(***************************************************************************)
EXTENDS Naturals, FiniteSets, Sequences

CONSTANTS
  Cone,
  Root,           \* the hash the initial expansion is recorded under
  InitialCones,
  Neighbours,
  Worker,         \* worker processes
  JobSize

\* A worker that expands nothing.
None == "none"

\* Without an initial cone the storage is never called.
ASSUME RpcAssumption ==
  /\ IsFiniteSet(Cone)
  /\ Root \notin Cone
  /\ None \notin Cone \cup {Root}
  /\ InitialCones \in (SUBSET Cone) \ {{}}
  /\ Neighbours \in [Cone -> SUBSET Cone]
  /\ JobSize \in Nat \ {0}

VARIABLES
  server,             \* "up", "stopping" in the destructor, "down" or "killed"
  marked, unmarked,
  pending_evolution, pending_marked, pending_unmarked,
  fan_evolution,      \* the file -fan_evolution.bin
  marked_cones,       \* the cones in the file -marked_cones.txt
  unmarked_cones,     \* the cones in the file -unmarked_cones.txt
  git_cones,          \* the cones in the file written by save
  flush,              \* the next write of flushPending(), on each thread
  expanding,          \* the cone a worker expands
  todo,               \* its neighbours not put yet
  call,               \* what a worker waits for, or the answer it got
  fetching,           \* what the fetching job waits for, or how save ended
  size,               \* its argument of get
  handed,             \* cones fetched that no worker has taken
  successes,          \* history: calls put(c) answered with true
  seen,               \* history: the cones marked when get was called
  raced,              \* history: both threads have used the pending entries
  orderly             \* history: the destructor began after save was answered

memory == <<marked, unmarked>>
pendings == <<pending_evolution, pending_marked, pending_unmarked>>
files == <<fan_evolution, marked_cones, unmarked_cones>>
workers == <<expanding, todo, call>>
clients == <<workers, fetching, size, handed, successes, seen>>
history == <<raced, orderly>>
vars == <<server, memory, pendings, files, git_cones, flush, clients, history>>

\* The thread of the handlers and the one that runs the destructor.
Threads == {"io", "main"}

Idle == [kind |-> "idle"]
Put(c) == [kind |-> "put", cone |-> c]
Finish == [kind |-> "finish"]
Answer(c, new) == [kind |-> "answer", cone |-> c, new |-> new]
Calls == {Idle, Finish} \cup {Put(c) : c \in Cone}
           \cup {Answer(c, b) : c \in Cone, b \in BOOLEAN}

TypeOK ==
  /\ server \in {"up", "stopping", "down", "killed"}
  /\ marked \in SUBSET Cone
  /\ unmarked \in SUBSET Cone
  /\ pending_evolution \in Seq(Nat)
  /\ pending_marked \in SUBSET Cone
  /\ pending_unmarked \in SUBSET (Cone \cup {Root})
  /\ fan_evolution \in Seq(Nat)
  /\ marked_cones \in SUBSET Cone
  /\ unmarked_cones \in SUBSET (Cone \cup {Root})
  /\ git_cones \in SUBSET Cone
  /\ flush \in [Threads -> {"evolution", "marked", "unmarked", "done"}]
  /\ expanding \in [Worker -> Cone \cup {Root, None}]
  /\ todo \in [Worker -> SUBSET Cone]
  /\ call \in [Worker -> Calls]
  /\ fetching \in {"idle", "get", "save", "saved", "failed"}
  /\ size \in 0..JobSize
  /\ handed \in SUBSET (Cone \cup {Root})
  /\ successes \in [Cone -> 0..1]
  /\ seen \in SUBSET Cone
  /\ raced \in BOOLEAN
  /\ orderly \in BOOLEAN

NeighboursOf(e) == IF e = Root THEN InitialCones ELSE Neighbours[e]

Init ==
  /\ server = "up"
  /\ marked = {} /\ unmarked = {}
  /\ pending_evolution = <<>> /\ pending_marked = {} /\ pending_unmarked = {}
  /\ fan_evolution = <<>> /\ marked_cones = {} /\ unmarked_cones = {}
  /\ git_cones = {}
  /\ flush = [t \in Threads |-> "done"]
  /\ expanding = [w \in Worker |-> None]
  /\ todo = [w \in Worker |-> {}]
  /\ call = [w \in Worker |-> Idle]
  /\ fetching = "idle"
  /\ size = 0
  /\ handed = {Root}
  /\ successes = [c \in Cone |-> 0]
  /\ seen = {}
  /\ raced = FALSE /\ orderly = FALSE

-----------------------------------------------------------------------------
(* The clients; they stop when the server is gone *)

Alive == server \in {"up", "stopping"}

\* A job begins to insert the neighbours of a fetched cone.
TakeCone(w, e) ==
  /\ Alive
  /\ expanding[w] = None
  /\ e \in handed
  /\ handed' = handed \ {e}
  /\ expanding' = [expanding EXCEPT ![w] = e]
  /\ todo' = [todo EXCEPT ![w] = NeighboursOf(e)]
  /\ UNCHANGED <<server, memory, pendings, files, git_cones, flush, call,
                 fetching, size, successes, seen, history>>

\* addMarkedCone() of the client: put is sent and awaited.
SendPut(w, c) ==
  /\ Alive
  /\ call[w] = Idle
  /\ c \in todo[w]
  /\ call' = [call EXCEPT ![w] = Put(c)]
  /\ todo' = [todo EXCEPT ![w] = @ \ {c}]
  /\ UNCHANGED <<server, memory, pendings, files, git_cones, flush, expanding,
                 fetching, size, handed, successes, seen, history>>

\* The answer of put reaches the worker.
ReceiveAnswer(w) ==
  /\ Alive
  /\ call[w].kind = "answer"
  /\ call' = [call EXCEPT ![w] = Idle]
  /\ successes' = IF call[w].new
                  THEN [successes EXCEPT ![call[w].cone] = @ + 1]
                  ELSE successes
  /\ UNCHANGED <<server, memory, pendings, files, git_cones, flush, expanding,
                 todo, fetching, size, handed, seen, history>>

\* endOfTransaction() of the client, once every neighbour is in.
SendFinish(w) ==
  /\ Alive
  /\ expanding[w] # None
  /\ call[w] = Idle
  /\ todo[w] = {}
  /\ call' = [call EXCEPT ![w] = Finish]
  /\ UNCHANGED <<server, memory, pendings, files, git_cones, flush, expanding,
                 todo, fetching, size, handed, successes, seen, history>>

\* unmarkCones(n) of the client.
SendGet(n) ==
  /\ Alive
  /\ fetching = "idle"
  /\ fetching' = "get"
  /\ size' = n
  /\ seen' = marked
  /\ UNCHANGED <<server, memory, pendings, files, git_cones, flush, workers,
                 handed, successes, history>>

\* saveConesPersistently() of the client, when no job is left; cones can be
\* left marked if the traversal was limited.
SendSave ==
  /\ Alive
  /\ fetching = "idle"
  /\ handed = {}
  /\ \A w \in Worker : expanding[w] = None
  /\ fetching' = "save"
  /\ UNCHANGED <<server, memory, pendings, files, git_cones, flush, workers,
                 size, handed, successes, seen, history>>

-----------------------------------------------------------------------------
(* The handlers of the server *)

\* The io thread waits for the next request.
Ready == Alive /\ flush["io"] = "done"

\* The handler uses the pending entries, which the destructor does too.
UsesPending == raced' = (raced \/ server = "stopping") /\ UNCHANGED orderly

\* Fault: retrieved cones are not looked up.
RetrievedNever(c) == FALSE

\* Is it a cone that get has handed out before?
Retrieved(c) == c \in unmarked

put(w) ==
  /\ Ready
  /\ call[w].kind = "put"
  /\ LET c == call[w].cone
     IN  IF Retrieved(c)
         THEN /\ call' = [call EXCEPT ![w] = Answer(c, FALSE)]
              /\ UNCHANGED <<marked, pending_marked, history>>
         ELSE /\ pending_marked' = pending_marked \cup {c}
              /\ marked' = marked \cup {c}
              /\ call' = [call EXCEPT ![w] = Answer(c, c \notin marked)]
              /\ UsesPending
  /\ UNCHANGED <<server, unmarked, pending_evolution, pending_unmarked, files,
                 git_cones, flush, expanding, todo, fetching, size, handed,
                 successes, seen>>

\* Fault: retrieved cones do not count.
RecordMarked(e) ==
  /\ pending_unmarked' = pending_unmarked \cup {e}
  /\ pending_evolution' = Append(pending_evolution, Cardinality(marked))

\* What finish records of the cone.
Record(e) ==
  /\ pending_unmarked' = pending_unmarked \cup {e}
  /\ pending_evolution' =
       Append(pending_evolution, Cardinality(unmarked) + Cardinality(marked))

\* If the last flush was 10 seconds ago, which may be so at any time, the
\* handler goes on to flushPending().
finish(w, overdue) ==
  /\ Ready
  /\ call[w] = Finish
  /\ Record(expanding[w])
  /\ UsesPending
  /\ flush' = IF overdue THEN [flush EXCEPT !["io"] = "evolution"] ELSE flush
  /\ call' = [call EXCEPT ![w] = Idle]
  /\ expanding' = [expanding EXCEPT ![w] = None]
  /\ UNCHANGED <<server, memory, pending_marked, files, git_cones, todo,
                 fetching, size, handed, successes, seen>>

\* Moves arbitrary marked cones, as the order of an unordered_set has it.
get(S) ==
  /\ Ready
  /\ fetching = "get"
  /\ Cardinality(S) <= size
  /\ Cardinality(S) < size => S = marked
  /\ unmarked' = unmarked \cup S
  /\ marked' = marked \ S
  /\ handed' = handed \cup S
  /\ fetching' = "idle"
  /\ size' = 0
  /\ seen' = {}
  /\ UNCHANGED <<server, pendings, files, git_cones, flush, workers,
                 successes, history>>

\* Writes the cones out.  The state of the stream is asked for before the
\* stream is flushed or closed: if the file cannot be written to its end, the
\* answer is false or, if only the buffered end of it is missing, true.
save(S) ==
  /\ Ready
  /\ fetching = "save"
  /\ git_cones' = S
  /\ fetching' \in {"saved", "failed"}
  /\ UNCHANGED <<server, memory, pendings, files, flush, workers, size, handed,
                 successes, seen, history>>

-----------------------------------------------------------------------------
(* flushPending(), write by write, on the io thread or in the destructor *)

\* Fault: the expanded cones are written before the cones found from them.
NextWriteSwapped(f) ==
  [evolution |-> "unmarked", unmarked |-> "marked", marked |-> "done"][f]

\* The order of the writes.
NextWrite(f) ==
  [evolution |-> "marked", marked |-> "unmarked", unmarked |-> "done"][f]

\* Thread t is at this write and goes on to the next.
Write(t, f) ==
  /\ Alive
  /\ flush[t] = f
  /\ flush' = [flush EXCEPT ![t] = NextWrite(f)]

FlushEvolution(t) ==
  /\ Write(t, "evolution")
  /\ fan_evolution' = fan_evolution \o pending_evolution
  /\ pending_evolution' = <<>>
  /\ UNCHANGED <<server, memory, pending_marked, pending_unmarked,
                 marked_cones, unmarked_cones, git_cones, clients, history>>

FlushMarked(t) ==
  /\ Write(t, "marked")
  /\ marked_cones' = marked_cones \cup pending_marked
  /\ pending_marked' = {}
  /\ UNCHANGED <<server, memory, pending_evolution, pending_unmarked,
                 fan_evolution, unmarked_cones, git_cones, clients, history>>

FlushUnmarked(t) ==
  /\ Write(t, "unmarked")
  /\ unmarked_cones' = unmarked_cones \cup pending_unmarked
  /\ pending_unmarked' = {}
  /\ UNCHANGED <<server, memory, pending_evolution, pending_marked,
                 fan_evolution, marked_cones, git_cones, clients, history>>

\* Undefined behaviour: an entry added while the other thread writes or clears
\* the entries may never be written.  (It may also crash: that is Kill.)
LoseEntries ==
  /\ Alive
  /\ raced
  /\ pending_evolution' \in {pending_evolution, <<>>}
  /\ pending_marked' \in {pending_marked, {}}
  /\ pending_unmarked' \in {pending_unmarked, {}}
  /\ UNCHANGED <<server, memory, files, git_cones, flush, clients, history>>

\* Fault: the destructor does not flush.
StopAtOnce ==
  /\ server = "up"
  /\ server' = "stopping"
  /\ raced' = (flush["io"] # "done")
  /\ orderly' = (fetching \in {"saved", "failed"})
  /\ UNCHANGED <<memory, pendings, files, git_cones, flush, clients>>

\* The destructor begins to flush, whatever the clients and the io thread do:
\* main() unwinds at its end and when something in it has thrown.
Stop ==
  /\ server = "up"
  /\ server' = "stopping"
  /\ flush' = [flush EXCEPT !["main"] = "evolution"]
  /\ raced' = (flush["io"] # "done")
  /\ orderly' = (fetching \in {"saved", "failed"})
  /\ UNCHANGED <<memory, pendings, files, git_cones, clients>>

\* The members are destroyed and with them the io thread is joined, the handler
\* it may run has come to its end.
Join ==
  /\ server = "stopping"
  /\ \A t \in Threads : flush[t] = "done"
  /\ server' = "down"
  /\ UNCHANGED <<memory, pendings, files, git_cones, flush, clients, history>>

\* The process is killed.
Kill ==
  /\ Alive
  /\ server' = "killed"
  /\ UNCHANGED <<memory, pendings, files, git_cones, flush, clients, history>>

\* Nothing happens once the server is gone.
Gone == server \in {"down", "killed"} /\ UNCHANGED vars

-----------------------------------------------------------------------------
Client ==
  \/ \E w \in Worker :
       \/ \E e \in handed : TakeCone(w, e)
       \/ \E c \in Cone : SendPut(w, c)
       \/ ReceiveAnswer(w)
       \/ SendFinish(w)
  \/ \E n \in 0..JobSize : SendGet(n)
  \/ SendSave

Handler ==
  \/ \E w \in Worker : put(w) \/ \E overdue \in BOOLEAN : finish(w, overdue)
  \/ \E S \in SUBSET marked : get(S)
  \/ \E S \in SUBSET (marked \cup unmarked) : save(S)

FlushPending ==
  \E t \in Threads : FlushEvolution(t) \/ FlushMarked(t) \/ FlushUnmarked(t)

Next ==
  \/ Client \/ Handler \/ FlushPending \/ LoseEntries
  \/ Stop \/ Join \/ Kill \/ Gone

Spec == Init /\ [][Next]_vars

-----------------------------------------------------------------------------
(* Properties *)

Found == marked \cup unmarked
Expanding == {expanding[w] : w \in Worker} \ {None}

\* The files are a consistent prefix of the traversal whenever the process is
\* killed or stopped, unless the threads raced: a cone recorded as expanded was
\* recorded as found, and so were all its neighbours.
LogsClosed ==
  ~ raced =>
    \A e \in unmarked_cones :
      /\ e = Root \/ e \in marked_cones
      /\ NeighboursOf(e) \subseteq marked_cones

\* The cones through endOfTransaction(), and the numbers of cones there were,
\* in the files and in memory.
Ended == unmarked_cones \cup pending_unmarked
Evolution == fan_evolution \o pending_evolution

\* Unless the threads raced, the evolution of the fan never shrinks, has one
\* entry for each cone that was expanded, each counting at least the cones
\* expanded before it, and its file is never behind the file of the expanded
\* cones.
EvolutionConsistent ==
  ~ raced =>
    /\ \A i \in 1..Len(Evolution) - 1 : Evolution[i] <= Evolution[i + 1]
    /\ \A i \in 1..Len(Evolution) : Evolution[i] + 1 >= i
    /\ Len(Evolution) = Cardinality(Ended)
    /\ Len(fan_evolution) >= Cardinality(unmarked_cones)

\* A stop after save was answered, and one in mid-traversal during which the
\* threads did not race, lose nothing: the logs hold every cone that was found
\* and every one that was expanded, not those that were only handed out.
NothingLostOnStop ==
  server = "down" /\ (orderly \/ ~ raced) =>
    /\ marked_cones = Found
    /\ unmarked_cones = (unmarked \cup {Root}) \ (handed \cup Expanding)
    /\ Len(fan_evolution) = Cardinality(unmarked_cones)

\* storage/rpc/server.hpp on Server: "NOT thread safe".  Its pending entries are
\* used by the io thread and by the thread of the destructor.
UsedByOneThread == ~ raced

\* The handlers, with requests and answers under way, keep the contract of
\* IConeStorage.  A job that asks for more cones than there are asks for all.
Contract ==
  INSTANCE ConeStorage WITH
    stored <- marked \cup unmarked,
    scanning <- fetching = "get",
    limit <- IF size <= Cardinality(Cone) THEN size ELSE Cardinality(Cone)

KeepsContract == Contract!Spec

-----------------------------------------------------------------------------
(* The inductive invariant *)

\* Every retrieved cone is in one place: not taken by a worker yet, expanded
\* by one worker, or through endOfTransaction().
ConeShape ==
  /\ marked \cap unmarked = {}
  /\ ~ raced =>
       /\ unmarked \cup {Root} = handed \cup Expanding \cup Ended
       /\ handed \cap (Expanding \cup Ended) = {}
       /\ Expanding \cap Ended = {}
       /\ unmarked_cones \cap pending_unmarked = {}
       /\ \A v, w \in Worker :
            v # w /\ expanding[v] # None => expanding[v] # expanding[w]

\* The cone a call is about.
CallOf(w) == IF call[w].kind = "put" THEN {call[w].cone} ELSE {}

\* A worker ends its transaction when all neighbours are found; of the answers
\* under way at most one says that a cone is new, and none has before.
WorkerShape ==
  /\ \A w \in Worker :
       /\ expanding[w] = None => todo[w] = {} /\ call[w] = Idle
       /\ expanding[w] # None =>
            NeighboursOf(expanding[w]) \subseteq Found \cup todo[w] \cup CallOf(w)
       /\ call[w] = Finish => todo[w] = {}
       /\ call[w].kind = "answer" /\ call[w].new =>
            call[w].cone \in Found /\ successes[call[w].cone] = 0
  /\ \A v, w \in Worker :
       /\ v # w
       /\ call[v].kind = "answer" /\ call[v].new
       /\ call[w].kind = "answer" /\ call[w].new
       => call[v].cone # call[w].cone
  /\ \A c \in Cone : successes[c] # 0 => c \in Found

\* The threads have not raced before the destructor runs, nor while the flush
\* of the io thread is under way: one thread at most writes.
ThreadShape ==
  /\ server = "up" => ~ raced /\ flush["main"] = "done"
  /\ server \in {"stopping", "down"} /\ ~ raced => flush["io"] = "done"
  /\ ~ raced => \E t \in Threads : flush[t] = "done"
  /\ server = "down" => flush["io"] = "done" /\ flush["main"] = "done"

\* What the logs and the pending entries hold together, and how far a flush,
\* finished or interrupted, has brought the logs.
LogShape ==
  ~ raced =>
    /\ Found = marked_cones \cup pending_marked
    /\ \A e \in Ended : NeighboursOf(e) \subseteq Found
    /\ \A t \in Threads :
         /\ flush[t] \in {"marked", "unmarked"} => pending_evolution = <<>>
         /\ flush[t] = "unmarked" => pending_marked = {}
    /\ (\A t \in Threads : flush[t] \in {"evolution", "done"}) =>
         Len(pending_evolution) = Cardinality(pending_unmarked)

\* No entry counts more cones than there are now.
EvolutionBounded ==
  ~ raced =>
    \A i \in 1..Len(Evolution) :
      Evolution[i] <= Cardinality(unmarked) + Cardinality(marked)

\* Nothing is found, fetched or expanded from the call of save on, and a stop
\* leaves nothing pending.
EndShape ==
  /\ fetching # "get" => size = 0 /\ seen = {}
  /\ seen \subseteq marked
  /\ fetching \in {"save", "saved", "failed"} => handed = {} /\ Expanding = {}
  /\ fetching \in {"saved", "failed"} /\ server = "up" => flush["io"] = "done"
  /\ orderly => ~ raced /\ fetching \in {"saved", "failed"}
  /\ server \in {"stopping", "down"} /\ flush["main"] = "done" /\ ~ raced =>
       /\ pending_evolution = <<>>
       /\ pending_marked = {}
       /\ pending_unmarked = {}

IInv ==
  /\ TypeOK
  /\ ConeShape
  /\ WorkerShape
  /\ ThreadShape
  /\ LogShape
  /\ LogsClosed
  /\ EvolutionConsistent
  /\ EvolutionBounded
  /\ EndShape
=============================================================================
