-------------------------- MODULE RpcServerProofs --------------------------
(***************************************************************************)
(* Proofs about RpcServer, for every fan, every number of workers and      *)
(* every job size: the logs are consistent whenever the server is killed,  *)
(* nothing is lost when it stops without a race, and its answers keep the  *)
(* contract.                                                               *)
(***************************************************************************)
EXTENDS RpcServer, FiniteSetTheorems, TLAPS

-----------------------------------------------------------------------------
(* Facts about states *)

\* What the call of a worker can be.
LEMMA CallTypes ==
  ASSUME TypeOK, NEW w \in Worker
  PROVE  /\ call[w].kind \in {"idle", "finish", "put", "answer"}
         /\ call[w].kind = "idle" <=> call[w] = Idle
         /\ call[w].kind = "finish" <=> call[w] = Finish
         /\ call[w].kind = "put" => call[w].cone \in Cone
         /\ call[w].kind = "answer" =>
              call[w].cone \in Cone /\ call[w].new \in BOOLEAN
  BY DEF TypeOK, Calls, Idle, Finish, Put, Answer

LEMMA ExpandingIs ==
  \A e : e \in Expanding <=> e # None /\ \E w \in Worker : expanding[w] = e
  BY DEF Expanding

LEMMA ExpandingIsNext ==
  \A e : e \in Expanding' <=> e # None /\ \E w \in Worker : expanding'[w] = e
  BY DEF Expanding

\* All sets of cones that are counted are finite.
LEMMA CountedFinite ==
  ASSUME TypeOK
  PROVE  /\ IsFiniteSet(marked) /\ Cardinality(marked) \in Nat
         /\ IsFiniteSet(unmarked) /\ Cardinality(unmarked) \in Nat
         /\ IsFiniteSet(pending_unmarked) /\ Cardinality(pending_unmarked) \in Nat
         /\ IsFiniteSet(unmarked_cones) /\ Cardinality(unmarked_cones) \in Nat
         /\ IsFiniteSet(Ended) /\ Cardinality(Ended) \in Nat
  <1>1. IsFiniteSet(Cone) /\ IsFiniteSet(Cone \cup {Root})
    BY RpcAssumption, FS_AddElement
  <1>2. Ended \in SUBSET (Cone \cup {Root})
    BY DEF TypeOK, Ended
  <1>3. /\ IsFiniteSet(marked) /\ IsFiniteSet(unmarked)
        /\ IsFiniteSet(pending_unmarked) /\ IsFiniteSet(unmarked_cones)
        /\ IsFiniteSet(Ended)
    BY <1>1, <1>2, FS_Subset DEF TypeOK
  <1> QED
    BY <1>3, FS_CardinalityType

\* Before any call nothing is found; the root is there to be expanded.
LEMMA InitIInv == Init => IInv
  <1> SUFFICES ASSUME Init PROVE IInv
    OBVIOUS
  <1>1. TypeOK
    <2>1. flush \in [Threads -> {"evolution", "marked", "unmarked", "done"}]
      BY DEF Init
    <2>2. call \in [Worker -> Calls]
      BY DEF Init, Calls
    <2>3. /\ todo \in [Worker -> SUBSET Cone]
          /\ expanding \in [Worker -> Cone \cup {Root, None}]
          /\ successes \in [Cone -> 0..1]
      BY DEF Init
    <2>4. pending_evolution \in Seq(Nat) /\ fan_evolution \in Seq(Nat)
      BY DEF Init
    <2>5. size \in 0..JobSize
      BY RpcAssumption DEF Init
    <2> QED
      BY <2>1, <2>2, <2>3, <2>4, <2>5 DEF Init, TypeOK
  <1>2. \A w \in Worker : expanding[w] = None /\ call[w] = Idle /\ todo[w] = {}
    BY DEF Init
  <1>3. Expanding = {} /\ Ended = {} /\ Found = {}
    BY <1>2 DEF Expanding, Ended, Found, Init
  <1>4. ConeShape
    BY <1>2, <1>3 DEF ConeShape, Init
  <1>5. WorkerShape
    BY <1>2 DEF WorkerShape, Init, Idle, Finish
  <1>6. Cardinality({}) = 0
    BY FS_EmptySet
  <1>7. ThreadShape /\ LogShape /\ LogsClosed /\ EndShape
    BY <1>3, <1>6 DEF ThreadShape, LogShape, LogsClosed, EndShape, Init, Threads
  <1>8. Evolution = <<>>
    BY DEF Evolution, Init
  <1>9. EvolutionConsistent /\ EvolutionBounded
    BY <1>3, <1>6, <1>8 DEF EvolutionConsistent, EvolutionBounded, Init
  <1> QED
    BY <1>1, <1>4, <1>5, <1>7, <1>9 DEF IInv

-----------------------------------------------------------------------------
(* The clients *)

\* What is found, logged and counted does not change while the server does
\* nothing to its memory and its files.
LEMMA ServerUnchanged ==
  ASSUME IInv, UNCHANGED <<server, memory, pendings, files, flush, history>>
  PROVE  /\ Found' = Found /\ Ended' = Ended /\ ThreadShape'
         /\ LogShape' /\ LogsClosed' /\ EvolutionConsistent' /\ EvolutionBounded'
  <1> USE DEF IInv, memory, pendings, files, history
  <1>1. Found' = Found /\ Ended' = Ended /\ Evolution' = Evolution
    BY DEF Found, Ended, Evolution
  <1>2. ThreadShape' /\ LogShape' /\ LogsClosed'
    BY <1>1 DEF ThreadShape, LogShape, LogsClosed, NeighboursOf
  <1>3. EvolutionConsistent' /\ EvolutionBounded'
    BY <1>1 DEF EvolutionConsistent, EvolutionBounded
  <1> QED
    BY <1>1, <1>2, <1>3

\* The cone goes from those handed out to those expanded.
LEMMA TakeConePreserves ==
  ASSUME IInv, NEW w \in Worker, NEW e \in handed, TakeCone(w, e)
  PROVE  IInv'
  <1> USE DEF IInv
  <1>1. UNCHANGED <<server, memory, pendings, files, flush, history>>
    BY DEF TakeCone
  <1>2. e \in Cone \cup {Root} /\ e # None
    BY RpcAssumption DEF TypeOK
  <1>3. NeighboursOf(e) \in SUBSET Cone
    BY <1>2, RpcAssumption DEF NeighboursOf
  <1>4. /\ expanding' = [expanding EXCEPT ![w] = e]
        /\ todo' = [todo EXCEPT ![w] = NeighboursOf(e)]
        /\ handed' = handed \ {e}
        /\ call' = call /\ successes' = successes
        /\ expanding[w] = None
    BY DEF TakeCone
  <1>5. /\ expanding'[w] = e
        /\ \A v \in Worker \ {w} : expanding'[v] = expanding[v]
        /\ todo'[w] = NeighboursOf(e)
        /\ \A v \in Worker \ {w} : todo'[v] = todo[v]
    BY <1>4 DEF TypeOK
  <1>6. TypeOK'
    <2>1. expanding' \in [Worker -> Cone \cup {Root, None}]
      BY <1>2, <1>4 DEF TypeOK
    <2>2. todo' \in [Worker -> SUBSET Cone]
      BY <1>3, <1>4 DEF TypeOK
    <2> QED
      BY <2>1, <2>2 DEF TypeOK, TakeCone, memory, pendings, files, history
  <1>7. Expanding' = Expanding \cup {e}
    <2>1. \A x : x \in Expanding' <=> x \in Expanding \/ x = e
      BY <1>2, <1>4, <1>5, ExpandingIs, ExpandingIsNext
    <2> QED
      BY <2>1
  <1>8. ~ raced => e \notin Expanding /\ e \notin Ended
    BY DEF ConeShape
  <1>9. ~ raced => \A v \in Worker : expanding[v] # e
    BY <1>2, <1>8, ExpandingIs
  <1>10. ConeShape'
    <2>1. unmarked' = unmarked /\ marked' = marked /\ Ended' = Ended
          /\ unmarked_cones' = unmarked_cones /\ pending_unmarked' = pending_unmarked
          /\ raced' = raced
      BY <1>1 DEF memory, pendings, files, history, Ended
    <2>2. ~ raced => \A u, v \in Worker :
            u # v /\ expanding'[u] # None => expanding'[u] # expanding'[v]
      BY <1>5, <1>9 DEF ConeShape
    <2> QED
      BY <1>4, <1>7, <1>8, <2>1, <2>2 DEF ConeShape
  <1>11. Found' = Found
    BY <1>1, ServerUnchanged
  <1>12. WorkerShape'
    <2>1. call[w] = Idle
      BY <1>4 DEF WorkerShape
    <2>2. \A v \in Worker : CallOf(v)' = CallOf(v)
      BY <1>4 DEF CallOf
    <2>3. \A x : NeighboursOf(x)' = NeighboursOf(x)
      BY DEF NeighboursOf
    <2>4. call[w] # Finish
      BY <2>1 DEF Idle, Finish
    <2>5. \A v \in Worker :
       /\ expanding'[v] = None => todo'[v] = {} /\ call'[v] = Idle
       /\ expanding'[v] # None =>
            NeighboursOf(expanding'[v]) \subseteq Found \cup todo'[v] \cup CallOf(v)
       /\ call'[v] = Finish => todo'[v] = {}
      BY <1>2, <1>4, <1>5, <2>1, <2>4 DEF WorkerShape
    <2> QED
      BY <1>4, <1>11, <2>2, <2>3, <2>5 DEF WorkerShape
  <1>13. EndShape'
    BY <1>1, <1>4, <1>11 DEF EndShape, TakeCone, memory, pendings, history
  <1> QED
    BY <1>1, <1>6, <1>10, <1>12, <1>13, ServerUnchanged

\* Where the cones are depends on the memory, the pending entries, the files,
\* those handed out and those under expansion only.
LEMMA ConesUnchanged ==
  ASSUME IInv, UNCHANGED <<memory, pendings, files, handed, expanding, history>>
  PROVE  ConeShape' /\ Expanding' = Expanding
  <1>1. Ended' = Ended /\ Expanding' = Expanding
    BY DEF Ended, Expanding, pendings, files
  <1> QED
    BY <1>1 DEF IInv, ConeShape, memory, pendings, files, history

\* A worker asks for a neighbour that it has not put yet.
LEMMA SendPutPreserves ==
  ASSUME IInv, NEW w \in Worker, NEW c \in Cone, SendPut(w, c)
  PROVE  IInv'
  <1> USE DEF IInv
  <1>1. UNCHANGED <<server, memory, pendings, files, flush, history, handed,
                   expanding>>
    BY DEF SendPut
  <1>2. /\ call' = [call EXCEPT ![w] = Put(c)]
        /\ todo' = [todo EXCEPT ![w] = @ \ {c}]
        /\ call[w] = Idle /\ c \in todo[w]
        /\ successes' = successes
    BY DEF SendPut
  <1>3. /\ call'[w] = Put(c)
        /\ todo'[w] = todo[w] \ {c}
        /\ \A v \in Worker \ {w} : call'[v] = call[v] /\ todo'[v] = todo[v]
    BY <1>2 DEF TypeOK
  <1>4. TypeOK'
    <2>1. call' \in [Worker -> Calls]
      BY <1>2 DEF TypeOK, Calls
    <2>2. todo' \in [Worker -> SUBSET Cone]
      BY <1>2 DEF TypeOK
    <2> QED
      BY <2>1, <2>2 DEF TypeOK, SendPut, memory, pendings, files, history
  <1>5. Found' = Found /\ Expanding' = Expanding
    BY <1>1, ServerUnchanged, ConesUnchanged
  <1>6. WorkerShape'
    <2>1. /\ call[w].kind = "idle" /\ call'[w].kind = "put"
          /\ call'[w].cone = c /\ call'[w] # Finish
      BY <1>2, <1>3 DEF Idle, Put, Finish
    <2>2. expanding[w] # None
      BY <1>2 DEF WorkerShape
    <2>3. CallOf(w) = {} /\ CallOf(w)' = {c}
      BY <2>1 DEF CallOf
    <2>4. \A v \in Worker \ {w} : CallOf(v)' = CallOf(v)
      BY <1>3 DEF CallOf
    <2>5. \A v \in Worker :
       /\ expanding[v] = None => todo'[v] = {} /\ call'[v] = Idle
       /\ expanding[v] # None =>
            NeighboursOf(expanding[v]) \subseteq Found \cup todo'[v] \cup CallOf(v)'
       /\ call'[v] = Finish => todo'[v] = {}
      BY <1>3, <2>1, <2>2, <2>3, <2>4 DEF WorkerShape
    <2>6. \A v \in Worker : call'[v].kind = "answer" => v # w /\ call'[v] = call[v]
      BY <1>3, <2>1
    <2> QED
      BY <1>1, <1>2, <1>5, <2>5, <2>6 DEF WorkerShape, NeighboursOf
  <1>7. EndShape'
    BY <1>1, <1>5 DEF EndShape, SendPut, memory, pendings, history
  <1> QED
    BY <1>1, <1>4, <1>6, <1>7, ServerUnchanged, ConesUnchanged

\* The first answer for a cone that says it is new, and the last one.
LEMMA ReceiveAnswerPreserves ==
  ASSUME IInv, NEW w \in Worker, ReceiveAnswer(w)
  PROVE  IInv'
  <1> USE DEF IInv
  <1> DEFINE c == call[w].cone
  <1>1. UNCHANGED <<server, memory, pendings, files, flush, history, handed,
                   expanding>>
    BY DEF ReceiveAnswer
  <1>2. /\ call' = [call EXCEPT ![w] = Idle]
        /\ call[w].kind = "answer" /\ todo' = todo
        /\ c \in Cone /\ call[w].new \in BOOLEAN
    BY CallTypes DEF ReceiveAnswer
  <1>3. /\ call'[w] = Idle /\ call'[w].kind = "idle"
        /\ \A v \in Worker \ {w} : call'[v] = call[v]
    BY <1>2 DEF TypeOK, Idle
  <1>4. /\ \A d \in Cone : successes'[d] =
             IF call[w].new /\ d = c THEN 1 ELSE successes[d]
        /\ successes' \in [Cone -> 0..1]
    <2>1. CASE call[w].new
      <3>1. successes[c] = 0
        BY <1>2, <2>1 DEF WorkerShape
      <3>2. successes' = [successes EXCEPT ![c] = @ + 1]
        BY <2>1 DEF ReceiveAnswer
      <3> QED
        BY <1>2, <2>1, <3>1, <3>2 DEF TypeOK
    <2>2. CASE ~ call[w].new
      BY <2>2 DEF ReceiveAnswer, TypeOK
    <2> QED
      BY <1>2, <2>1, <2>2
  <1>5. TypeOK'
    <2>1. call' \in [Worker -> Calls]
      <3>1. Idle \in Calls
        BY DEF Calls
      <3> QED
        BY <1>2, <3>1 DEF TypeOK
    <2> QED
      BY <1>4, <2>1 DEF TypeOK, ReceiveAnswer, memory, pendings, files, history
  <1>6. Found' = Found /\ Expanding' = Expanding
    BY <1>1, ServerUnchanged, ConesUnchanged
  <1>7. WorkerShape'
    <2>1. \A v \in Worker : CallOf(v)' = CallOf(v)
      BY <1>2, <1>3 DEF CallOf
    <2>2. call'[w] # Finish /\ call[w] # Idle
      BY <1>2, <1>3 DEF Idle, Finish
    <2>3. \A v \in Worker :
       /\ expanding[v] = None => todo[v] = {} /\ call'[v] = Idle
       /\ expanding[v] # None =>
            NeighboursOf(expanding[v]) \subseteq Found \cup todo[v] \cup CallOf(v)'
       /\ call'[v] = Finish => todo[v] = {}
      BY <1>3, <2>1, <2>2 DEF WorkerShape
    <2>4. \A v \in Worker :
            call'[v].kind = "answer" /\ call'[v].new =>
              /\ v # w /\ call'[v] = call[v]
              /\ call[v].cone \in Cone /\ call[v].cone \in Found
              /\ successes[call[v].cone] = 0
              /\ call[w].new => call[v].cone # c
      BY <1>2, <1>3, CallTypes DEF WorkerShape
    <2>5. \A v \in Worker :
            call'[v].kind = "answer" /\ call'[v].new =>
              call'[v].cone \in Found /\ successes'[call'[v].cone] = 0
      BY <1>4, <2>4
    <2>6. \A u, v \in Worker :
            /\ u # v
            /\ call'[u].kind = "answer" /\ call'[u].new
            /\ call'[v].kind = "answer" /\ call'[v].new
            => call'[u].cone # call'[v].cone
      BY <2>4 DEF WorkerShape
    <2>7. \A d \in Cone : successes'[d] # 0 => d \in Found
      BY <1>2, <1>4 DEF WorkerShape
    <2> QED
      BY <1>1, <1>2, <1>6, <2>3, <2>5, <2>6, <2>7 DEF WorkerShape, NeighboursOf
  <1>8. EndShape'
    BY <1>1, <1>6 DEF EndShape, ReceiveAnswer, memory, pendings, history
  <1> QED
    BY <1>1, <1>5, <1>7, <1>8, ServerUnchanged, ConesUnchanged

\* All neighbours were put and answered.
LEMMA SendFinishPreserves ==
  ASSUME IInv, NEW w \in Worker, SendFinish(w)
  PROVE  IInv'
  <1> USE DEF IInv
  <1>1. UNCHANGED <<server, memory, pendings, files, flush, history, handed,
                   expanding>>
    BY DEF SendFinish
  <1>2. /\ call' = [call EXCEPT ![w] = Finish]
        /\ expanding[w] # None /\ call[w] = Idle /\ todo[w] = {}
        /\ todo' = todo /\ successes' = successes
    BY DEF SendFinish
  <1>3. /\ call'[w] = Finish /\ call'[w].kind = "finish" /\ call[w].kind = "idle"
        /\ \A v \in Worker \ {w} : call'[v] = call[v]
    BY <1>2 DEF TypeOK, Idle, Finish
  <1>4. TypeOK'
    <2>1. call' \in [Worker -> Calls]
      BY <1>2 DEF TypeOK, Calls
    <2> QED
      BY <2>1 DEF TypeOK, SendFinish, memory, pendings, files, history
  <1>5. Found' = Found /\ Expanding' = Expanding
    BY <1>1, ServerUnchanged, ConesUnchanged
  <1>6. WorkerShape'
    <2>1. \A v \in Worker : CallOf(v)' = CallOf(v)
      BY <1>2, <1>3 DEF CallOf
    <2>2. \A v \in Worker :
       /\ expanding[v] = None => todo[v] = {} /\ call'[v] = Idle
       /\ expanding[v] # None =>
            NeighboursOf(expanding[v]) \subseteq Found \cup todo[v] \cup CallOf(v)'
       /\ call'[v] = Finish => todo[v] = {}
      BY <1>2, <1>3, <2>1 DEF WorkerShape
    <2>3. \A v \in Worker : call'[v].kind = "answer" => v # w /\ call'[v] = call[v]
      BY <1>3
    <2> QED
      BY <1>1, <1>2, <1>5, <2>2, <2>3 DEF WorkerShape, NeighboursOf
  <1>7. EndShape'
    BY <1>1, <1>5 DEF EndShape, SendFinish, memory, pendings, history
  <1> QED
    BY <1>1, <1>4, <1>6, <1>7, ServerUnchanged, ConesUnchanged

LEMMA WorkersUnchanged ==
  ASSUME IInv, UNCHANGED <<memory, workers, successes>>
  PROVE  WorkerShape'
  <1>1. Found' = Found
    BY DEF Found, memory
  <1>2. \A w \in Worker : CallOf(w)' = CallOf(w)
    BY DEF CallOf, workers
  <1> QED
    BY <1>1, <1>2 DEF IInv, WorkerShape, workers, NeighboursOf

LEMMA SendGetPreserves ==
  ASSUME IInv, NEW n \in 0..JobSize, SendGet(n)
  PROVE  IInv'
  <1> USE DEF IInv
  <1>1. /\ UNCHANGED <<server, memory, pendings, files, flush, history>>
        /\ UNCHANGED <<handed, expanding, workers, successes>>
    BY DEF SendGet, workers
  <1>2. TypeOK'
    BY DEF TypeOK, SendGet, memory, pendings, files, history, workers
  <1>3. Found' = Found /\ Expanding' = Expanding
    BY <1>1, ServerUnchanged, ConesUnchanged
  <1>4. EndShape'
    BY <1>1, <1>3 DEF EndShape, SendGet, memory, pendings, history
  <1> QED
    BY <1>1, <1>2, <1>4, ServerUnchanged, ConesUnchanged, WorkersUnchanged

\* Cones are saved when nobody expands any more.
LEMMA SendSavePreserves ==
  ASSUME IInv, SendSave
  PROVE  IInv'
  <1> USE DEF IInv
  <1>1. /\ UNCHANGED <<server, memory, pendings, files, flush, history>>
        /\ UNCHANGED <<handed, expanding, workers, successes>>
    BY DEF SendSave, workers
  <1>2. TypeOK'
    BY DEF TypeOK, SendSave, memory, pendings, files, history, workers
  <1>3. Found' = Found /\ Expanding' = Expanding
    BY <1>1, ServerUnchanged, ConesUnchanged
  <1>4. Expanding = {} /\ handed = {}
    BY DEF SendSave, Expanding
  <1>5. EndShape'
    BY <1>1, <1>3, <1>4 DEF EndShape, SendSave, memory, pendings, history
  <1> QED
    BY <1>1, <1>2, <1>5, ServerUnchanged, ConesUnchanged, WorkersUnchanged

-----------------------------------------------------------------------------
(* The handlers *)

\* A cone that was retrieved is answered with false and changes nothing; the
\* first put of a cone is answered with true.
LEMMA PutPreserves ==
  ASSUME IInv, NEW w \in Worker, put(w)
  PROVE  IInv'
  <1> USE DEF IInv
  <1> DEFINE c == call[w].cone
             new == c \notin Found
  <1>1. /\ call[w].kind = "put" /\ c \in Cone
        /\ todo' = todo /\ successes' = successes /\ expanding' = expanding
    BY CallTypes DEF put
  <1>2. /\ call' = [call EXCEPT ![w] = Answer(c, new)]
        /\ marked' = IF c \in unmarked THEN marked ELSE marked \cup {c}
        /\ unmarked' = unmarked
        /\ pending_marked' = IF c \in unmarked THEN pending_marked
                             ELSE pending_marked \cup {c}
        /\ UNCHANGED <<server, pending_evolution, pending_unmarked, files,
                       git_cones, flush, fetching, size, handed, seen, orderly>>
    <2>1. CASE c \in unmarked
      <3>1. new = FALSE
        BY <2>1 DEF Found
      <3> QED
        BY <2>1, <3>1 DEF put, Retrieved, history
    <2>2. CASE c \notin unmarked
      <3>1. new = (c \notin marked)
        BY <2>2 DEF Found
      <3> QED
        BY <2>2, <3>1 DEF put, Retrieved, UsesPending
    <2> QED
      BY <2>1, <2>2
  <1>17. /\ raced' \in BOOLEAN
         /\ raced' => raced \/ server = "stopping"
         /\ raced => raced'
         /\ c \notin unmarked /\ server = "stopping" => raced'
         /\ flush["io"] = "done" /\ server \in {"up", "stopping"}
    BY DEF put, Retrieved, UsesPending, Ready, Alive, history, TypeOK
  <1> HIDE DEF new
  <1>3. new \in BOOLEAN /\ (new <=> c \notin Found)
    BY DEF new
  <1>4. /\ call'[w] = Answer(c, new)
        /\ call'[w].kind = "answer" /\ call'[w].cone = c /\ call'[w].new = new
        /\ call'[w] # Finish /\ call[w] # Idle /\ call[w] # Finish
        /\ \A v \in Worker \ {w} : call'[v] = call[v]
    BY <1>1, <1>2 DEF TypeOK, Answer, Finish, Idle
  <1>5. Found' = Found \cup {c}
    BY <1>2 DEF Found
  <1>6. TypeOK'
    <2>1. Answer(c, new) \in Calls
      BY <1>1, <1>3 DEF Calls
    <2>2. call' \in [Worker -> Calls]
      BY <1>2, <2>1 DEF TypeOK
    <2>3. marked' \in SUBSET Cone /\ pending_marked' \in SUBSET Cone
      BY <1>1, <1>2 DEF TypeOK
    <2> QED
      BY <1>1, <1>2, <1>17, <2>2, <2>3 DEF TypeOK, files
  <1>7. expanding[w] # None
    BY <1>4 DEF WorkerShape
  <1>8. Expanding' = Expanding /\ Ended' = Ended /\ expanding[w] \in Expanding
    BY <1>1, <1>2, <1>7 DEF Expanding, Ended, files
  <1>9. ConeShape'
    BY <1>1, <1>2, <1>8, <1>17 DEF ConeShape, files
  <1>10. WorkerShape'
    <2>1. \A v \in Worker \ {w} : CallOf(v)' = CallOf(v)
      BY <1>4 DEF CallOf
    <2>2. CallOf(w) = {c}
      BY <1>1 DEF CallOf
    <2>3. \A v \in Worker :
       /\ expanding[v] = None => todo[v] = {} /\ call'[v] = Idle
       /\ expanding[v] # None =>
            NeighboursOf(expanding[v]) \subseteq Found' \cup todo[v] \cup CallOf(v)'
       /\ call'[v] = Finish => todo[v] = {}
      BY <1>4, <1>5, <1>7, <2>1, <2>2 DEF WorkerShape
    <2>4. \A v \in Worker \ {w} :
            call'[v].kind = "answer" /\ call'[v].new =>
              /\ call[v].cone \in Found
              /\ successes[call[v].cone] = 0
      BY <1>4 DEF WorkerShape
    <2>5. c \notin Found => successes[c] = 0
      BY <1>1 DEF WorkerShape
    <2>6. \A v \in Worker :
            call'[v].kind = "answer" /\ call'[v].new =>
              call'[v].cone \in Found' /\ successes[call'[v].cone] = 0
      BY <1>3, <1>4, <1>5, <2>4, <2>5
    <2>7. \A u, v \in Worker :
            /\ u # v
            /\ call'[u].kind = "answer" /\ call'[u].new
            /\ call'[v].kind = "answer" /\ call'[v].new
            => call'[u].cone # call'[v].cone
      BY <1>3, <1>4, <2>4 DEF WorkerShape
    <2> QED
      BY <1>1, <1>5, <2>3, <2>6, <2>7 DEF WorkerShape, NeighboursOf
  <1>11. LogShape'
    <2>1. c \in unmarked => c \in Found
      BY DEF Found
    <2>2. c \notin unmarked /\ ~ raced' => \A t \in Threads : flush[t] = "done"
      BY <1>17 DEF ThreadShape, Threads
    <2> QED
      BY <1>1, <1>2, <1>5, <1>8, <1>17, <2>1, <2>2 DEF LogShape, files,
         NeighboursOf
  <1>12. LogsClosed'
    BY <1>2, <1>17 DEF LogsClosed, files, NeighboursOf
  <1>13. Evolution' = Evolution
    BY <1>2 DEF Evolution, files
  <1>14. EvolutionConsistent'
    BY <1>2, <1>8, <1>13, <1>17 DEF EvolutionConsistent, files
  <1>15. EvolutionBounded'
    <2>1. Cardinality(marked) <= Cardinality(marked') /\ Cardinality(marked') \in Nat
      <3>1. Cardinality(marked \cup {c}) =
              IF c \in marked THEN Cardinality(marked) ELSE Cardinality(marked) + 1
        BY CountedFinite, FS_AddElement
      <3> QED
        BY <1>2, <3>1, CountedFinite
    <2>2. \A i \in 1..Len(Evolution) : Evolution[i] \in Nat
      BY DEF Evolution, TypeOK
    <2> QED
      BY <1>2, <1>13, <1>17, <2>1, <2>2, CountedFinite DEF EvolutionBounded
  <1>16. EndShape'
    BY <1>1, <1>2, <1>8, <1>17 DEF EndShape
  <1>18. ThreadShape'
    BY <1>2, <1>17 DEF ThreadShape
  <1> QED
    BY <1>6, <1>9, <1>10, <1>11, <1>12, <1>14, <1>15, <1>16, <1>18

\* The handler takes the cone from the worker, which waits for nothing then.
LEMMA FinishStep ==
  ASSUME IInv, NEW w \in Worker, NEW overdue \in BOOLEAN, finish(w, overdue)
  PROVE  LET e == expanding[w] IN
         /\ e # None /\ e \in Cone \cup {Root} /\ e \in Expanding
         /\ todo[w] = {} /\ CallOf(w) = {} /\ NeighboursOf(e) \subseteq Found
         /\ Found' = Found /\ Ended' = Ended \cup {e}
         /\ call'[w] = Idle /\ call'[w].kind = "idle" /\ expanding'[w] = None
         /\ \A v \in Worker \ {w} :
              call'[v] = call[v] /\ expanding'[v] = expanding[v]
         /\ Expanding' \subseteq Expanding
         /\ raced' \in BOOLEAN
         /\ raced' <=> raced \/ server = "stopping"
         /\ orderly' = orderly
         /\ server' = server /\ server \in {"up", "stopping"}
         /\ flush["io"] = "done"
         /\ flush' \in {flush, [flush EXCEPT !["io"] = "evolution"]}
  <1> USE DEF IInv
  <1> DEFINE e == expanding[w]
  <1>1. /\ call[w] = Finish /\ call[w].kind = "finish"
        /\ call' = [call EXCEPT ![w] = Idle]
        /\ expanding' = [expanding EXCEPT ![w] = None]
        /\ pending_unmarked' = pending_unmarked \cup {e}
        /\ UNCHANGED <<memory, files>>
    BY DEF finish, Record, Finish
  <1>2. /\ call'[w] = Idle /\ call'[w].kind = "idle"
        /\ expanding'[w] = None
        /\ \A v \in Worker \ {w} :
             call'[v] = call[v] /\ expanding'[v] = expanding[v]
    BY <1>1 DEF TypeOK, Idle
  <1>3. e # None /\ todo[w] = {} /\ CallOf(w) = {}
    BY <1>1 DEF WorkerShape, Idle, Finish, CallOf
  <1>4. e \in Cone \cup {Root} /\ e \in Expanding
    BY <1>3 DEF TypeOK, Expanding
  <1>5. NeighboursOf(e) \subseteq Found
    BY <1>3 DEF WorkerShape
  <1>6. Found' = Found /\ Ended' = Ended \cup {e}
    BY <1>1 DEF Found, Ended, memory, files
  <1>7. Expanding' \subseteq Expanding
    BY <1>2, ExpandingIs, ExpandingIsNext
  <1>8. /\ raced' \in BOOLEAN /\ (raced' <=> raced \/ server = "stopping")
        /\ orderly' = orderly
        /\ server' = server /\ server \in {"up", "stopping"}
        /\ flush["io"] = "done"
        /\ flush' \in {flush, [flush EXCEPT !["io"] = "evolution"]}
    BY DEF finish, UsesPending, Ready, Alive, TypeOK
  <1> QED
    BY <1>2, <1>3, <1>4, <1>5, <1>6, <1>7, <1>8

\* Whatever the other thread does, the worker is free for another cone.
LEMMA FinishClients ==
  ASSUME IInv, NEW w \in Worker, NEW overdue \in BOOLEAN, finish(w, overdue)
  PROVE  TypeOK' /\ WorkerShape' /\ ThreadShape' /\ EndShape'
  <1> USE DEF IInv
  <1> DEFINE e == expanding[w]
             n == Cardinality(unmarked) + Cardinality(marked)
  <1>1. /\ call' = [call EXCEPT ![w] = Idle]
        /\ expanding' = [expanding EXCEPT ![w] = None]
        /\ pending_unmarked' = pending_unmarked \cup {e}
        /\ pending_evolution' = Append(pending_evolution, n)
        /\ UNCHANGED <<memory, pending_marked, files, git_cones, todo,
                       fetching, size, handed, successes, seen>>
    BY DEF finish, Record
  <1>2. n \in Nat
    BY CountedFinite
  <1> HIDE DEF n
  <1>3. /\ e # None /\ e \in Cone \cup {Root} /\ e \in Expanding
        /\ todo[w] = {} /\ CallOf(w) = {} /\ Found' = Found
        /\ call'[w] = Idle /\ call'[w].kind = "idle" /\ expanding'[w] = None
        /\ \A v \in Worker \ {w} :
             call'[v] = call[v] /\ expanding'[v] = expanding[v]
    BY FinishStep
  <1>4. /\ Expanding' \subseteq Expanding
        /\ raced' \in BOOLEAN /\ (raced' <=> raced \/ server = "stopping")
        /\ orderly' = orderly
        /\ server' = server /\ server \in {"up", "stopping"}
        /\ flush["io"] = "done"
        /\ flush' \in {flush, [flush EXCEPT !["io"] = "evolution"]}
    BY FinishStep
  <1>5. TypeOK'
    <2>1. call' \in [Worker -> Calls]
      <3>1. Idle \in Calls
        BY DEF Calls
      <3> QED
        BY <1>1, <3>1 DEF TypeOK
    <2>2. expanding' \in [Worker -> Cone \cup {Root, None}]
      BY <1>1 DEF TypeOK
    <2>3. pending_evolution' \in Seq(Nat)
      BY <1>1, <1>2 DEF TypeOK
    <2>4. flush' \in [Threads -> {"evolution", "marked", "unmarked", "done"}]
      BY <1>4 DEF TypeOK
    <2> QED
      BY <1>1, <1>3, <1>4, <2>1, <2>2, <2>3, <2>4 DEF TypeOK, memory, files
  <1>6. WorkerShape'
    <2>1. \A v \in Worker : CallOf(v)' = CallOf(v)
      BY <1>1, <1>3 DEF CallOf
    <2>2. \A v \in Worker :
       /\ expanding'[v] = None => todo[v] = {} /\ call'[v] = Idle
       /\ expanding'[v] # None =>
            NeighboursOf(expanding'[v]) \subseteq Found \cup todo[v] \cup CallOf(v)'
       /\ call'[v] = Finish => todo[v] = {}
      BY <1>3, <2>1 DEF WorkerShape
    <2>3. \A v \in Worker : call'[v].kind = "answer" => v # w /\ call'[v] = call[v]
      BY <1>3
    <2> QED
      BY <1>1, <1>3, <2>2, <2>3 DEF WorkerShape, NeighboursOf
  <1>7. ThreadShape'
    <2>1. flush'["main"] = flush["main"]
      BY <1>4 DEF TypeOK, Threads
    <2> QED
      BY <1>4, <2>1 DEF ThreadShape, Threads
  <1>8. EndShape'
    BY <1>1, <1>3, <1>4 DEF EndShape, memory
  <1> QED
    BY <1>5, <1>6, <1>7, <1>8

\* The new entry counts every cone there is, so that it is not below any entry
\* before it, and there is one entry for each cone that was expanded.
LEMMA FinishLogs ==
  ASSUME IInv, NEW w \in Worker, NEW overdue \in BOOLEAN, finish(w, overdue),
         ~ raced'
  PROVE  /\ ConeShape' /\ LogShape' /\ LogsClosed'
         /\ EvolutionConsistent' /\ EvolutionBounded'
  <1> USE DEF IInv
  <1> DEFINE e == expanding[w]
             n == Cardinality(unmarked) + Cardinality(marked)
  <1>1. /\ expanding' = [expanding EXCEPT ![w] = None]
        /\ pending_unmarked' = pending_unmarked \cup {e}
        /\ pending_evolution' = Append(pending_evolution, n)
        /\ UNCHANGED <<memory, pending_marked, files, handed>>
    BY DEF finish, Record
  <1>2. ~ raced /\ server = "up" /\ \A t \in Threads : flush[t] = "done"
    <2>1. ~ raced /\ server = "up" /\ flush["io"] = "done"
      BY FinishStep
    <2> QED
      BY <2>1 DEF ThreadShape, Threads
  <1>3. /\ expanding'[w] = None
        /\ \A v \in Worker \ {w} : expanding'[v] = expanding[v]
    BY FinishStep
  <1>4. \A t \in Threads : flush'[t] \in {"evolution", "done"}
    <2>1. flush' \in {flush, [flush EXCEPT !["io"] = "evolution"]}
      BY FinishStep
    <2> QED
      BY <1>2, <2>1 DEF TypeOK
  <1>5. e # None /\ e \in Cone \cup {Root} /\ e \in Expanding
    BY FinishStep
  <1>6. e \notin Ended /\ e \notin handed /\ e \in unmarked \cup {Root}
    BY <1>2, <1>5 DEF ConeShape
  <1>7. NeighboursOf(e) \subseteq Found
    BY FinishStep
  <1>8. Found' = Found /\ Ended' = Ended \cup {e}
    BY FinishStep
  <1>9. n \in Nat
    BY CountedFinite
  <1> HIDE DEF n
  <1>11. \A v \in Worker \ {w} : expanding[v] # e
    BY <1>2, <1>5 DEF ConeShape
  <1>12. Expanding' = Expanding \ {e}
    <2>1. \A x : x \in Expanding' <=> x \in Expanding /\ x # e
      BY <1>3, <1>5, <1>11, ExpandingIs, ExpandingIsNext
    <2> QED
      BY <2>1
  <1>13. ConeShape'
    <2>1. \A u, v \in Worker :
            u # v /\ expanding'[u] # None => expanding'[u] # expanding'[v]
      BY <1>2, <1>3 DEF ConeShape
    <2>2. unmarked_cones \cap pending_unmarked' = {}
      BY <1>1, <1>2, <1>6 DEF ConeShape, Ended
    <2> QED
      BY <1>1, <1>2, <1>5, <1>6, <1>8, <1>12, <2>1, <2>2 DEF ConeShape, memory, files
  <1>15. Cardinality(pending_unmarked') = Cardinality(pending_unmarked) + 1
    BY <1>1, <1>6, CountedFinite, FS_AddElement DEF Ended
  <1>16. Cardinality(Ended') = Cardinality(Ended) + 1
    BY <1>6, <1>8, CountedFinite, FS_AddElement
  <1>17. LogShape'
    <2>1. Len(pending_evolution') = Len(pending_evolution) + 1
      BY <1>1, <1>9 DEF TypeOK
    <2>2. Len(pending_evolution) = Cardinality(pending_unmarked)
      BY <1>2 DEF LogShape, Threads
    <2>3. \A x \in Ended' : NeighboursOf(x)' \subseteq Found'
      BY <1>2, <1>7, <1>8 DEF LogShape, NeighboursOf
    <2> QED
      BY <1>1, <1>2, <1>4, <1>8, <1>15, <2>1, <2>2, <2>3 DEF LogShape, files
  <1>18. LogsClosed'
    BY <1>1, <1>2 DEF LogsClosed, files, NeighboursOf
  <1>19. /\ Evolution' = Append(Evolution, n)
         /\ Evolution \in Seq(Nat)
    BY <1>1, <1>9 DEF Evolution, TypeOK, files
  <1>20. /\ Len(Evolution') = Len(Evolution) + 1
         /\ Len(Evolution) \in Nat
         /\ Evolution'[Len(Evolution) + 1] = n
         /\ \A i \in 1..Len(Evolution) :
              Evolution'[i] = Evolution[i] /\ Evolution[i] \in Nat
    BY <1>9, <1>19
  <1>21. Cardinality(Ended) <= n
    <2>1. Ended \cup {e} \subseteq unmarked \cup {Root}
      BY <1>2, <1>6 DEF ConeShape
    <2>2. /\ IsFiniteSet(unmarked \cup {Root})
          /\ Cardinality(unmarked \cup {Root}) = Cardinality(unmarked) + 1
      BY CountedFinite, FS_AddElement, RpcAssumption DEF TypeOK
    <2>3. Cardinality(Ended \cup {e}) <= Cardinality(unmarked \cup {Root})
      BY <2>1, <2>2, FS_Subset
    <2>4. Cardinality(unmarked \cup {Root}) \in Nat
      BY <2>2, FS_CardinalityType
    <2> QED
      BY <1>8, <1>16, <2>2, <2>3, <2>4, CountedFinite DEF n
  <1>22. EvolutionConsistent'
    <2>1. Len(Evolution) = Cardinality(Ended)
      BY <1>2 DEF EvolutionConsistent
    <2>2. \A i \in 1..Len(Evolution') : Evolution'[i] + 1 >= i
      BY <1>2, <1>9, <1>20, <1>21, <2>1 DEF EvolutionConsistent
    <2>3. \A i \in 1..Len(Evolution) : Evolution[i] <= n
      BY <1>2 DEF EvolutionBounded, n
    <2>4. \A i \in 1..Len(Evolution') - 1 : Evolution'[i] <= Evolution'[i + 1]
      <3> SUFFICES ASSUME NEW i \in 1..Len(Evolution)
                   PROVE  Evolution'[i] <= Evolution'[i + 1]
        BY <1>20
      <3>1. CASE i = Len(Evolution)
        BY <1>20, <2>3, <3>1
      <3>2. CASE i # Len(Evolution)
        <4>1. i \in 1..Len(Evolution) - 1 /\ i + 1 \in 1..Len(Evolution)
          BY <1>20, <3>2
        <4> QED
          BY <1>2, <1>20, <4>1 DEF EvolutionConsistent
      <3> QED
        BY <3>1, <3>2
    <2> QED
      BY <1>1, <1>2, <1>16, <1>20, <2>1, <2>2, <2>4 DEF EvolutionConsistent, files
  <1>23. EvolutionBounded'
    <2>1. n' = n
      BY <1>1 DEF n, memory
    <2>2. \A i \in 1..Len(Evolution') : Evolution'[i] <= n
      BY <1>2, <1>9, <1>20 DEF EvolutionBounded, n
    <2> QED
      BY <2>1, <2>2 DEF EvolutionBounded, n
  <1> QED
    BY <1>13, <1>17, <1>18, <1>22, <1>23

LEMMA FinishPreserves ==
  ASSUME IInv, NEW w \in Worker, NEW overdue \in BOOLEAN, finish(w, overdue)
  PROVE  IInv'
  <1>1. CASE raced'
    <2>1. ConeShape'
      BY <1>1 DEF IInv, ConeShape, finish, memory
    <2> QED
      BY <1>1, <2>1, FinishClients DEF IInv, LogShape, LogsClosed,
         EvolutionConsistent, EvolutionBounded
  <1>2. CASE ~ raced'
    BY <1>2, FinishClients, FinishLogs DEF IInv
  <1> QED
    BY <1>1, <1>2

\* Moving cones from one set to the other does not change their number.
LEMMA MoveCardinality ==
  ASSUME NEW M, NEW U, NEW S \in SUBSET M, IsFiniteSet(M), IsFiniteSet(U),
         M \cap U = {}
  PROVE  Cardinality(U \cup S) + Cardinality(M \ S) = Cardinality(U) + Cardinality(M)
  <1>1. IsFiniteSet(S) /\ Cardinality(S) \in Nat
    BY FS_Subset, FS_CardinalityType
  <1>2. Cardinality(U) \in Nat /\ Cardinality(M) \in Nat
    BY FS_CardinalityType
  <1>3. U \cap S = {} /\ M \cap S = S
    OBVIOUS
  <1>4. Cardinality(U \cup S) = Cardinality(U) + Cardinality(S)
    <2>1. Cardinality(U \cup S) =
            Cardinality(U) + Cardinality(S) - Cardinality(U \cap S)
      BY <1>1, FS_Union
    <2>2. Cardinality(U \cap S) = 0
      BY <1>3, FS_EmptySet
    <2> QED
      BY <1>1, <1>2, <2>1, <2>2
  <1>5. Cardinality(M \ S) = Cardinality(M) - Cardinality(S)
    BY <1>1, <1>3, FS_Difference
  <1> QED
    BY <1>1, <1>2, <1>4, <1>5

\* The cones that are handed out were never retrieved before.
LEMMA GetPreserves ==
  ASSUME IInv, NEW S \in SUBSET marked, get(S)
  PROVE  IInv'
  <1> USE DEF IInv
  <1>1. /\ unmarked' = unmarked \cup S /\ marked' = marked \ S
        /\ handed' = handed \cup S
        /\ fetching = "get" /\ fetching' = "idle"
        /\ size' = 0 /\ seen' = {}
        /\ UNCHANGED <<server, pendings, files, git_cones, flush, workers,
                       successes, history>>
    BY DEF get
  <1>2. TypeOK'
    <2>1. 0 \in 0..JobSize
      BY RpcAssumption
    <2> QED
      BY <1>1, <2>1 DEF TypeOK, pendings, files, workers, history
  <1>3. Found' = Found /\ Ended' = Ended /\ Expanding' = Expanding
        /\ Evolution' = Evolution
    BY <1>1 DEF Found, Ended, Expanding, Evolution, pendings, files, workers
  <1>4. S \cap unmarked = {} /\ Root \notin S
    BY RpcAssumption DEF ConeShape, TypeOK
  <1>5. ConeShape'
    <2>1. ~ raced => S \cap (Expanding \cup Ended) = {}
      BY <1>4 DEF ConeShape
    <2> QED
      BY <1>1, <1>3, <1>4, <2>1 DEF ConeShape, pendings, files, workers, history
  <1>6. WorkerShape'
    <2>1. \A w \in Worker : CallOf(w)' = CallOf(w)
      BY <1>1 DEF CallOf, workers
    <2> QED
      BY <1>1, <1>3, <2>1 DEF WorkerShape, workers, NeighboursOf
  <1>7. ThreadShape' /\ LogShape' /\ LogsClosed'
    BY <1>1, <1>3 DEF ThreadShape, LogShape, LogsClosed, pendings, files, history,
       NeighboursOf
  <1>8. EvolutionConsistent'
    BY <1>1, <1>3 DEF EvolutionConsistent, files, history
  <1>9. EvolutionBounded'
    <2>1. Cardinality(unmarked') + Cardinality(marked')
            = Cardinality(unmarked) + Cardinality(marked)
      BY <1>1, CountedFinite, MoveCardinality DEF ConeShape
    <2> QED
      BY <1>1, <1>3, <2>1 DEF EvolutionBounded, history
  <1>10. EndShape'
    BY <1>1, <1>3 DEF EndShape, pendings, history
  <1> QED
    BY <1>2, <1>5, <1>6, <1>7, <1>8, <1>9, <1>10

LEMMA SavePreserves ==
  ASSUME IInv, NEW S \in SUBSET (marked \cup unmarked), save(S)
  PROVE  IInv'
  <1> USE DEF IInv
  <1>1. /\ UNCHANGED <<server, memory, pendings, files, flush, history>>
        /\ UNCHANGED <<handed, expanding, workers, successes>>
    BY DEF save, workers
  <1>2. TypeOK'
    BY DEF TypeOK, save, memory, pendings, files, history, workers
  <1>3. Found' = Found /\ Expanding' = Expanding
    BY <1>1, ServerUnchanged, ConesUnchanged
  <1>4. EndShape'
    BY <1>1, <1>3 DEF EndShape, save, Ready, memory, pendings, history
  <1> QED
    BY <1>1, <1>2, <1>4, ServerUnchanged, ConesUnchanged, WorkersUnchanged

-----------------------------------------------------------------------------
(* flushPending(), a race, the destructor and a kill *)

\* The next write of one thread; if the threads did not race, the other thread
\* writes nothing.
LEMMA WriteStep ==
  ASSUME IInv, NEW t \in Threads, NEW f \in {"evolution", "marked", "unmarked"},
         Write(t, f), UNCHANGED <<server, memory, clients, history>>
  PROVE  /\ server \in {"up", "stopping"} /\ flush[t] = f
         /\ flush' = [flush EXCEPT ![t] = NextWrite(f)]
         /\ flush'[t] = NextWrite(f)
         /\ \A u \in Threads \ {t} : flush'[u] = flush[u]
         /\ flush' \in [Threads -> {"evolution", "marked", "unmarked", "done"}]
         /\ ~ raced => \A u \in Threads \ {t} : flush[u] = "done"
         /\ Found' = Found /\ Expanding' = Expanding
         /\ WorkerShape' /\ ThreadShape'
  <1> USE DEF IInv
  <1>1. /\ server \in {"up", "stopping"} /\ flush[t] = f
        /\ flush' = [flush EXCEPT ![t] = NextWrite(f)]
    BY DEF Write, Alive
  <1>2. NextWrite(f) \in {"evolution", "marked", "unmarked", "done"}
    BY DEF NextWrite
  <1>3. /\ flush'[t] = NextWrite(f)
        /\ \A u \in Threads \ {t} : flush'[u] = flush[u]
        /\ flush' \in [Threads -> {"evolution", "marked", "unmarked", "done"}]
    BY <1>1, <1>2 DEF TypeOK
  <1>4. ~ raced => \A u \in Threads \ {t} : flush[u] = "done"
    BY <1>1 DEF ThreadShape, Threads
  <1>5. Found' = Found /\ Expanding' = Expanding
    BY DEF Found, Expanding, memory, clients, workers
  <1>6. WorkerShape'
    BY WorkersUnchanged DEF clients
  <1>7. ThreadShape'
    BY <1>1, <1>3, <1>4 DEF ThreadShape, Threads, history
  <1> QED
    BY <1>1, <1>3, <1>4, <1>5, <1>6, <1>7

\* Entries move to their file; none is lost or written twice.
LEMMA FlushEvolutionPreserves ==
  ASSUME IInv, NEW t \in Threads, FlushEvolution(t)
  PROVE  IInv'
  <1> USE DEF IInv
  <1>1. /\ Write(t, "evolution")
        /\ fan_evolution' = fan_evolution \o pending_evolution
        /\ pending_evolution' = <<>>
        /\ UNCHANGED <<server, memory, pending_marked, pending_unmarked,
                       marked_cones, unmarked_cones, git_cones, clients, history>>
    BY DEF FlushEvolution
  <1>2. /\ flush[t] = "evolution" /\ flush'[t] = "marked"
        /\ \A u \in Threads \ {t} : flush'[u] = flush[u]
        /\ flush' \in [Threads -> {"evolution", "marked", "unmarked", "done"}]
        /\ ~ raced => \A u \in Threads \ {t} : flush[u] = "done"
        /\ server \in {"up", "stopping"}
    BY <1>1, WriteStep DEF NextWrite
  <1>3. /\ Found' = Found /\ Expanding' = Expanding
        /\ WorkerShape' /\ ThreadShape'
    BY <1>1, WriteStep
  <1>4. Ended' = Ended
    BY <1>1 DEF Ended
  <1>5. TypeOK'
    BY <1>1, <1>2 DEF TypeOK, memory, clients, workers, history
  <1>6. Evolution' = Evolution
    BY <1>1 DEF Evolution, TypeOK
  <1>7. ConeShape'
    BY <1>1, <1>3, <1>4 DEF ConeShape, memory, clients, workers, history
  <1>8. LogShape' /\ LogsClosed'
    BY <1>1, <1>2, <1>3, <1>4 DEF LogShape, LogsClosed, NeighboursOf, history
  <1>9. EvolutionConsistent'
    <2> SUFFICES ASSUME ~ raced PROVE EvolutionConsistent'
      BY <1>1 DEF EvolutionConsistent, history
    <2>1. Len(fan_evolution') = Cardinality(Ended)
      BY <1>1 DEF EvolutionConsistent, Evolution
    <2>2. unmarked_cones \in SUBSET Ended
      BY DEF Ended
    <2>3. Cardinality(unmarked_cones) <= Cardinality(Ended)
      BY <2>2, CountedFinite, FS_Subset
    <2> QED
      BY <1>1, <1>4, <1>6, <2>1, <2>3, CountedFinite DEF EvolutionConsistent
  <1>10. EvolutionBounded'
    BY <1>1, <1>6 DEF EvolutionBounded, memory, history
  <1>11. EndShape'
    BY <1>1, <1>2, <1>3 DEF EndShape, ThreadShape, memory, clients, history,
       Threads
  <1> QED
    BY <1>3, <1>5, <1>7, <1>8, <1>9, <1>10, <1>11

\* After this write the file has every cone that was found.
LEMMA FlushMarkedPreserves ==
  ASSUME IInv, NEW t \in Threads, FlushMarked(t)
  PROVE  IInv'
  <1> USE DEF IInv
  <1>1. /\ Write(t, "marked")
        /\ marked_cones' = marked_cones \cup pending_marked
        /\ pending_marked' = {}
        /\ UNCHANGED <<server, memory, pending_evolution, pending_unmarked,
                       fan_evolution, unmarked_cones, git_cones, clients, history>>
    BY DEF FlushMarked
  <1>2. /\ flush[t] = "marked" /\ flush'[t] = "unmarked"
        /\ \A u \in Threads \ {t} : flush'[u] = flush[u]
        /\ flush' \in [Threads -> {"evolution", "marked", "unmarked", "done"}]
        /\ ~ raced => \A u \in Threads \ {t} : flush[u] = "done"
        /\ server \in {"up", "stopping"}
    BY <1>1, WriteStep DEF NextWrite
  <1>3. /\ Found' = Found /\ Expanding' = Expanding
        /\ WorkerShape' /\ ThreadShape'
    BY <1>1, WriteStep
  <1>4. Ended' = Ended /\ Evolution' = Evolution
    BY <1>1 DEF Ended, Evolution
  <1>5. TypeOK'
    BY <1>1, <1>2 DEF TypeOK, memory, clients, workers, history
  <1>6. ConeShape'
    BY <1>1, <1>3, <1>4 DEF ConeShape, memory, clients, workers, history
  <1>7. LogShape' /\ LogsClosed'
    BY <1>1, <1>2, <1>3, <1>4 DEF LogShape, LogsClosed, NeighboursOf, history
  <1>8. EvolutionConsistent' /\ EvolutionBounded'
    BY <1>1, <1>4 DEF EvolutionConsistent, EvolutionBounded, memory, history
  <1>9. EndShape'
    BY <1>1, <1>2, <1>3 DEF EndShape, ThreadShape, memory, clients, history,
       Threads
  <1> QED
    BY <1>3, <1>5, <1>6, <1>7, <1>8, <1>9

\* The expanded cones come last: all they need is in the other files.
LEMMA FlushUnmarkedPreserves ==
  ASSUME IInv, NEW t \in Threads, FlushUnmarked(t)
  PROVE  IInv'
  <1> USE DEF IInv
  <1>1. /\ Write(t, "unmarked")
        /\ unmarked_cones' = unmarked_cones \cup pending_unmarked
        /\ pending_unmarked' = {}
        /\ UNCHANGED <<server, memory, pending_evolution, pending_marked,
                       fan_evolution, marked_cones, git_cones, clients, history>>
    BY DEF FlushUnmarked
  <1>2. /\ flush[t] = "unmarked" /\ flush'[t] = "done"
        /\ \A u \in Threads \ {t} : flush'[u] = flush[u]
        /\ flush' \in [Threads -> {"evolution", "marked", "unmarked", "done"}]
        /\ ~ raced => \A u \in Threads \ {t} : flush[u] = "done"
        /\ server \in {"up", "stopping"}
    BY <1>1, WriteStep DEF NextWrite
  <1>3. /\ Found' = Found /\ Expanding' = Expanding
        /\ WorkerShape' /\ ThreadShape'
    BY <1>1, WriteStep
  <1>4. ~ raced => pending_marked = {} /\ pending_evolution = <<>>
    BY <1>2 DEF LogShape
  <1>5. Ended' = Ended /\ Evolution' = Evolution /\ unmarked_cones' = Ended
    BY <1>1 DEF Ended, Evolution
  <1>6. TypeOK'
    BY <1>1, <1>2 DEF TypeOK, memory, clients, workers, history
  <1>7. ConeShape'
    BY <1>1, <1>3, <1>5 DEF ConeShape, memory, clients, workers, history
  <1>8. LogShape'
    <2>1. Cardinality({}) = 0
      BY FS_EmptySet
    <2> QED
      BY <1>1, <1>2, <1>3, <1>4, <1>5, <2>1 DEF LogShape, NeighboursOf, history
  <1>9. LogsClosed'
    <2>1. ~ raced => marked_cones = Found /\ Ended \subseteq unmarked \cup {Root}
      BY <1>4 DEF LogShape, ConeShape
    <2> QED
      BY <1>1, <1>5, <2>1 DEF LogsClosed, LogShape, Found, NeighboursOf, history
  <1>10. EvolutionConsistent'
    <2> SUFFICES ASSUME ~ raced PROVE EvolutionConsistent'
      BY <1>1 DEF EvolutionConsistent, history
    <2>1. Evolution = fan_evolution
      BY <1>4 DEF Evolution, TypeOK
    <2>2. Len(fan_evolution) = Cardinality(Ended) /\ Cardinality(Ended) \in Nat
      BY <2>1, CountedFinite DEF EvolutionConsistent
    <2>3. Len(fan_evolution') >= Cardinality(unmarked_cones')
      <3>1. fan_evolution' = fan_evolution
        BY <1>1
      <3>2. Cardinality(unmarked_cones') = Cardinality(Ended)
        BY <1>5
      <3> QED
        BY <2>2, <3>1, <3>2
    <2> QED
      BY <1>5, <2>3 DEF EvolutionConsistent
  <1>11. EvolutionBounded'
    BY <1>1, <1>5 DEF EvolutionBounded, memory, history
  <1>12. EndShape'
    BY <1>1, <1>2, <1>3, <1>4 DEF EndShape, ThreadShape, memory, clients, history,
       Threads
  <1> QED
    BY <1>3, <1>6, <1>7, <1>8, <1>9, <1>10, <1>11, <1>12

\* After a race nothing is known of the logs; the memory and the clients are
\* not affected.
LEMMA LoseEntriesPreserves ==
  ASSUME IInv, LoseEntries
  PROVE  IInv'
  <1> USE DEF IInv
  <1>1. /\ raced /\ server \in {"up", "stopping"}
        /\ UNCHANGED <<server, memory, files, git_cones, flush, clients, history>>
    BY DEF LoseEntries, Alive
  <1>2. /\ pending_evolution' \in {pending_evolution, <<>>}
        /\ pending_marked' \in {pending_marked, {}}
        /\ pending_unmarked' \in {pending_unmarked, {}}
    BY DEF LoseEntries
  <1>3. TypeOK'
    <2>1. pending_evolution' \in Seq(Nat)
      <3>1. pending_evolution \in Seq(Nat) /\ <<>> \in Seq(Nat)
        BY DEF TypeOK
      <3> QED
        BY <1>2, <3>1
    <2>2. /\ pending_marked' \in SUBSET Cone
          /\ pending_unmarked' \in SUBSET (Cone \cup {Root})
      BY <1>2 DEF TypeOK
    <2> QED
      BY <1>1, <2>1, <2>2 DEF TypeOK, memory, files, clients, workers, history
  <1>4. Expanding' = Expanding
    BY <1>1 DEF Expanding, clients, workers
  <1>5. WorkerShape'
    BY <1>1, WorkersUnchanged DEF clients
  <1>6. ConeShape' /\ ThreadShape' /\ EndShape'
    BY <1>1, <1>4 DEF ConeShape, ThreadShape, EndShape, memory, clients, history
  <1> QED
    BY <1>1, <1>3, <1>5, <1>6 DEF LogShape, LogsClosed, EvolutionConsistent,
       EvolutionBounded, history

\* The server stops or dies where it is; the files are not touched.  A stop
\* during a flush of the io thread is a race, one after the answer of save is
\* not; what main() has flushed without a race is all there was.
LEMMA ServerEnds ==
  ASSUME IInv, Stop \/ Join \/ Kill
  PROVE  IInv'
  <1> USE DEF IInv
  <1>1. UNCHANGED <<memory, pendings, files, git_cones, clients>>
    BY DEF Stop, Join, Kill
  <1>2. Found' = Found /\ Ended' = Ended /\ Expanding' = Expanding
        /\ Evolution' = Evolution
    BY <1>1 DEF Found, Ended, Expanding, Evolution, memory, pendings, files,
       clients, workers
  <1>3. WorkerShape'
    BY <1>1, WorkersUnchanged DEF clients
  <1>4. ~ raced' => ~ raced
    BY DEF Stop, Join, Kill, ThreadShape, history
  <1>5. ConeShape'
    BY <1>1, <1>2, <1>4 DEF ConeShape, memory, pendings, files, clients, workers
  <1>6. LogsClosed' /\ EvolutionConsistent' /\ EvolutionBounded'
    BY <1>1, <1>2, <1>4 DEF LogsClosed, EvolutionConsistent, EvolutionBounded,
       memory, files, NeighboursOf
  <1>7. CASE Stop
    <2>1. /\ server = "up" /\ server' = "stopping"
          /\ flush' = [flush EXCEPT !["main"] = "evolution"]
          /\ raced' = (flush["io"] # "done")
          /\ orderly' = (fetching \in {"saved", "failed"})
      BY <1>7 DEF Stop
    <2>2. /\ flush'["io"] = flush["io"] /\ flush'["main"] = "evolution"
          /\ flush' \in [Threads -> {"evolution", "marked", "unmarked", "done"}]
      BY <2>1 DEF TypeOK, Threads
    <2>3. flush["main"] = "done"
      BY <2>1 DEF ThreadShape
    <2>4. TypeOK'
      BY <1>1, <2>1, <2>2 DEF TypeOK, memory, pendings, files, clients, workers
    <2>5. ThreadShape'
      BY <2>1, <2>2 DEF ThreadShape, Threads
    <2>6. LogShape'
      <3> SUFFICES ASSUME ~ raced' PROVE LogShape'
        BY DEF LogShape
      <3>1. Len(pending_evolution) = Cardinality(pending_unmarked)
        BY <1>4, <2>1, <2>3 DEF LogShape, Threads
      <3>2. \A t \in Threads : flush'[t] \in {"evolution", "done"}
        BY <2>1, <2>2 DEF Threads
      <3> QED
        BY <1>1, <1>2, <1>4, <3>1, <3>2 DEF LogShape, pendings, files, NeighboursOf
    <2>7. EndShape'
      BY <1>1, <1>2, <2>1, <2>2 DEF EndShape, memory, pendings, clients
    <2> QED
      BY <1>3, <1>5, <1>6, <2>4, <2>5, <2>6, <2>7
  <1>8. CASE Join
    <2>1. /\ server = "stopping" /\ server' = "down"
          /\ \A t \in Threads : flush[t] = "done"
          /\ flush' = flush /\ UNCHANGED history
      BY <1>8 DEF Join
    <2>2. TypeOK' /\ ThreadShape'
      BY <1>1, <2>1 DEF TypeOK, ThreadShape, Threads, memory, pendings, files,
         clients, workers, history
    <2>3. LogShape'
      BY <1>1, <1>2, <2>1 DEF LogShape, pendings, files, NeighboursOf, history
    <2>4. EndShape'
      BY <1>1, <1>2, <2>1 DEF EndShape, memory, pendings, clients, history
    <2> QED
      BY <1>3, <1>5, <1>6, <2>2, <2>3, <2>4
  <1>9. CASE Kill
    <2>1. server' = "killed" /\ flush' = flush /\ UNCHANGED history
      BY <1>9 DEF Kill
    <2>2. TypeOK' /\ ThreadShape'
      BY <1>1, <2>1 DEF TypeOK, ThreadShape, memory, pendings, files, clients,
         workers, history
    <2>3. LogShape'
      BY <1>1, <1>2, <2>1 DEF LogShape, pendings, files, NeighboursOf, history
    <2>4. EndShape'
      BY <1>1, <1>2, <2>1 DEF EndShape, memory, pendings, clients, history
    <2> QED
      BY <1>3, <1>5, <1>6, <2>2, <2>3, <2>4
  <1> QED
    BY <1>7, <1>8, <1>9

LEMMA StutterPreserves ==
  ASSUME IInv, UNCHANGED vars
  PROVE  IInv'
  <1> USE DEF IInv, vars, clients
  <1>1. TypeOK'
    BY DEF TypeOK, memory, pendings, files, workers, history
  <1>2. Found' = Found /\ Expanding' = Expanding
    BY DEF Found, Expanding, memory, workers
  <1>3. EndShape'
    BY <1>2 DEF EndShape, memory, pendings, history
  <1> QED
    BY <1>1, <1>3, ServerUnchanged, ConesUnchanged, WorkersUnchanged DEF workers

-----------------------------------------------------------------------------
(* The invariant and what follows from it *)

LEMMA NextPreserves == IInv /\ [Next]_vars => IInv'
  <1> SUFFICES ASSUME IInv, [Next]_vars PROVE IInv'
    OBVIOUS
  <1>1. CASE Client
    BY <1>1, TakeConePreserves, SendPutPreserves, ReceiveAnswerPreserves,
       SendFinishPreserves, SendGetPreserves, SendSavePreserves DEF Client
  <1>2. CASE Handler
    BY <1>2, PutPreserves, FinishPreserves, GetPreserves, SavePreserves
       DEF Handler
  <1>3. CASE FlushPending \/ LoseEntries
    BY <1>3, FlushEvolutionPreserves, FlushMarkedPreserves,
       FlushUnmarkedPreserves, LoseEntriesPreserves DEF FlushPending
  <1>4. CASE Stop \/ Join \/ Kill
    BY <1>4, ServerEnds
  <1>5. CASE Gone \/ UNCHANGED vars
    BY <1>5, StutterPreserves DEF Gone
  <1> QED
    BY <1>1, <1>2, <1>3, <1>4, <1>5 DEF Next

\* Every reachable state of the server, its files and its clients satisfies
\* the inductive invariant.
THEOREM RpcInvariant == Spec => []IInv
  BY InitIInv, NextPreserves, PTL DEF Spec

\* Wherever the server is killed or stopped, between any two writes of a flush
\* too, and unless threads raced, the files have every cone recorded as expanded
\* among the found ones, with all its neighbours.
THEOREM LogsAlwaysClosed == Spec => []LogsClosed
  BY RpcInvariant, PTL DEF IInv

\* Unless threads raced, the evolution of the fan is monotone and has an entry
\* for each expanded cone; its file is never behind that of the expanded cones.
THEOREM EvolutionAlwaysConsistent == Spec => []EvolutionConsistent
  BY RpcInvariant, PTL DEF IInv

LEMMA IInvStop == IInv => NothingLostOnStop
  <1> SUFFICES ASSUME IInv, server = "down", orderly \/ ~ raced
               PROVE  /\ marked_cones = Found
                      /\ unmarked_cones =
                           (unmarked \cup {Root}) \ (handed \cup Expanding)
                      /\ Len(fan_evolution) = Cardinality(unmarked_cones)
    BY DEF NothingLostOnStop
  <1> USE DEF IInv
  <1>1. ~ raced
    BY DEF EndShape
  <1>2. /\ pending_evolution = <<>> /\ pending_marked = {}
        /\ pending_unmarked = {}
    BY <1>1 DEF EndShape, ThreadShape
  <1>3. marked_cones = Found
    BY <1>1, <1>2 DEF LogShape
  <1>4. Ended = unmarked_cones
    BY <1>2 DEF Ended
  <1>5. unmarked_cones = (unmarked \cup {Root}) \ (handed \cup Expanding)
    BY <1>1, <1>4 DEF ConeShape
  <1>6. Evolution = fan_evolution
    BY <1>2 DEF Evolution, TypeOK
  <1> QED
    BY <1>1, <1>3, <1>4, <1>5, <1>6 DEF EvolutionConsistent

\* A stop after the answer of save never races, and one that does not race, in
\* mid-traversal too, leaves files that hold all that was found and expanded.
THEOREM StopLosesNothing == Spec => []NothingLostOnStop
  BY RpcInvariant, IInvStop, PTL

-----------------------------------------------------------------------------
(* The server implements the contract of IConeStorage *)

LEMMA ContractCardinality == \A S : Contract!Cardinality(S) = Cardinality(S)
  BY DEF Cardinality, Contract!Cardinality

\* The contract does not see steps that leave memory and fetches alone.
LEMMA ContractUnchanged ==
  ASSUME UNCHANGED <<memory, successes, fetching, size, seen>>
  PROVE  UNCHANGED Contract!storageVars
  BY DEF memory, Contract!storageVars

LEMMA PutRefines ==
  ASSUME IInv, NEW w \in Worker, put(w)
  PROVE  [Contract!Next]_(Contract!storageVars)
  <1> DEFINE c == call[w].cone
  <1>1. c \in Cone
    BY CallTypes DEF IInv, put
  <1>2. UNCHANGED <<unmarked, successes, fetching, size, seen>>
    BY DEF put
  <1>3. CASE c \in marked \cup unmarked
    <2>1. marked' = marked
      BY <1>3 DEF put, Retrieved
    <2> QED
      BY <1>2, <2>1, ContractUnchanged DEF memory
  <1>4. CASE c \notin marked \cup unmarked
    <2>1. marked' = marked \cup {c}
      BY <1>4 DEF put, Retrieved
    <2>2. Contract!Store(c)
      BY <1>2, <1>4, <2>1 DEF Contract!Store
    <2> QED
      BY <1>1, <2>2 DEF Contract!Next
  <1> QED
    BY <1>3, <1>4

LEMMA ReceiveAnswerRefines ==
  ASSUME IInv, NEW w \in Worker, ReceiveAnswer(w)
  PROVE  [Contract!Next]_(Contract!storageVars)
  <1> DEFINE c == call[w].cone
  <1>1. c \in Cone /\ call[w].kind = "answer" /\ call[w].new \in BOOLEAN
    BY CallTypes DEF IInv, ReceiveAnswer
  <1>2. UNCHANGED <<memory, fetching, size, seen>>
    BY DEF ReceiveAnswer
  <1>3. CASE call[w].new
    <2>1. c \in marked \cup unmarked /\ successes[c] = 0
      BY <1>1, <1>3 DEF IInv, WorkerShape, Found
    <2>2. successes' = [successes EXCEPT ![c] = 1]
      BY <1>1, <1>3, <2>1 DEF ReceiveAnswer, IInv, TypeOK
    <2>3. Contract!Succeed(c)
      BY <1>2, <2>1, <2>2 DEF Contract!Succeed, memory
    <2> QED
      BY <1>1, <2>3 DEF Contract!Next
  <1>4. CASE ~ call[w].new
    BY <1>2, <1>4, ContractUnchanged DEF ReceiveAnswer
  <1> QED
    BY <1>1, <1>3, <1>4

LEMMA SendGetRefines ==
  ASSUME IInv, NEW n \in 0..JobSize, SendGet(n)
  PROVE  Contract!Next
  <1> DEFINE m == IF n <= Cardinality(Cone) THEN n ELSE Cardinality(Cone)
  <1>1. Cardinality(Cone) \in Nat
    BY RpcAssumption, FS_CardinalityType
  <1>2. m \in 0..Contract!Cardinality(Cone)
    BY <1>1, ContractCardinality, RpcAssumption
  <1>3. Contract!BeginUnmark(m)
    BY DEF SendGet, Contract!BeginUnmark, memory
  <1> QED
    BY <1>2, <1>3 DEF Contract!Next

LEMMA GetRefines ==
  ASSUME IInv, NEW S \in SUBSET marked, get(S)
  PROVE  Contract!Next
  <1> DEFINE limit == IF size <= Cardinality(Cone) THEN size ELSE Cardinality(Cone)
  <1>1. Cardinality(Cone) \in Nat /\ size \in Nat
    BY RpcAssumption, FS_CardinalityType DEF IInv, TypeOK
  <1>2. S \in SUBSET Cone
    BY DEF IInv, TypeOK
  <1>3. Cardinality(S) <= Cardinality(Cone) /\ Cardinality(S) \in Nat
    BY <1>2, RpcAssumption, FS_Subset, FS_CardinalityType
  <1>4. Cardinality(S) <= limit
    BY <1>1, <1>3 DEF get
  <1>5. Cardinality(S) < limit => seen \subseteq S
    <2>1. Cardinality(S) < limit => Cardinality(S) < size
      BY <1>1, <1>3
    <2> QED
      BY <2>1 DEF get, IInv, EndShape
  <1>6. limit' = 0
    BY <1>1 DEF get
  <1>7. Contract!EndUnmark(S)
    BY <1>4, <1>5, <1>6, ContractCardinality DEF get, Contract!EndUnmark
  <1> QED
    BY <1>7 DEF Contract!Next

LEMMA StepRefines ==
  ASSUME IInv, [Next]_vars
  PROVE  [Contract!Next]_(Contract!storageVars)
  <1>1. CASE Client
    <2>1. ASSUME NEW w \in Worker,
                 (\E e \in handed : TakeCone(w, e))
                   \/ (\E c \in Cone : SendPut(w, c)) \/ SendFinish(w)
          PROVE  UNCHANGED Contract!storageVars
      BY <2>1, ContractUnchanged DEF TakeCone, SendPut, SendFinish
    <2>2. ASSUME SendSave
          PROVE  UNCHANGED Contract!storageVars
      BY <2>2 DEF SendSave, memory, Contract!storageVars
    <2> QED
      BY <1>1, <2>1, <2>2, ReceiveAnswerRefines, SendGetRefines DEF Client
  <1>2. CASE Handler
    <2>1. ASSUME NEW w \in Worker, NEW overdue \in BOOLEAN, finish(w, overdue)
          PROVE  UNCHANGED Contract!storageVars
      BY <2>1, ContractUnchanged DEF finish
    <2>2. ASSUME NEW S, save(S)
          PROVE  UNCHANGED Contract!storageVars
      BY <2>2 DEF save, memory, Contract!storageVars
    <2> QED
      BY <1>2, <2>1, <2>2, PutRefines, GetRefines DEF Handler
  <1>3. CASE FlushPending \/ LoseEntries \/ Stop \/ Join \/ Kill \/ Gone
               \/ UNCHANGED vars
    BY <1>3, ContractUnchanged DEF FlushPending, FlushEvolution, FlushMarked,
       FlushUnmarked, LoseEntries, Stop, Join, Kill, Gone, vars, clients
  <1> QED
    BY <1>1, <1>2, <1>3 DEF Next

\* With requests and answers under way, jobs of any size and a server that is
\* killed anywhere, each cone is reported new once, not before it can be
\* retrieved, and handed out once: the contract of IConeStorage.
THEOREM RpcKeepsContract == Spec => KeepsContract
  <1>1. Init => Contract!Init
    <2>1. Cardinality(Cone) \in Nat
      BY RpcAssumption, FS_CardinalityType
    <2> QED
      BY <2>1 DEF Init, Contract!Init
  <1>2. IInv /\ [Next]_vars => [Contract!Next]_(Contract!storageVars)
    BY StepRefines
  <1> QED
    BY <1>1, <1>2, RpcInvariant, PTL DEF Spec, KeepsContract, Contract!Spec
=============================================================================
