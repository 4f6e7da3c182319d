------------------------ MODULE TraverseGitfanProofs ------------------------
(***************************************************************************)
(* The traversal net keeps its inductive invariant, for every fan, every   *)
(* number of job tokens and every configuration.  One lemma per action of  *)
(* TraverseGitfan shows that it preserves the invariant; the theorems at   *)
(* the end draw the conclusions.                                           *)
(***************************************************************************)
EXTENDS TraverseGitfan, FiniteSetTheorems, TLAPS

(* Facts about the operators of the model *)

\* Sets of cones are finite, so their sizes are numbers.
LEMMA ConesFinite ==
  ASSUME NEW S \in SUBSET Cone
  PROVE  IsFiniteSet(S) /\ Cardinality(S) \in Nat
BY ConeAssumption, FS_Subset, FS_CardinalityType

\* The neighbours of a cone, or the initial cones, are cones.
LEMMA NeighboursOfType ==
  ASSUME NEW e \in Cone \cup {Root}
  PROVE  NeighboursOf(e) \in SUBSET Cone
BY ConeAssumption DEF NeighboursOf

\* While the limit is kept, a fetch asks for a number of cones that keeps it,
\* and asks for none only when the limit is reached.
LEMMA FetchSizeBound ==
  ASSUME number_of_fetched_expandable_cones \in Nat,
         MaxCones >= 0 => number_of_fetched_expandable_cones <= MaxCones
  PROVE  /\ FetchSize \in Nat
         /\ MaxCones >= 0 =>
              number_of_fetched_expandable_cones + FetchSize <= MaxCones
         /\ FetchSize = 0 => LimitReached
BY ConfigAssumption DEF FetchSize, Smaller, Minus, LimitReached

\* The least closed set of cones is closed.
LEMMA ReachableClosed ==
  /\ Reachable \in SUBSET Cone
  /\ InitialCones \subseteq Reachable
  /\ \A e \in (Reachable \cup {Root}) : NeighboursOf(e) \subseteq Reachable
BY ConeAssumption DEF Reachable, Closed, NeighboursOf

\* A closed set of cones holds the reachable ones.
LEMMA ReachableLeast ==
  ASSUME NEW S \in SUBSET Cone, Closed(S)
  PROVE  Reachable \subseteq S
BY DEF Reachable

-----------------------------------------------------------------------------
\* The invariant holds before the net starts.
LEMMA InitIInv == Init => IInv
<1> SUFFICES ASSUME Init PROVE IInv
  OBVIOUS
<1> USE DEF Init
<1>1. TypeOK
  BY DEF TypeOK, Place
<1>2. Live = {}
  BY DEF Live
<1>3. JobShape /\ StorageShape /\ ControlShape
  BY <1>2 DEF JobShape, StorageShape, ControlShape, Adding
<1>4. FetchShape
  BY FS_EmptySet, ConfigAssumption DEF FetchShape
<1>5. TokenShape
  BY <1>2, FS_EmptySet, ConfigAssumption DEF TokenShape
<1>6. SearchShape /\ NoConeForgotten
  BY DEF SearchShape, NoConeForgotten
<1>7. ExpandedOnce
  BY DEF ExpandedOnce, Held
<1>8. CountsAddUp
  BY FS_EmptySet DEF CountsAddUp, Adding
<1> QED
  BY <1>1, <1>3, <1>4, <1>5, <1>6, <1>7, <1>8 DEF IInv

-----------------------------------------------------------------------------
\* Transition init puts the first job token on an idle net.
LEMMA StartPreserves ==
  ASSUME IInv, NEW t \in Token, Start(t)
  PROVE  IInv'
<1> USE DEF IInv, Start, get, storage
<1>1. TypeOK'
  BY DEF TypeOK, Place
<1>2. Live = {} /\ Live' = {t}
  BY DEF ControlShape, Live, TypeOK
<1>3. JobShape'
  BY <1>2 DEF JobShape, TypeOK, ControlShape, Live, NeighboursOf
<1>4. StorageShape' /\ ControlShape'
  BY DEF StorageShape, ControlShape, Adding
<1>5. FetchShape'
  <2>1. unmarked = {} /\ ~ getting
    BY DEF StorageShape, ControlShape
  <2> QED
    BY <2>1, FS_EmptySet, ConfigAssumption DEF FetchShape
<1>6. TokenShape'
  <2>1. IsFiniteSet({t}) /\ Cardinality({t}) = 1
    BY FS_Singleton
  <2> QED
    BY <1>2, <2>1, ConfigAssumption DEF TokenShape
<1>7. SearchShape'
  BY DEF SearchShape, TypeOK, NeighboursOf
<1>8. NoConeForgotten'
  BY DEF NoConeForgotten, StorageShape, ControlShape
<1>9. ExpandedOnce'
  BY <1>2 DEF ExpandedOnce, Held, TypeOK, ControlShape, Live
<1>10. CountsAddUp'
  BY FS_EmptySet DEF CountsAddUp, Adding, ControlShape
<1> QED
  BY <1>1, <1>3, <1>4, <1>5, <1>6, <1>7, <1>8, <1>9, <1>10
\* Transition compute_initial_cone turns the first token into a running job.
LEMMA ComputeInitialConePreserves ==
  ASSUME IInv, NEW t \in Token, compute_initial_cone(t)
  PROVE  IInv'
<1> USE DEF IInv, compute_initial_cone, Return, BeginCone, net, get, storage
<1>1. TypeOK'
  BY ConeAssumption, NeighboursOfType DEF TypeOK, Place
<1>2. Live' = Live
  BY DEF Live, TypeOK
<1>3. JobShape'
  BY DEF JobShape, TypeOK, NeighboursOf
<1>4. StorageShape'
  BY DEF StorageShape, JobShape, Adding, TypeOK
<1>5. ControlShape' /\ FetchShape' /\ TokenShape'
  BY <1>2 DEF ControlShape, FetchShape, TokenShape, FetchSize, QueueHasRoom
<1>6. SearchShape'
  BY DEF SearchShape, TypeOK
<1>7. NoConeForgotten'
  BY DEF NoConeForgotten, LimitReached
<1>8. ExpandedOnce'
  <2>1. \A u \in Token : Held(u)' = Held(u)
    BY DEF Held, JobShape, TypeOK
  <2> QED
    BY <2>1 DEF ExpandedOnce
<1>9. CountsAddUp'
  BY DEF CountsAddUp, Adding
<1> QED
  BY <1>1, <1>3, <1>4, <1>5, <1>6, <1>7, <1>8, <1>9

\* Transition expand_cones_and_insert_neighbours starts on a list of cones.
LEMMA ExpandConesPreserves ==
  ASSUME IInv, NEW t \in Token, expand_cones(t)
  PROVE  IInv'
<1> USE DEF IInv, expand_cones, Return, BeginCone, net, get, storage
<1>1. TypeOK'
  BY ConeAssumption, NeighboursOfType DEF TypeOK, Place
<1>2. Live' = Live
  BY DEF Live, TypeOK
<1>3. JobShape'
  BY DEF JobShape, TypeOK, NeighboursOf
<1>4. StorageShape'
  BY DEF StorageShape, JobShape, Adding, TypeOK
<1>5. ControlShape' /\ FetchShape' /\ TokenShape'
  BY <1>2 DEF ControlShape, FetchShape, TokenShape, FetchSize, QueueHasRoom
<1>6. SearchShape'
  BY DEF SearchShape, JobShape, TypeOK
<1>7. NoConeForgotten'
  BY DEF NoConeForgotten, LimitReached
<1>8. ExpandedOnce'
  <2>1. \A u \in Token : Held(u)' = Held(u)
    BY ConeAssumption DEF Held, JobShape, TypeOK
  <2> QED
    BY <2>1 DEF ExpandedOnce
<1>9. CountsAddUp'
  BY DEF CountsAddUp, Adding
<1> QED
  BY <1>1, <1>3, <1>4, <1>5, <1>6, <1>7, <1>8, <1>9

\* addMarkedCone() of a known cone only shortens the job.
LEMMA AddKnownPreserves ==
  ASSUME IInv, NEW t \in Token, NEW n \in Cone, AddKnown(t, n)
  PROVE  IInv'
<1> USE DEF IInv, AddKnown, AddReturns, Known, net, get, storage
<1>1. TypeOK'
  BY DEF TypeOK
<1>2. Live' = Live /\ insertionCount' = insertionCount
  BY DEF Live, TypeOK
<1>3. JobShape'
  BY DEF JobShape, TypeOK
<1>4. StorageShape'
  BY DEF StorageShape, Adding, TypeOK
<1>5. ControlShape' /\ FetchShape' /\ TokenShape'
  BY <1>2 DEF ControlShape, FetchShape, TokenShape, FetchSize, QueueHasRoom
<1>6. SearchShape' /\ NoConeForgotten'
  BY <1>2 DEF SearchShape, NoConeForgotten, LimitReached
<1>7. ExpandedOnce' /\ CountsAddUp'
  BY <1>2 DEF ExpandedOnce, CountsAddUp, Held, Adding
<1> QED
  BY <1>1, <1>3, <1>4, <1>5, <1>6, <1>7

\* addMarkedCone() of a new cone: it was reachable, the job is its only owner.
LEMMA AddNewPreserves ==
  ASSUME IInv, NEW t \in Token, NEW n \in Cone, AddNew(t, n)
  PROVE  IInv'
<1> USE DEF IInv, AddNew, AddReturns, Known, net, get
<1>1. TypeOK'
  BY DEF TypeOK
<1>2. Live' = Live
  BY DEF Live
<1>3. n \notin marked \cup unmarked /\ \A u \in Token : n \notin inserted[u]
  BY DEF StorageShape
<1>4. JobShape'
  BY DEF JobShape, TypeOK
<1>5. StorageShape'
  BY <1>3 DEF StorageShape, Adding, TypeOK
<1>6. ControlShape' /\ FetchShape' /\ TokenShape'
  BY <1>2 DEF ControlShape, FetchShape, TokenShape, FetchSize, QueueHasRoom,
     Live, TypeOK
<1>7. SearchShape'
  <2>1. n \in Reachable
    <3>1. current[t] \in Reachable \cup {Root}
      BY DEF ExpandedOnce, Held, StorageShape, SearchShape, TypeOK
    <3> QED
      BY <3>1, ReachableClosed DEF JobShape
  <2> QED
    BY <2>1 DEF SearchShape, TypeOK
<1>8. NoConeForgotten'
  BY DEF NoConeForgotten, LimitReached, TypeOK
<1>9. ExpandedOnce'
  BY DEF ExpandedOnce, Held
<1>10. CountsAddUp'
  <2>1. (stored \ UNION {inserted[u] : u \in Token})' =
          stored \ UNION {inserted[u] : u \in Token}
    BY <1>3 DEF TypeOK
  <2>2. \A u \in Token : u # t => (inserted[u] \ Adding(u))' = inserted[u] \ Adding(u)
    BY <1>3 DEF Adding, TypeOK
  <2>3. CASE marked' = marked /\ insertionCount' = insertionCount
    <3>1. (inserted[t] \ Adding(t))' = inserted[t] \ Adding(t)
      BY <1>3, <2>3 DEF Adding, TypeOK
    <3> QED
      BY <2>1, <2>2, <2>3, <3>1 DEF CountsAddUp
  <2>4. CASE marked' = marked \cup {n} /\ AddReturns(t, n, TRUE)
    <3>1. (inserted[t] \ Adding(t))' = (inserted[t] \ Adding(t)) \cup {n}
      BY <1>3, <2>4 DEF Adding, TypeOK
    <3>2. n \notin inserted[t] \ Adding(t) /\ inserted[t] \ Adding(t) \in SUBSET Cone
      BY <1>3 DEF TypeOK
    <3>3. Cardinality((inserted[t] \ Adding(t)) \cup {n}) =
            Cardinality(inserted[t] \ Adding(t)) + 1
      BY <3>2, ConesFinite, FS_AddElement
    <3>4. insertionCount'[t] = insertionCount[t] + 1
          /\ \A u \in Token : u # t => insertionCount'[u] = insertionCount[u]
      BY <2>4 DEF TypeOK
    <3> QED
      BY <2>1, <2>2, <3>1, <3>3, <3>4 DEF CountsAddUp
  <2> QED
    BY <2>3, <2>4
<1> QED
  BY <1>1, <1>4, <1>5, <1>6, <1>7, <1>8, <1>9, <1>10
\* A cone the job was adding becomes visible, and counts.
LEMMA MarkNewPreserves ==
  ASSUME IInv, NEW t \in Token, NEW n \in Cone, MarkNew(t, n)
  PROVE  IInv'
<1> USE DEF IInv, MarkNew, AddReturns, net, get
<1>1. TypeOK'
  BY DEF TypeOK
<1>2. Live' = Live
  BY DEF Live
<1>3. /\ n \in stored /\ n \notin marked \cup unmarked /\ n \in inserted[t]
      /\ \A u \in Token : u # t => n \notin inserted[u]
  BY DEF StorageShape, Adding
<1>4. JobShape'
  BY <1>3 DEF JobShape, TypeOK
<1>5. StorageShape'
  BY <1>3 DEF StorageShape, Adding, TypeOK
<1>6. ControlShape' /\ FetchShape' /\ TokenShape'
  BY <1>2 DEF ControlShape, FetchShape, TokenShape, FetchSize, QueueHasRoom,
     TypeOK
<1>7. SearchShape'
  BY DEF SearchShape
<1>8. NoConeForgotten'
  BY DEF NoConeForgotten, LimitReached, TypeOK
<1>9. ExpandedOnce'
  BY DEF ExpandedOnce, Held
<1>10. CountsAddUp'
  <2>1. \A u \in Token : u # t => (inserted[u] \ Adding(u))' = inserted[u] \ Adding(u)
    BY <1>3 DEF Adding, TypeOK
  <2>2. (inserted[t] \ Adding(t))' = (inserted[t] \ Adding(t)) \cup {n}
    BY <1>3 DEF Adding, TypeOK
  <2>3. n \notin inserted[t] \ Adding(t) /\ inserted[t] \ Adding(t) \in SUBSET Cone
    BY <1>3 DEF Adding, TypeOK
  <2>4. Cardinality((inserted[t] \ Adding(t)) \cup {n}) =
          Cardinality(inserted[t] \ Adding(t)) + 1
    BY <2>3, ConesFinite, FS_AddElement
  <2>5. /\ insertionCount'[t] = insertionCount[t] + 1
        /\ \A u \in Token : u # t => insertionCount'[u] = insertionCount[u]
    BY DEF TypeOK
  <2> QED
    BY <2>1, <2>2, <2>4, <2>5 DEF CountsAddUp
<1> QED
  BY <1>1, <1>4, <1>5, <1>6, <1>7, <1>8, <1>9, <1>10

\* A cone is done: its neighbours are stored, and no other job holds it.
LEMMA EndOfTransactionPreserves ==
  ASSUME IInv, NEW t \in Token, endOfTransaction(t)
  PROVE  IInv'
<1> USE DEF IInv, endOfTransaction, Return, BeginCone, net, get, storage
<1>1. TypeOK'
  BY ConeAssumption, NeighboursOfType DEF TypeOK, Place
<1>2. Live' = Live
  BY DEF Live, TypeOK
<1>3. JobShape'
  BY DEF JobShape, TypeOK, NeighboursOf
<1>4. StorageShape'
  BY DEF StorageShape, JobShape, Adding, TypeOK
<1>5. ControlShape' /\ FetchShape' /\ TokenShape'
  <2>1. control # "enabled"
    BY DEF ControlShape, Live
  <2> QED
    BY <1>2, <2>1 DEF ControlShape, FetchShape, TokenShape, FetchSize,
       QueueHasRoom
<1>6. SearchShape'
  <2>1. NeighboursOf(current[t]) \subseteq stored
    BY DEF JobShape
  <2>2. current[t] = Root => InitialCones \subseteq stored
    BY <2>1 DEF NeighboursOf
  <2>3. \A e \in expanded' : NeighboursOf(e) \subseteq stored'
    BY <2>1 DEF SearchShape
  <2>4. ASSUME NEW u \in Token, u # t,
               \/ place[u] = "enable_compute_initial_cone"
               \/ place[u] = "expanding" /\ current[u] = Root
        PROVE  SearchShape'
    BY <2>3, <2>4 DEF SearchShape, TypeOK
  <2> QED
    BY <2>2, <2>3, <2>4 DEF SearchShape
<1>7. NoConeForgotten'
  BY DEF NoConeForgotten, LimitReached
<1>8. ExpandedOnce'
  <2>1. \A u \in Token : u # t => Held(u)' = Held(u)
    BY DEF Held, TypeOK
  <2>2. Held(t)' = rest[t] /\ Held(t) = rest[t] \cup ({current[t]} \ {Root})
    BY ConeAssumption DEF Held, TypeOK
  <2>3. current[t] \notin rest[t] /\ \A u \in Token : Root \notin Held(u)
    BY ConeAssumption DEF JobShape, Held, TypeOK
  <2>4. \A u \in Token : Held(u)' \cap expanded' = {}
    BY <2>1, <2>2, <2>3 DEF ExpandedOnce
  <2>5. \A u, v \in Token : u # v => Held(u)' \cap Held(v)' = {}
    BY <2>1, <2>2 DEF ExpandedOnce
  <2>6. \A c : (\E u \in Token : c \in Held(u)) <=>
              c \in {current[t]} \ {Root} \/ \E u \in Token : c \in Held(u)'
    BY <2>1, <2>2
  <2>7. unmarked' = (expanded' \ {Root}) \cup UNION {Held(u)' : u \in Token}
    BY <2>6 DEF ExpandedOnce
  <2> QED
    BY <2>4, <2>5, <2>7 DEF ExpandedOnce
<1>9. CountsAddUp'
  BY DEF CountsAddUp, Adding
<1> QED
  BY <1>1, <1>3, <1>4, <1>5, <1>6, <1>7, <1>8, <1>9
-----------------------------------------------------------------------------
\* A fetch begins: it has seen every cone that is marked.
LEMMA GetBeginsPreserves ==
  ASSUME IInv, GetBegins
  PROVE  IInv'
<1> USE DEF IInv, GetBegins, net, job, storage
<1>1. TypeOK'
  BY FetchSizeBound DEF TypeOK, FetchShape
<1>2. Live' = Live
  BY DEF Live
<1>3. JobShape' /\ StorageShape'
  BY DEF JobShape, StorageShape, Adding
<1>4. ControlShape' /\ TokenShape'
  BY <1>2 DEF ControlShape, TokenShape
<1>5. FetchShape'
  BY DEF FetchShape, FetchSize, QueueHasRoom
<1>6. SearchShape' /\ NoConeForgotten'
  BY DEF SearchShape, NoConeForgotten
<1>7. ExpandedOnce' /\ CountsAddUp'
  BY DEF ExpandedOnce, CountsAddUp, Held, Adding
<1> QED
  BY <1>1, <1>3, <1>4, <1>5, <1>6, <1>7

\* A fetch ends: the cones it returns pass from the storage to a new job, and
\* if it returns none then every cone it leaves will still be announced.
LEMMA GetEndsPreserves ==
  ASSUME IInv, NEW t \in Token, NEW S \in SUBSET marked, GetEnds(t, S)
  PROVE  IInv'
<1> USE DEF IInv, GetEnds
<1>1. /\ IsFiniteSet(S) /\ Cardinality(S) \in Nat
      /\ Cardinality(unmarked \cup S) = Cardinality(unmarked) + Cardinality(S)
      /\ Cardinality(S) = 0 <=> S = {}
  <2>1. S \in SUBSET Cone /\ unmarked \in SUBSET Cone /\ unmarked \cap S = {}
    BY DEF TypeOK, StorageShape
  <2>2. IsFiniteSet(S) /\ IsFiniteSet(unmarked) /\ Cardinality(S) \in Nat
        /\ Cardinality(unmarked) \in Nat
    BY <2>1, ConesFinite
  <2>3. Cardinality(unmarked \cup S) =
          Cardinality(unmarked) + Cardinality(S) - Cardinality(unmarked \cap S)
    BY <2>2, FS_Union
  <2>4. Cardinality(unmarked \cap S) = 0
    BY <2>1, FS_EmptySet
  <2> QED
    BY <2>2, <2>3, <2>4, FS_EmptySet
<1>2. TypeOK'
  <2>1. expandable_cones_available' \in BOOLEAN
    OBVIOUS
  <2>2. place' \in [Token -> Place] /\ rest' \in [Token -> SUBSET Cone]
    BY DEF TypeOK, Place
  <2>3. number_of_unprocessed_tokens' \in Nat
        /\ number_of_fetched_expandable_cones' \in Nat
    BY <1>1 DEF TypeOK
  <2>4. getting' \in BOOLEAN /\ size' \in Nat /\ seen' \in SUBSET Cone
        /\ marked' \in SUBSET Cone /\ unmarked' \in SUBSET Cone
    BY DEF TypeOK
  <2> QED
    BY <2>1, <2>2, <2>3, <2>4 DEF TypeOK
<1>3. Live' = Live \cup {t} /\ t \notin Live
  BY DEF Live, TypeOK
<1>4. JobShape'
  BY DEF JobShape, TypeOK, NeighboursOf
<1>5. marked' \cup unmarked' = marked \cup unmarked
  OBVIOUS
<1>6. StorageShape'
  BY <1>5 DEF StorageShape, Adding
<1>7. control = "running"
  BY DEF ControlShape, TypeOK
<1>8. ControlShape'
  BY <1>7 DEF ControlShape
<1>9. FetchShape'
  <2>1. number_of_fetched_expandable_cones + Cardinality(S) <= MaxCones
          \/ ~ (MaxCones >= 0)
    BY <1>1, FetchSizeBound, ConfigAssumption DEF FetchShape, TypeOK, Fetched
  <2> QED
    BY <1>1, <2>1 DEF FetchShape, TypeOK
<1>10. TokenShape'
  <2>1. IsFiniteSet(Live) /\ Cardinality(Live) \in Nat
    BY FS_CardinalityType DEF TokenShape
  <2>2. IsFiniteSet(Live') /\ Cardinality(Live') = Cardinality(Live) + 1
    BY <1>3, <2>1, FS_AddElement
  <2> QED
    BY <1>7, <2>1, <2>2, ConfigAssumption DEF TokenShape, FetchShape, QueueHasRoom
<1>11. SearchShape'
  BY DEF SearchShape, TypeOK
<1>12. NoConeForgotten'
  <2> SUFFICES ASSUME NEW c \in marked', ~ LimitReached',
                      ~ (~ getting' /\ expandable_cones_available')
               PROVE  \E u \in Token : insertionCount'[u] > 0
    BY DEF NoConeForgotten
  <2>1. S = {} /\ Cardinality(S) = 0
    BY <1>1
  <2>2. ~ LimitReached
    BY <2>1 DEF LimitReached, TypeOK
  <2>3. size # 0
    BY <2>2, FetchSizeBound DEF FetchShape, TypeOK
  <2>4. seen = {}
    BY <2>1, <2>3 DEF Fetched, TypeOK
  <2> QED
    BY <2>2, <2>4 DEF NoConeForgotten
<1>13. ExpandedOnce'
  <2>1. Held(t) = {} /\ Held(t)' = S
    BY DEF Held, JobShape, TypeOK
  <2>2. \A u \in Token : u # t => Held(u)' = Held(u)
    BY DEF Held, TypeOK
  <2>3. S \cap unmarked = {} /\ Root \notin S
    BY ConeAssumption DEF StorageShape, TypeOK
  <2> QED
    BY <2>1, <2>2, <2>3 DEF ExpandedOnce
<1>14. CountsAddUp'
  BY <1>5 DEF CountsAddUp, Adding
<1> QED
  BY <1>2, <1>4, <1>6, <1>8, <1>9, <1>10, <1>11, <1>12, <1>13, <1>14
-----------------------------------------------------------------------------
\* Consuming an insertion count takes one job token away and counts it; the
\* job has no cone left to insert, mark or expand.
LEMMA ConsumeCountFacts ==
  ASSUME IInv, NEW t \in Token, ConsumeCount(t)
  PROVE  /\ Live' = Live \ {t} /\ t \in Live
         /\ Cardinality(Live) \in Nat
         /\ IsFiniteSet(Live') /\ Cardinality(Live') = Cardinality(Live) - 1
         /\ number_of_unprocessed_tokens = Cardinality(Live)
         /\ number_of_unprocessed_tokens' = number_of_unprocessed_tokens - 1
         /\ number_of_unprocessed_tokens' \in Nat
         /\ rest[t] = {} /\ pending[t] = {} /\ Adding(t) = {}
         /\ insertionCount[t] = Cardinality(inserted[t])
<1> USE DEF IInv, ConsumeCount
<1>1. Live' = Live \ {t} /\ t \in Live
  BY DEF Live, TypeOK
<1>2. IsFiniteSet(Live) /\ Cardinality(Live) \in Nat /\ Live # {}
  BY <1>1, FS_CardinalityType DEF TokenShape
<1>3. IsFiniteSet(Live') /\ Cardinality(Live') = Cardinality(Live) - 1
  BY <1>1, <1>2, FS_RemoveElement
<1>4. Cardinality(Live) # 0
  BY <1>2, FS_EmptySet
<1>5. number_of_unprocessed_tokens = Cardinality(Live)
  BY DEF TokenShape
<1>6. number_of_unprocessed_tokens' = number_of_unprocessed_tokens - 1
      /\ number_of_unprocessed_tokens' \in Nat
  BY <1>2, <1>4, <1>5 DEF Minus
<1>7. rest[t] = {} /\ pending[t] = {} /\ Adding(t) = {}
  BY DEF JobShape, StorageShape
<1>8. insertionCount[t] = Cardinality(inserted[t])
  <2>1. inserted[t] \ Adding(t) = inserted[t]
    BY <1>7
  <2> QED
    BY <2>1 DEF CountsAddUp
<1> QED
  BY <1>1, <1>2, <1>3, <1>5, <1>6, <1>7, <1>8

\* The parts of the invariant that do not depend on what the count was.
LEMMA ConsumeCountShapes ==
  ASSUME IInv, NEW t \in Token, ConsumeCount(t),
         UNCHANGED <<control, number_of_fetched_expandable_cones, get, rest,
                     current, pending, storage, expanded>>,
         inserted[t] \subseteq marked \cup unmarked
  PROVE  /\ JobShape' /\ StorageShape' /\ ControlShape' /\ FetchShape'
         /\ TokenShape' /\ SearchShape' /\ ExpandedOnce'
<1>4. TokenShape'
  <2>1. /\ IsFiniteSet(Live') /\ Cardinality(Live) \in Nat
        /\ Cardinality(Live') = Cardinality(Live) - 1
        /\ number_of_unprocessed_tokens' = Cardinality(Live')
    BY ConsumeCountFacts
  <2> QED
    BY <2>1, ConfigAssumption DEF IInv, TokenShape
<1> USE DEF IInv, ConsumeCount, get, storage
<1>1. JobShape'
  BY DEF JobShape, TypeOK
<1>2. StorageShape'
  BY DEF StorageShape, Adding, TypeOK
<1>3. ControlShape' /\ FetchShape'
  BY DEF ControlShape, FetchShape, FetchSize
<1>5. SearchShape'
  BY DEF SearchShape, TypeOK
<1>6. ExpandedOnce'
  <2>1. \A u \in Token : Held(u)' = Held(u)
    BY DEF Held, TypeOK
  <2> QED
    BY <2>1 DEF ExpandedOnce
<1> QED
  BY <1>1, <1>2, <1>3, <1>4, <1>5, <1>6

\* Transition sum_up_number_of_cones: the insertions of the job are counted.
LEMMA SumUpPreserves ==
  ASSUME IInv, NEW t \in Token, sum_up_number_of_cones(t)
  PROVE  IInv'
<1> USE DEF IInv, sum_up_number_of_cones
<1>1. ConsumeCount(t) /\ inserted[t] \subseteq marked \cup unmarked
  BY ConsumeCountFacts DEF Adding
<1>2. TypeOK'
  <2>1. number_of_unprocessed_tokens' \in Nat
    BY <1>1, ConsumeCountFacts
  <2> QED
    BY <1>1, <2>1 DEF TypeOK, Place, ConsumeCount, get, storage
<1>3. NoConeForgotten'
  BY <1>1 DEF NoConeForgotten, ConsumeCount, get
<1>4. CountsAddUp'
  <2> DEFINE Counted == stored \ UNION {inserted[u] : u \in Token}
  <2>1. Counted' = Counted \cup inserted[t] /\ Counted \cap inserted[t] = {}
    BY <1>1 DEF StorageShape, TypeOK, ConsumeCount, storage
  <2>2. Counted \in SUBSET Cone /\ inserted[t] \in SUBSET Cone
    BY DEF TypeOK
  <2>3. /\ IsFiniteSet(Counted) /\ IsFiniteSet(inserted[t])
        /\ Cardinality(Counted) \in Nat /\ Cardinality(inserted[t]) \in Nat
    BY <2>2, ConesFinite
  <2> HIDE DEF Counted
  <2>4. Cardinality(Counted \cup inserted[t]) =
          Cardinality(Counted) + Cardinality(inserted[t])
            - Cardinality(Counted \cap inserted[t])
    BY <2>3, FS_Union
  <2>5. Cardinality(Counted') = Cardinality(Counted) + Cardinality(inserted[t])
    BY <2>1, <2>3, <2>4, FS_EmptySet
  <2>6. number_of_cones = Cardinality(Counted)
    BY DEF CountsAddUp, Counted
  <2>7. number_of_cones' = Cardinality(Counted')
    BY <1>1, <2>5, <2>6, ConsumeCountFacts
  <2>8. \A u \in Token : insertionCount'[u] = Cardinality((inserted[u] \ Adding(u))')
    <3>1. (inserted[t] \ Adding(t))' = {} /\ insertionCount'[t] = 0
      BY <1>1 DEF ConsumeCount, TypeOK
    <3>2. \A u \in Token : u # t =>
            /\ (inserted[u] \ Adding(u))' = inserted[u] \ Adding(u)
            /\ insertionCount'[u] = insertionCount[u]
      BY <1>1 DEF ConsumeCount, Adding, TypeOK, storage
    <3> QED
      BY <3>1, <3>2, FS_EmptySet DEF CountsAddUp
  <2> QED
    BY <2>7, <2>8 DEF CountsAddUp, Counted
<1> QED
  BY <1>1, <1>2, <1>3, <1>4, ConsumeCountShapes

\* Transition consume_zero: the job inserted nothing.
LEMMA ConsumeZeroPreserves ==
  ASSUME IInv, NEW t \in Token, consume_zero(t)
  PROVE  IInv'
<1> USE DEF IInv, consume_zero
<1>1. ConsumeCount(t) /\ inserted[t] = {}
  <2>1. insertionCount[t] = Cardinality(inserted[t]) /\ inserted[t] \in SUBSET Cone
    BY ConsumeCountFacts DEF TypeOK
  <2>2. IsFiniteSet(inserted[t]) /\ Cardinality(inserted[t]) \in Nat
    BY <2>1, ConesFinite
  <2>3. Cardinality(inserted[t]) = 0
    BY <2>1, <2>2
  <2> QED
    BY <2>2, <2>3, FS_EmptySet
<1>2. TypeOK'
  <2>1. number_of_unprocessed_tokens' \in Nat
    BY <1>1, ConsumeCountFacts
  <2> QED
    BY <1>1, <2>1 DEF TypeOK, Place, ConsumeCount, get, storage
<1>3. inserted' = inserted
  BY <1>1 DEF ConsumeCount, TypeOK
<1>4. insertionCount' = insertionCount
  <2>1. insertionCount[t] = 0
    BY <1>1, ConsumeCountFacts, FS_EmptySet
  <2> QED
    BY <1>1, <2>1 DEF ConsumeCount, TypeOK
<1>5. NoConeForgotten'
  BY <1>4 DEF NoConeForgotten, LimitReached, get, storage
<1>6. CountsAddUp'
  BY <1>3, <1>4 DEF CountsAddUp, Adding, storage
<1> QED
  BY <1>1, <1>2, <1>5, <1>6, ConsumeCountShapes

\* Transition clean: the net has no job token left.
LEMMA CleanPreserves ==
  ASSUME IInv, clean
  PROVE  IInv'
<1> USE DEF IInv, clean, get, job, storage
<1>1. TypeOK'
  BY DEF TypeOK
<1>2. Live' = Live
  BY DEF Live
<1>3. Live = {}
  BY FS_EmptySet DEF TokenShape
<1>4. JobShape' /\ StorageShape'
  BY DEF JobShape, StorageShape, Adding
<1>5. ControlShape' /\ FetchShape' /\ TokenShape'
  BY <1>2, <1>3 DEF ControlShape, FetchShape, TokenShape, FetchSize, QueueHasRoom
<1>6. SearchShape' /\ NoConeForgotten'
  BY DEF SearchShape, NoConeForgotten, LimitReached
<1>7. ExpandedOnce' /\ CountsAddUp'
  BY DEF ExpandedOnce, CountsAddUp, Held, Adding
<1> QED
  BY <1>1, <1>4, <1>5, <1>6, <1>7

\* A stuttering step, and the finished net.
LEMMA StutterPreserves ==
  ASSUME IInv, UNCHANGED vars
  PROVE  IInv'
<1> USE DEF IInv, vars, net, get, job, storage
<1>1. TypeOK' /\ JobShape' /\ StorageShape'
  BY DEF TypeOK, JobShape, StorageShape, Adding
<1>2. ControlShape' /\ FetchShape' /\ TokenShape'
  BY DEF ControlShape, FetchShape, TokenShape, FetchSize, QueueHasRoom, Live
<1>3. SearchShape' /\ NoConeForgotten' /\ ExpandedOnce' /\ CountsAddUp'
  BY DEF SearchShape, NoConeForgotten, LimitReached, ExpandedOnce,
     CountsAddUp, Held, Adding
<1> QED
  BY <1>1, <1>2, <1>3
-----------------------------------------------------------------------------
(* The theorems *)

\* Every step of the net preserves the invariant.
LEMMA NextPreserves == IInv /\ [Next]_vars => IInv'
<1> SUFFICES ASSUME IInv, [Next]_vars PROVE IInv'
  OBVIOUS
<1>1. CASE \E t \in Token : Start(t)
  BY <1>1, StartPreserves
<1>2. ASSUME NEW t \in Token, Worker(t) PROVE IInv'
  <2>1. CASE compute_initial_cone(t)
    BY <2>1, ComputeInitialConePreserves
  <2>2. CASE expand_cones(t)
    BY <2>2, ExpandConesPreserves
  <2>3. CASE \E n \in Cone : AddKnown(t, n)
    BY <2>3, AddKnownPreserves
  <2>4. CASE \E n \in Cone : AddNew(t, n)
    BY <2>4, AddNewPreserves
  <2>5. CASE \E n \in Cone : MarkNew(t, n)
    BY <2>5, MarkNewPreserves
  <2>6. CASE endOfTransaction(t)
    BY <2>6, EndOfTransactionPreserves
  <2> QED
    BY <1>2, <2>1, <2>2, <2>3, <2>4, <2>5, <2>6 DEF Worker
<1>3. ASSUME NEW t \in Token, Engine(t) PROVE IInv'
  BY <1>3, SumUpPreserves, ConsumeZeroPreserves DEF Engine
<1>4. CASE Get
  BY <1>4, GetBeginsPreserves, GetEndsPreserves DEF Get
<1>5. CASE clean
  BY <1>5, CleanPreserves
<1>6. CASE Finished \/ UNCHANGED vars
  BY <1>6, StutterPreserves DEF Finished
<1> QED
  BY <1>1, <1>2, <1>3, <1>4, <1>5, <1>6 DEF Next

\* The invariant is an invariant of the net.
THEOREM InductiveInvariant == Spec => []IInv
BY InitIInv, NextPreserves, PTL DEF Spec

\* Every counter, list and flag of the net has its type; no unsigned counter
\* wraps around.
THEOREM TypeCorrect == Spec => []TypeOK
<1>1. IInv => TypeOK
  BY DEF IInv
<1> QED
  BY <1>1, InductiveInvariant, PTL

\* number_of_unprocessed_tokens always is the number of job tokens.
THEOREM TokensAreCounted == Spec => []TokensCounted
<1>1. IInv => TokensCounted
  BY DEF IInv, TokenShape, TokensCounted
<1> QED
  BY <1>1, InductiveInvariant, PTL

\* No cone that was inserted is ever left without something that will lead
\* to its expansion.
THEOREM NothingForgotten == Spec => []NoConeForgotten
<1>1. IInv => NoConeForgotten
  BY DEF IInv
<1> QED
  BY <1>1, InductiveInvariant, PTL

\* No cone is expanded twice or lost between fetch and expansion.
THEOREM ConesExpandedOnce == Spec => []ExpandedOnce
<1>1. IInv => ExpandedOnce
  BY DEF IInv
<1> QED
  BY <1>1, InductiveInvariant, PTL

\* Every insertion is counted once.
THEOREM InsertionsAddUp == Spec => []CountsAddUp
<1>1. IInv => CountsAddUp
  BY DEF IInv
<1> QED
  BY <1>1, InductiveInvariant, PTL

\* The job queue and the number of expanded cones keep their limits.
THEOREM LimitsKept == Spec => []WithinLimits
<1>1. IInv => WithinLimits
  BY DEF IInv, TokenShape, FetchShape, WithinLimits
<1> QED
  BY <1>1, InductiveInvariant, PTL

\* The net is quiet when it has no job left and expects no more.
Quiet ==
  /\ control # "enabled"
  /\ ~ getting
  /\ ~ expandable_cones_available
  /\ Live = {}

\* The finished net is quiet.
LEMMA FinishedQuiet ==
  ASSUME IInv, control = "finished"
  PROVE  Quiet
BY DEF IInv, ControlShape, Quiet

\* When the net is quiet, every stored cone has been counted and the marked
\* cones are those the limit left over.
LEMMA AtTheEnd ==
  ASSUME IInv, Quiet
  PROVE  /\ marked = {} \/ LimitReached
         /\ stored = marked \cup unmarked
         /\ unmarked = expanded \ {Root}
         /\ number_of_cones = Cardinality(stored)
         /\ InitialCones \subseteq stored
<1> USE DEF IInv
<1>1. \A t \in Token : place[t] = "none"
  BY DEF Quiet, Live
<1>2. \A t \in Token : inserted[t] = {} /\ rest[t] = {} /\ Held(t) = {}
  BY <1>1 DEF JobShape, Held
<1>3. \A t \in Token : insertionCount[t] = 0
  <2>1. \A t \in Token : inserted[t] \ Adding(t) = {}
    BY <1>2
  <2> QED
    BY <2>1, FS_EmptySet DEF CountsAddUp
<1>4. marked = {} \/ LimitReached
  BY <1>3 DEF NoConeForgotten, Quiet
<1>5. stored = marked \cup unmarked
  BY <1>2 DEF StorageShape
<1>6. unmarked = expanded \ {Root}
  BY <1>2 DEF ExpandedOnce
<1>7. number_of_cones = Cardinality(stored)
  <2>1. stored \ UNION {inserted[t] : t \in Token} = stored
    BY <1>2
  <2> QED
    BY <2>1 DEF CountsAddUp
<1>8. InitialCones \subseteq stored
  BY <1>1 DEF SearchShape, Quiet
<1> QED
  BY <1>4, <1>5, <1>6, <1>7, <1>8

\* If nothing is marked then, the stored cones are the reachable ones.
LEMMA AllReached ==
  ASSUME IInv, Quiet, marked = {}
  PROVE  stored = Reachable /\ expanded \ {Root} = Reachable
<1>1. stored = expanded \ {Root} /\ stored \in SUBSET Cone
  BY AtTheEnd DEF IInv, TypeOK
<1>2. \A c \in stored : Neighbours[c] \subseteq stored
  BY <1>1 DEF IInv, SearchShape, NeighboursOf
<1>3. Closed(stored)
  BY <1>2, AtTheEnd DEF Closed
<1>4. Reachable \subseteq stored
  BY <1>1, <1>3, ReachableLeast
<1> QED
  BY <1>1, <1>4 DEF IInv, SearchShape

\* Without a limit, the net that has finished has found, expanded and counted
\* exactly the cones reachable from the initial one.
THEOREM TraversalComplete == Spec => []Complete
<1>1. IInv => Complete
  <2> SUFFICES ASSUME IInv, control = "finished", MaxCones < 0
               PROVE  /\ stored = Reachable
                      /\ expanded \ {Root} = Reachable
                      /\ number_of_cones = Cardinality(Reachable)
    BY DEF Complete
  <2>1. marked = {}
    BY FinishedQuiet, AtTheEnd, ConfigAssumption DEF LimitReached
  <2> QED
    BY <2>1, FinishedQuiet, AtTheEnd, AllReached
<1> QED
  BY <1>1, InductiveInvariant, PTL

\* With a limit, the net that has finished has expanded exactly as many cones
\* as the limit allows and the fan has.
THEOREM LimitExact == Spec => []ExactLimit
<1>1. IInv => ExactLimit
  <2> SUFFICES ASSUME IInv, control = "finished", MaxCones >= 0
               PROVE  /\ stored \subseteq Reachable
                      /\ Cardinality(expanded \ {Root}) =
                           Smaller(MaxCones, Cardinality(Reachable))
                      /\ number_of_cones = Cardinality(stored)
    BY DEF ExactLimit
  <2> DEFINE E == expanded \ {Root}
  <2>1. /\ E \in SUBSET Reachable /\ stored \subseteq Reachable
        /\ Cardinality(E) <= MaxCones
        /\ LimitReached => Cardinality(E) = MaxCones
    <3>1. E = unmarked /\ unmarked \subseteq stored /\ stored \subseteq Reachable
      BY FinishedQuiet, AtTheEnd DEF IInv, SearchShape, StorageShape
    <3>2. /\ number_of_fetched_expandable_cones = Cardinality(unmarked)
          /\ number_of_fetched_expandable_cones <= MaxCones
          /\ number_of_fetched_expandable_cones \in Nat
      BY DEF IInv, FetchShape, TypeOK
    <3> QED
      BY <3>1, <3>2, ConfigAssumption DEF LimitReached
  <2>2. /\ IsFiniteSet(Reachable) /\ Cardinality(Reachable) \in Nat
        /\ Cardinality(E) \in Nat /\ Cardinality(E) <= Cardinality(Reachable)
    <3>1. IsFiniteSet(Reachable) /\ Cardinality(Reachable) \in Nat
      BY ReachableClosed, ConesFinite
    <3> HIDE DEF E
    <3> QED
      BY <2>1, <3>1, FS_Subset, FS_CardinalityType
  <2>3. Cardinality(E) = Smaller(MaxCones, Cardinality(Reachable))
    <3>1. CASE LimitReached
      BY <2>1, <2>2, <3>1, ConfigAssumption DEF Smaller
    <3>2. CASE marked = {}
      <4>1. E = Reachable
        BY <3>2, FinishedQuiet, AllReached
      <4> QED
        BY <2>1, <2>2, <4>1, ConfigAssumption DEF Smaller
    <3> QED
      BY <3>1, <3>2, FinishedQuiet, AtTheEnd
  <2> QED
    BY <2>1, <2>3, FinishedQuiet, AtTheEnd
<1> QED
  BY <1>1, InductiveInvariant, PTL
-----------------------------------------------------------------------------
(* The net implements the promise of GitFan *)

\* Each step of the net finds a cone next to one found before, reports the
\* final number, or changes nothing the promise is about.
LEMMA StepRefines ==
  ASSUME MaxCones < 0, IInv, [Next]_vars
  PROVE  [Promise!Next]_(Promise!fanVars)
<1>1. ASSUME NEW t \in Token, NEW n \in Cone, AddNew(t, n)
      PROVE  Promise!Next
  <2>1. control = "running" /\ control' = "running"
    BY <1>1 DEF IInv, ControlShape, TypeOK, AddNew, Live, net
  <2>2. current[t] = Root \/ current[t] \in stored
    BY <1>1 DEF IInv, ExpandedOnce, Held, StorageShape, AddNew
  <2>3. n \in Promise!Frontier(stored)
    BY <1>1, <2>2 DEF IInv, JobShape, AddNew, NeighboursOf, Promise!Frontier
  <2>4. Promise!Find(n)
    BY <1>1, <2>1, <2>3 DEF Promise!Find, AddNew, Known, net
  <2> QED
    BY <2>4 DEF Promise!Next
<1>2. ASSUME clean
      PROVE  Promise!Next
  <2>1. Quiet
    BY <1>2, FS_EmptySet DEF clean, Quiet, IInv, TokenShape
  <2>2. marked = {}
    BY <2>1, AtTheEnd, ConfigAssumption DEF LimitReached
  <2>3. stored = Reachable
    BY <2>1, <2>2, AllReached
  <2>4. Promise!Frontier(stored) \subseteq stored
    BY <2>3, ReachableClosed, ConeAssumption DEF Promise!Frontier, NeighboursOf
  <2>5. Promise!Cardinality(stored) = Cardinality(stored)
    BY DEF Cardinality, Promise!Cardinality
  <2>6. Promise!Report
    BY <1>2, <2>1, <2>4, <2>5, AtTheEnd DEF Promise!Report, clean, storage
  <2> QED
    BY <2>6 DEF Promise!Next
<1>3. ASSUME NEW t \in Token, Start(t)
      PROVE  UNCHANGED Promise!fanVars
  BY <1>3 DEF Start, storage, Promise!fanVars
<1>4. ASSUME NEW t \in Token, Engine(t)
      PROVE  UNCHANGED Promise!fanVars
  BY <1>4 DEF Engine, sum_up_number_of_cones, consume_zero, ConsumeCount,
     storage, Promise!fanVars
<1>5. ASSUME NEW t \in Token,
             \/ compute_initial_cone(t) \/ expand_cones(t)
             \/ (\E n \in Cone : AddKnown(t, n) \/ MarkNew(t, n))
             \/ endOfTransaction(t)
      PROVE  UNCHANGED Promise!fanVars
  BY <1>5 DEF compute_initial_cone, expand_cones, AddKnown, MarkNew,
     endOfTransaction, net, storage, Promise!fanVars
<1>6. ASSUME Get
      PROVE  UNCHANGED Promise!fanVars
  BY <1>6 DEF Get, GetBegins, GetEnds, net, storage, IInv, ControlShape,
     Promise!fanVars
<1>7. ASSUME Finished \/ UNCHANGED vars
      PROVE  UNCHANGED Promise!fanVars
  BY <1>7 DEF Finished, vars, net, storage, Promise!fanVars
<1> QED
  BY <1>1, <1>2, <1>3, <1>4, <1>5, <1>6, <1>7 DEF Next, Worker

\* Without a limit, every behaviour of the net is one GitFan allows: cones are
\* found next to cones found before, and their number is reported once, when
\* there is none left.
THEOREM ImplementsPromise == MaxCones < 0 => (Spec => Promise!Spec)
<1> SUFFICES ASSUME MaxCones < 0 PROVE Spec => Promise!Spec
  OBVIOUS
<1>1. Init => Promise!Init
  BY DEF Init, Promise!Init
<1>2. IInv /\ [Next]_vars => [Promise!Next]_(Promise!fanVars)
  BY StepRefines
<1> QED
  BY <1>1, <1>2, InductiveInvariant, PTL DEF Spec, Promise!Spec
=============================================================================
