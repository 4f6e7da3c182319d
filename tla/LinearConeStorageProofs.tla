---------------------- MODULE LinearConeStorageProofs ----------------------
(***************************************************************************)
(* Proofs about LinearConeStorage, for every number of cones and workers.  *)
(***************************************************************************)
EXTENDS LinearConeStorage, FiniteSetTheorems, TLAPS

\* Before any call nothing is marked, retrieved or under way.
LEMMA InitIInv == Init => IInv
  <1> SUFFICES ASSUME Init PROVE IInv
    OBVIOUS
  <1>1. \A w \in Worker : adding[w] = Idle /\ adding[w].pc = "idle"
    BY DEF Init, Idle
  <1>2. TypeOK
    BY DEF Init, TypeOK, Idle, Unsaved
  <1>3. Marking = {}
    BY <1>1 DEF Marking
  <1>4. NoLostMark
    BY <1>3 DEF Init, NoLostMark
  <1>5. MarkedOnce /\ CallShape
    BY <1>1 DEF Init, MarkedOnce, CallShape
  <1>6. ScanShape
    BY FS_EmptySet DEF Init, ScanShape
  <1> QED
    BY <1>2, <1>4, <1>5, <1>6 DEF IInv

\* What the state of a call says about its cone.
LEMMA CallTypes ==
  ASSUME TypeOK, NEW w \in Worker
  PROVE  /\ adding[w].pc \in {"idle", "mkdir", "touch", "return"}
         /\ adding[w].pc = "idle" <=> adding[w] = Idle
         /\ adding[w].pc # "idle" =>
              adding[w].cone \in Cone /\ adding[w] = At(adding[w].pc, adding[w].cone)
  BY DEF TypeOK, Idle, At

\* The cones under way, one call after the other.
LEMMA MarkingIs ==
  \A c : c \in Marking <=>
           \E w \in Worker : adding[w].pc = "touch" /\ adding[w].cone = c
  BY DEF Marking

LEMMA MarkingIsNext ==
  \A c : c \in Marking' <=>
           \E w \in Worker : adding'[w].pc = "touch" /\ adding'[w].cone = c
  BY DEF Marking

-----------------------------------------------------------------------------
(* addMarkedCone() *)

\* A new call has not touched anything.
LEMMA CallPreserves ==
  ASSUME IInv, NEW w \in Worker, NEW c \in Cone, Call(w, c)
  PROVE  IInv'
  <1> USE DEF IInv
  <1>1. adding' = [adding EXCEPT ![w] = At("mkdir", c)]
    BY DEF Call
  <1>2. /\ adding'[w].pc = "mkdir"
        /\ adding[w].pc = "idle"
        /\ \A v \in Worker \ {w} : adding'[v] = adding[v]
    BY <1>1 DEF TypeOK, Call, Idle, At
  <1>3. TypeOK'
    BY <1>1 DEF TypeOK, Call, unmark, At
  <1>4. Marking' = Marking
    <2>1. \A d : d \in Marking' <=> d \in Marking
      BY <1>2, MarkingIs, MarkingIsNext
    <2> QED
      BY <2>1
  <1>5. NoLostMark'
    BY <1>4 DEF NoLostMark, Call, unmark
  <1>6. MarkedOnce' /\ CallShape'
    BY <1>2 DEF MarkedOnce, CallShape, Call, unmark
  <1>7. ScanShape'
    BY DEF ScanShape, Call, unmark
  <1> QED
    BY <1>3, <1>5, <1>6, <1>7

\* The directory decides: only the call that creates it goes on to mark it.
LEMMA CreateDirectoryPreserves ==
  ASSUME IInv, NEW w \in Worker, CreateDirectory(w)
  PROVE  IInv'
  <1> USE DEF IInv
  <1> DEFINE c == adding[w].cone
  <1>1. c \in Cone
    BY CallTypes DEF CreateDirectory
  <1>2. \A v \in Worker \ {w} : adding'[v] = adding[v]
    BY DEF CreateDirectory, TypeOK
  <1>3. CASE c \in dirs
    <2>1. /\ adding' = [adding EXCEPT ![w] = Idle]
          /\ dirs' = dirs
      BY <1>3 DEF CreateDirectory, Exists
    <2>2. adding'[w].pc = "idle" /\ adding[w].pc = "mkdir"
      BY <2>1 DEF TypeOK, CreateDirectory, Idle
    <2>3. TypeOK'
      BY <2>1 DEF TypeOK, CreateDirectory, unmark
    <2>4. Marking' = Marking
      <3>1. \A d : d \in Marking' <=> d \in Marking
        BY <1>2, <2>2, MarkingIs, MarkingIsNext
      <3> QED
        BY <3>1
    <2>5. NoLostMark'
      BY <2>1, <2>4 DEF NoLostMark, CreateDirectory, unmark
    <2>6. MarkedOnce' /\ CallShape'
      BY <1>2, <2>1, <2>2 DEF MarkedOnce, CallShape, CreateDirectory, unmark
    <2> QED
      BY <2>3, <2>5, <2>6 DEF ScanShape, CreateDirectory, unmark
  <1>4. CASE c \notin dirs
    <2>1. /\ adding' = [adding EXCEPT ![w] = At("touch", c)]
          /\ dirs' = dirs \cup {c}
      BY <1>4 DEF CreateDirectory, Exists
    <2>2. /\ adding'[w].pc = "touch" /\ adding'[w].cone = c
          /\ adding[w].pc = "mkdir"
      BY <2>1 DEF TypeOK, CreateDirectory, At
    <2>3. TypeOK'
      BY <1>1, <2>1 DEF TypeOK, CreateDirectory, unmark, At
    <2>4. Marking' = Marking \cup {c}
      BY <1>2, <2>2, MarkingIs, MarkingIsNext
    <2>5. NoLostMark'
      BY <2>1, <2>4 DEF NoLostMark, CreateDirectory, unmark
    <2>6. c \notin marks \cup retrieved \cup Marking
      BY <1>4 DEF NoLostMark
    <2>7. \A v \in Worker :
            adding[v].pc \in {"touch", "return"} => adding[v].cone # c
      BY <2>6, MarkingIs DEF CallShape
    <2>8. MarkedOnce'
      BY <1>2, <2>2, <2>6, <2>7 DEF MarkedOnce, CreateDirectory, unmark
    <2>9. successes[c] = 0
      BY <1>1, <1>4 DEF CallShape
    <2>10. CallShape'
      BY <1>2, <2>1, <2>2, <2>9 DEF CallShape, CreateDirectory, unmark
    <2> QED
      BY <2>3, <2>5, <2>8, <2>10 DEF ScanShape, CreateDirectory, unmark
  <1> QED
    BY <1>3, <1>4

\* The mark appears; it was this call's to write, and no scan has it yet.
LEMMA TouchPreserves ==
  ASSUME IInv, NEW w \in Worker, Touch(w)
  PROVE  IInv'
  <1> USE DEF IInv
  <1> DEFINE c == adding[w].cone
  <1>1. c \in Cone
    BY CallTypes DEF Touch
  <1>2. /\ adding[w].pc = "touch"
        /\ adding'[w].pc = "return" /\ adding'[w].cone = c
        /\ \A v \in Worker \ {w} : adding'[v] = adding[v]
    BY DEF Touch, TypeOK, At
  <1>3. marks' = marks \cup {c}
    BY DEF Touch
  <1>4. TypeOK'
    BY <1>1 DEF Touch, TypeOK, unmark, At
  <1>5. \A v \in Worker \ {w} :
          adding[v].pc \in {"touch", "return"} => adding[v].cone # c
    BY <1>2 DEF MarkedOnce
  <1>6. Marking' = Marking \ {c} /\ c \in Marking
    BY <1>2, <1>5, MarkingIs, MarkingIsNext
  <1>7. NoLostMark'
    BY <1>3, <1>6 DEF NoLostMark, Touch, unmark
  <1>8. MarkedOnce'
    BY <1>2, <1>3, <1>5 DEF MarkedOnce, Touch, unmark
  <1>9. CallShape'
    BY <1>2, <1>3 DEF CallShape, Touch, unmark
  <1>10. c \notin retrieved
    BY <1>2 DEF MarkedOnce
  <1>11. ScanShape'
    BY <1>3, <1>10 DEF ScanShape, Touch, unmark
  <1> QED
    BY <1>4, <1>7, <1>8, <1>9, <1>11

\* The call returns true, the first and last one for its cone.
LEMMA ReturnTruePreserves ==
  ASSUME IInv, NEW w \in Worker, ReturnTrue(w)
  PROVE  IInv'
  <1> USE DEF IInv
  <1> DEFINE c == adding[w].cone
  <1>1. c \in Cone /\ successes[c] = 0
    BY CallTypes DEF ReturnTrue, CallShape
  <1>2. /\ adding[w].pc = "return"
        /\ adding'[w].pc = "idle"
        /\ \A v \in Worker \ {w} : adding'[v] = adding[v]
    BY DEF ReturnTrue, TypeOK, Idle
  <1>3. /\ successes'[c] = 1
        /\ \A d \in Cone \ {c} : successes'[d] = successes[d]
        /\ successes' \in [Cone -> 0..1]
    BY <1>1 DEF ReturnTrue, TypeOK
  <1>4. TypeOK'
    BY <1>3 DEF ReturnTrue, TypeOK, unmark
  <1>5. Marking' = Marking
    <2>1. \A d : d \in Marking' <=> d \in Marking
      BY <1>2, MarkingIs, MarkingIsNext
    <2> QED
      BY <2>1
  <1>6. NoLostMark'
    BY <1>5 DEF NoLostMark, ReturnTrue, unmark
  <1>7. MarkedOnce'
    BY <1>2 DEF MarkedOnce, ReturnTrue, unmark
  <1>8. \A v \in Worker \ {w} :
          adding[v].pc \in {"touch", "return"} =>
            adding[v].cone # c /\ adding[v].cone \in Cone
    BY <1>2, CallTypes DEF MarkedOnce
  <1>9. c \in dirs
    BY <1>2 DEF CallShape, NoLostMark
  <1>10. CallShape'
    BY <1>2, <1>3, <1>8, <1>9 DEF CallShape, ReturnTrue, unmark
  <1>11. ScanShape'
    BY DEF ScanShape, ReturnTrue, unmark
  <1> QED
    BY <1>4, <1>6, <1>7, <1>10, <1>11

-----------------------------------------------------------------------------
(* unmarkCones() *)

LEMMA BeginUnmarkPreserves ==
  ASSUME IInv, NEW n \in Nat, BeginUnmark(n)
  PROVE  IInv'
  <1> USE DEF IInv
  <1>1. TypeOK'
    BY DEF BeginUnmark, TypeOK
  <1>2. Marking' = Marking
    BY DEF BeginUnmark, Marking
  <1>3. NoLostMark' /\ MarkedOnce' /\ CallShape'
    BY <1>2 DEF NoLostMark, MarkedOnce, CallShape, BeginUnmark
  <1>4. ScanShape'
    BY FS_EmptySet DEF ScanShape, BeginUnmark
  <1> QED
    BY <1>1, <1>3, <1>4

\* The scan holds marks only, not more than it was asked for.
LEMMA FindMarkPreserves ==
  ASSUME IInv, NEW c \in Cone, FindMark(c)
  PROVE  IInv'
  <1> USE DEF IInv
  <1>1. TypeOK'
    BY DEF FindMark, TypeOK
  <1>2. Marking' = Marking
    BY DEF FindMark, Marking
  <1>3. NoLostMark' /\ MarkedOnce' /\ CallShape'
    BY <1>2 DEF NoLostMark, MarkedOnce, CallShape, FindMark
  <1>4. IsFiniteSet(cones)
    BY LinearAssumption, FS_Subset DEF TypeOK
  <1>5. Cardinality(cones \cup {c}) = Cardinality(cones) + 1
    BY <1>4, FS_AddElement DEF FindMark
  <1>6. Cardinality(cones) \in Nat
    BY <1>4, FS_CardinalityType
  <1>7. Cardinality(cones') <= limit'
    BY <1>5, <1>6 DEF FindMark, TypeOK
  <1>8. ScanShape'
    BY <1>7 DEF ScanShape, FindMark
  <1> QED
    BY <1>1, <1>3, <1>8

\* The cones found become those retrieved, their marks still there.
LEMMA EndScanPreserves ==
  ASSUME IInv, EndScan
  PROVE  IInv'
  <1> USE DEF IInv
  <1>1. TypeOK'
    BY DEF EndScan, TypeOK
  <1>2. Marking' = Marking
    BY DEF EndScan, Marking
  <1>3. cones \subseteq marks
    BY DEF EndScan, ScanShape
  <1>4. NoLostMark' /\ CallShape'
    BY <1>2, <1>3 DEF NoLostMark, CallShape, EndScan
  <1>5. MarkedOnce'
    BY <1>3 DEF MarkedOnce, EndScan
  <1>6. ScanShape'
    BY <1>3 DEF ScanShape, EndScan
  <1> QED
    BY <1>1, <1>4, <1>5, <1>6

\* Only marks of retrieved cones are removed.
LEMMA RemoveMarkPreserves ==
  ASSUME IInv, NEW c \in Cone, RemoveMark(c)
  PROVE  IInv'
  <1> USE DEF IInv
  <1>1. TypeOK'
    BY DEF RemoveMark, TypeOK
  <1>2. Marking' = Marking
    BY DEF RemoveMark, Marking
  <1>3. c \in retrieved
    BY DEF RemoveMark, ScanShape
  <1>4. NoLostMark' /\ MarkedOnce' /\ CallShape'
    BY <1>2, <1>3 DEF NoLostMark, MarkedOnce, CallShape, RemoveMark
  <1>5. ScanShape'
    BY DEF ScanShape, RemoveMark
  <1> QED
    BY <1>1, <1>4, <1>5

LEMMA EndUnmarkPreserves ==
  ASSUME IInv, EndUnmark
  PROVE  IInv'
  <1> USE DEF IInv
  <1>1. TypeOK'
    BY DEF EndUnmark, TypeOK
  <1>2. Marking' = Marking
    BY DEF EndUnmark, Marking
  <1>3. NoLostMark' /\ MarkedOnce' /\ CallShape'
    BY <1>2 DEF NoLostMark, MarkedOnce, CallShape, EndUnmark
  <1>4. ScanShape'
    BY DEF ScanShape, EndUnmark
  <1> QED
    BY <1>1, <1>3, <1>4

LEMMA SavePreserves ==
  ASSUME IInv, Save
  PROVE  IInv'
  <1> USE DEF IInv
  <1>1. TypeOK'
    BY DEF Save, All, TypeOK, unmark
  <1>2. Marking' = Marking
    BY DEF Save, Marking
  <1>3. NoLostMark' /\ MarkedOnce' /\ CallShape' /\ ScanShape'
    BY <1>2 DEF NoLostMark, MarkedOnce, CallShape, ScanShape, Save, unmark
  <1> QED
    BY <1>1, <1>3

-----------------------------------------------------------------------------
(* The invariant and what follows from it *)

LEMMA NextPreserves == IInv /\ [Next]_vars => IInv'
  <1> SUFFICES ASSUME IInv, [Next]_vars PROVE IInv'
    OBVIOUS
  <1>1. ASSUME NEW w \in Worker, Add(w)
        PROVE  IInv'
    BY <1>1, CreateDirectoryPreserves, TouchPreserves, ReturnTruePreserves
       DEF Add
  <1>2. ASSUME NEW w \in Worker, NEW c \in Cone, Call(w, c)
        PROVE  IInv'
    BY <1>2, CallPreserves
  <1>3. ASSUME NEW n \in 0..Cardinality(Cone), BeginUnmark(n)
        PROVE  IInv'
    BY <1>3, BeginUnmarkPreserves
  <1>4. ASSUME Unmark
        PROVE  IInv'
    BY <1>4, FindMarkPreserves, RemoveMarkPreserves, EndScanPreserves,
       EndUnmarkPreserves DEF Unmark
  <1>5. CASE Save
    BY <1>5, SavePreserves
  <1>6. CASE UNCHANGED vars
    BY <1>6 DEF vars, unmark, IInv, TypeOK, NoLostMark, Marking, MarkedOnce,
       CallShape, ScanShape
  <1> QED
    BY <1>1, <1>2, <1>3, <1>4, <1>5, <1>6 DEF Next

\* Every reachable state of the storage satisfies the inductive invariant.
THEOREM LinearInvariant == Spec => []IInv
  BY InitIInv, NextPreserves, PTL DEF Spec

\* The variables keep their types; no two calls return true for one cone.
THEOREM LinearTypeCorrect == Spec => []TypeOK
  BY LinearInvariant, PTL DEF IInv

\* However calls interleave, a cone that has got its directory is marked, or
\* retrieved, or about to be marked by the one call that created it.
THEOREM LinearLosesNoMark == Spec => []NoLostMark
  BY LinearInvariant, PTL DEF IInv

\* Two racing calls never both mark a cone, and none marks it again after it
\* was retrieved.
THEOREM LinearMarksOnce == Spec => []MarkedOnce
  BY LinearInvariant, PTL DEF IInv

-----------------------------------------------------------------------------
(* The storage implements the contract of IConeStorage *)

LEMMA ContractCardinality == \A S : Contract!Cardinality(S) = Cardinality(S)
  BY DEF Cardinality, Contract!Cardinality

LEMMA StepRefines ==
  ASSUME IInv, [Next]_vars
  PROVE  [Contract!Next]_(Contract!storageVars)
  <1> USE DEF IInv
  <1>1. ASSUME NEW w \in Worker, CreateDirectory(w)
        PROVE  [Contract!Next]_(Contract!storageVars)
    <2> DEFINE c == adding[w].cone
    <2>1. CASE c \in dirs
      BY <1>1, <2>1 DEF CreateDirectory, Exists, unmark, Contract!storageVars
    <2>2. CASE c \notin dirs
      <3>1. c \in Cone
        BY <1>1, CallTypes DEF CreateDirectory
      <3>2. Contract!Store(c)
        BY <1>1, <2>2 DEF CreateDirectory, unmark, Contract!Store
      <3> QED
        BY <3>1, <3>2 DEF Contract!Next
    <2> QED
      BY <2>1, <2>2
  <1>2. ASSUME NEW w \in Worker, Touch(w)
        PROVE  Contract!Next
    <2> DEFINE c == adding[w].cone
    <2>1. c \in Cone
      BY <1>2, CallTypes DEF Touch
    <2>2. c \notin marks \cup retrieved /\ c \in dirs
      BY <1>2, MarkingIs DEF Touch, MarkedOnce, NoLostMark
    <2>3. unmarking = "removing" => c \notin cones
      BY <2>2 DEF ScanShape
    <2>4. Contract!Mark(c)
      BY <1>2, <2>2, <2>3 DEF Touch, unmark, Contract!Mark
    <2> QED
      BY <2>1, <2>4 DEF Contract!Next
  <1>3. ASSUME NEW w \in Worker, ReturnTrue(w)
        PROVE  Contract!Next
    <2> DEFINE c == adding[w].cone
    <2>1. c \in Cone /\ successes[c] = 0 /\ c \in marks \cup retrieved
      BY <1>3, CallTypes DEF ReturnTrue, CallShape
    <2>2. unmarking = "removing" => cones \subseteq retrieved
      BY DEF ScanShape
    <2>3. successes' = [successes EXCEPT ![c] = 1]
      BY <1>3, <2>1 DEF ReturnTrue, TypeOK
    <2>4. Contract!Succeed(c)
      BY <1>3, <2>1, <2>2, <2>3 DEF ReturnTrue, unmark, Contract!Succeed
    <2> QED
      BY <2>1, <2>4 DEF Contract!Next
  <1>4. ASSUME NEW n \in 0..Cardinality(Cone), BeginUnmark(n)
        PROVE  Contract!Next
    <2>1. Contract!BeginUnmark(n)
      BY <1>4 DEF BeginUnmark, Contract!BeginUnmark
    <2> QED
      BY <1>4, <2>1, ContractCardinality DEF Contract!Next
  <1>5. ASSUME EndScan
        PROVE  Contract!Next
    <2>1. /\ cones \subseteq marks
          /\ Cardinality(cones) <= limit
      BY <1>5 DEF EndScan, ScanShape
    <2>2. IsFiniteSet(cones)
      BY LinearAssumption, FS_Subset DEF TypeOK
    <2>3. Cardinality(cones) \in Nat /\ limit \in Nat
      BY <2>2, FS_CardinalityType DEF TypeOK
    <2>4. Cardinality(cones) < limit => seen \subseteq cones
      BY <1>5, <2>3 DEF EndScan
    <2>5. Contract!EndUnmark(cones)
      BY <1>5, <2>1, <2>4, ContractCardinality DEF EndScan, Contract!EndUnmark
    <2> QED
      BY <1>5, <2>1, <2>5 DEF Contract!Next, EndScan
  <1>6. ASSUME NEW c \in Cone, RemoveMark(c)
        PROVE  UNCHANGED Contract!storageVars
    BY <1>6 DEF RemoveMark, Contract!storageVars
  <1>7. ASSUME EndUnmark
        PROVE  UNCHANGED Contract!storageVars
    <2>1. marks \cap cones = {}
      BY <1>7 DEF EndUnmark, ScanShape
    <2> QED
      BY <1>7, <2>1 DEF EndUnmark, Contract!storageVars
  <1>8. ASSUME NEW c \in Cone, FindMark(c)
        PROVE  UNCHANGED Contract!storageVars
    BY <1>8 DEF FindMark, Contract!storageVars
  <1>9. ASSUME NEW w \in Worker, NEW c \in Cone, Call(w, c)
        PROVE  UNCHANGED Contract!storageVars
    BY <1>9 DEF Call, unmark, Contract!storageVars
  <1>10. ASSUME Save \/ UNCHANGED vars
         PROVE  UNCHANGED Contract!storageVars
    BY <1>10 DEF Save, vars, unmark, Contract!storageVars
  <1> QED
    BY <1>1, <1>2, <1>3, <1>4, <1>5, <1>6, <1>7, <1>8, <1>9, <1>10
       DEF Next, Add, Unmark

\* Every behaviour of the storage is one that the contract of IConeStorage
\* allows: the safety part of KeepsContract.
THEOREM LinearKeepsContract == Spec => Contract!Spec
  <1>1. Init => Contract!Init
    BY DEF Init, Contract!Init
  <1>2. IInv /\ [Next]_vars => [Contract!Next]_(Contract!storageVars)
    BY StepRefines
  <1> QED
    BY <1>1, <1>2, LinearInvariant, PTL DEF Spec, Contract!Spec
=============================================================================
