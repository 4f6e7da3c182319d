------------------------- MODULE LinearConeStorage -------------------------
(***************************************************************************)
(* The cone storage of storage/filesystem/linear_conestorage.cpp: a cone   *)
(* is a directory, a marked cone a directory with the file "mark" in it.   *)
(* Workers add cones through the shared file system without a lock, while  *)
(* one job unmarks cones; mkdir, touch and rm are atomic, as the comment   *)
(* of the class asks of the file system.                                   *)
(*                                                                         *)
(* Directories above a cone's own are never removed and are left out.  An  *)
(* iteration over the directories returns every mark that is there from    *)
(* its begin to its end, and any of those that appear meanwhile.           *)
(***************************************************************************)
EXTENDS Naturals, FiniteSets

CONSTANTS
  Cone,
  Worker    \* callers of addMarkedCone()

ASSUME LinearAssumption == IsFiniteSet(Cone)

VARIABLES
  dirs,       \* the cones that have a directory
  marks,      \* those with a file "mark" in it
  adding,     \* the addMarkedCone() call of each worker
  unmarking,  \* unmarkCones(): "idle", "scanning" or "removing"
  limit,      \* its argument n
  cones,      \* its local variable, the marks found
  removed,    \* those of them it has removed
  seen,       \* history: the marks there were when the scan began
  retrieved,  \* history: the cones unmarkCones() has decided to return
  successes,  \* history: how many calls for a cone returned true
  saved       \* what saveConesPersistently() has answered, and its file

unmark == <<unmarking, limit, cones, removed, seen, retrieved>>
vars == <<dirs, marks, adding, unmark, successes, saved>>

Idle == [pc |-> "idle"]
At(pc, c) == [pc |-> pc, cone |-> c]

TypeOK ==
  /\ dirs \in SUBSET Cone
  /\ marks \in SUBSET Cone
  /\ adding \in [Worker -> {Idle} \cup
                  {At(pc, c) : pc \in {"mkdir", "touch", "return"}, c \in Cone}]
  /\ unmarking \in {"idle", "scanning", "removing"}
  /\ limit \in Nat
  /\ cones \in SUBSET Cone
  /\ removed \in SUBSET Cone
  /\ seen \in SUBSET Cone
  /\ retrieved \in SUBSET Cone
  /\ successes \in [Cone -> 0..1]
  /\ saved \in [answer : {"none", "true", "false"}, file : SUBSET Cone]

\* Before saveConesPersistently() is called.
Unsaved == [answer |-> "none", file |-> {}]

Init ==
  /\ dirs = {} /\ marks = {}
  /\ adding = [w \in Worker |-> Idle]
  /\ unmarking = "idle" /\ limit = 0
  /\ cones = {} /\ removed = {} /\ seen = {} /\ retrieved = {}
  /\ successes = [c \in Cone |-> 0]
  /\ saved = Unsaved

-----------------------------------------------------------------------------
(* addMarkedCone() *)

\* A job calls addMarkedCone(c); the traversal saves the cones at its end and
\* adds none after that.
Call(w, c) ==
  /\ adding[w] = Idle
  /\ saved.answer = "none"
  /\ adding' = [adding EXCEPT ![w] = At("mkdir", c)]
  /\ UNCHANGED <<dirs, marks, unmark, successes, saved>>

\* Fault: the directory is looked up by its mark.
HasMark(c) == c \in marks

\* Is there a directory of the cone, so that create_directory() is false?
Exists(c) == c \in dirs

\* The directory is the arbiter between the calls that race for a cone.
CreateDirectory(w) ==
  /\ adding[w].pc = "mkdir"
  /\ LET c == adding[w].cone
     IN  /\ dirs' = dirs \cup {c}
         /\ adding' = [adding EXCEPT ![w] = IF Exists(c) THEN Idle
                                            ELSE At("touch", c)]
  /\ UNCHANGED <<marks, unmark, successes, saved>>

\* Fault: the mark is never written.
TouchNothing(w) ==
  /\ adding[w].pc = "touch"
  /\ adding' = [adding EXCEPT ![w] = At("return", @.cone)]
  /\ UNCHANGED <<dirs, marks, unmark, successes, saved>>

Touch(w) ==
  /\ adding[w].pc = "touch"
  /\ marks' = marks \cup {adding[w].cone}
  /\ adding' = [adding EXCEPT ![w] = At("return", @.cone)]
  /\ UNCHANGED <<dirs, unmark, successes, saved>>

ReturnTrue(w) ==
  /\ adding[w].pc = "return"
  /\ successes' = [successes EXCEPT ![adding[w].cone] = @ + 1]
  /\ adding' = [adding EXCEPT ![w] = Idle]
  /\ UNCHANGED <<dirs, marks, unmark, saved>>

-----------------------------------------------------------------------------
(* unmarkCones(), invoked sequentially *)

BeginUnmark(n) ==
  /\ unmarking = "idle"
  /\ saved.answer = "none"
  /\ unmarking' = "scanning"
  /\ limit' = n
  /\ seen' = marks
  /\ UNCHANGED <<dirs, marks, adding, cones, removed, retrieved, successes,
                 saved>>

\* The iterator comes upon a mark.
FindMark(c) ==
  /\ unmarking = "scanning"
  /\ Cardinality(cones) < limit
  /\ c \in marks \ cones
  /\ cones' = cones \cup {c}
  /\ UNCHANGED <<dirs, marks, adding, unmarking, limit, removed, seen,
                 retrieved, successes, saved>>

\* The limit, or the end of the iteration.
EndScan ==
  /\ unmarking = "scanning"
  /\ Cardinality(cones) >= limit \/ seen \subseteq cones
  /\ unmarking' = "removing"
  /\ limit' = 0
  /\ seen' = {}
  /\ retrieved' = retrieved \cup cones
  /\ UNCHANGED <<dirs, marks, adding, cones, removed, successes, saved>>

\* Fault: the directory is removed with its mark.
RemoveDirectory(c) ==
  /\ unmarking = "removing"
  /\ c \in cones \ removed
  /\ marks' = marks \ {c}
  /\ dirs' = dirs \ {c}
  /\ removed' = removed \cup {c}
  /\ UNCHANGED <<adding, unmarking, limit, cones, seen, retrieved, successes,
                 saved>>

RemoveMark(c) ==
  /\ unmarking = "removing"
  /\ c \in cones \ removed
  /\ marks' = marks \ {c}
  /\ removed' = removed \cup {c}
  /\ UNCHANGED <<dirs, adding, unmarking, limit, cones, seen, retrieved,
                 successes, saved>>

EndUnmark ==
  /\ unmarking = "removing"
  /\ removed = cones
  /\ unmarking' = "idle"
  /\ cones' = {}
  /\ removed' = {}
  /\ UNCHANGED <<dirs, marks, adding, limit, seen, retrieved, successes, saved>>

-----------------------------------------------------------------------------
\* The cones in the storage: a mark stands for the directory it is in, an empty
\* directory for itself.
All == marks \cup {c \in dirs : c \notin marks}

\* saveConesPersistently(), when no other call is running.  If the file cannot
\* be opened, nothing is written and the answer is false (or it throws); if a
\* write fails, the rest is missing and the answer is true.
Save ==
  /\ unmarking = "idle"
  /\ \A w \in Worker : adding[w] = Idle
  /\ \/ saved' = [answer |-> "false", file |-> {}]
     \/ \E S \in SUBSET All :
          saved' = [answer |-> "true", file |-> S]
  /\ UNCHANGED <<dirs, marks, adding, unmark, successes>>

Add(w) == CreateDirectory(w) \/ Touch(w) \/ ReturnTrue(w)

Unmark ==
  \/ \E c \in Cone : FindMark(c) \/ RemoveMark(c)
  \/ EndScan
  \/ EndUnmark

Next ==
  \/ \E w \in Worker : Add(w) \/ \E c \in Cone : Call(w, c)
  \/ \E n \in 0..Cardinality(Cone) : BeginUnmark(n)
  \/ Unmark
  \/ Save

Spec == Init /\ [][Next]_vars

\* A call that was begun goes on.
Fairness == WF_vars(Unmark) /\ \A w \in Worker : WF_vars(Add(w))

FairSpec == Spec /\ Fairness

-----------------------------------------------------------------------------
(* Properties *)

\* The cones that calls of addMarkedCone() have still to mark.
Marking == {adding[w].cone : w \in {v \in Worker : adding[v].pc = "touch"}}

\* No cone is lost: one that has a directory, and so will never be added
\* again, is marked or retrieved or will be marked by a call under way.
NoLostMark == dirs = marks \cup retrieved \cup Marking

\* Two calls never mark the same cone, and none marks a cone a second time.
MarkedOnce ==
  /\ \A w \in Worker :
       adding[w].pc = "touch" => adding[w].cone \notin marks \cup retrieved
  /\ \A v, w \in Worker :
       v # w /\ adding[v].pc \in {"touch", "return"}
             /\ adding[w].pc \in {"touch", "return"} =>
         adding[v].cone # adding[w].cone

\* The race for directories and marks keeps the contract of IConeStorage; a
\* mark found by the scan counts as gone when the scan has ended.
Contract ==
  INSTANCE ConeStorage WITH
    stored <- dirs,
    marked <- IF unmarking = "removing" THEN marks \ cones ELSE marks,
    unmarked <- retrieved,
    scanning <- unmarking = "scanning"

KeepsContract == Contract!FairSpec

-----------------------------------------------------------------------------
(* The inductive invariant of the proofs *)

\* A call about to return true is the only one for its cone, which is marked
\* or has been retrieved meanwhile.
CallShape ==
  /\ \A w \in Worker :
       adding[w].pc = "return" => adding[w].cone \in marks \cup retrieved
  /\ \A w \in Worker :
       adding[w].pc \in {"touch", "return"} => successes[adding[w].cone] = 0
  /\ \A c \in Cone : successes[c] # 0 => c \in dirs

\* What unmarkCones() holds at each of its steps; the marks it has still to
\* remove are the only ones of retrieved cones.
ScanShape ==
  /\ unmarking = "idle" => cones = {} /\ removed = {}
  /\ unmarking = "scanning" => /\ cones \subseteq marks
                               /\ Cardinality(cones) <= limit
                               /\ removed = {}
  /\ unmarking = "removing" => removed \subseteq cones
  /\ unmarking # "scanning" => limit = 0 /\ seen = {}
  /\ marks \cap retrieved =
       IF unmarking = "removing" THEN cones \ removed ELSE {}
  /\ unmarking = "removing" => cones \subseteq retrieved

IInv ==
  /\ TypeOK
  /\ NoLostMark
  /\ MarkedOnce
  /\ CallShape
  /\ ScanShape
=============================================================================
