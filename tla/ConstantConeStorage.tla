------------------------ MODULE ConstantConeStorage ------------------------
(***************************************************************************)
(* The cone storage of storage/filesystem/constant_conestorage.cpp over    *)
(* the containers of string_container.cpp: a directory tree _all of all    *)
(* cones and a tree _marked of the marked ones.  Directories of _marked    *)
(* that become empty are removed, so that unmarkCones() need not walk      *)
(* through those of old cones; the workers that add cones race with it.    *)
(*                                                                         *)
(* A cone is the path of its directory, a sequence of names below the root *)
(* of the tree.  Nothing is ever removed from _all, so that adding a path  *)
(* to it is decided by the mkdir of the last directory alone, one step;    *)
(* in _marked every system call is a step.                                 *)
(*                                                                         *)
(* MaxFaults calls of the file system may fail with an error of their own  *)
(* (quota, a network file system).                                         *)
(***************************************************************************)
EXTENDS Naturals, FiniteSets, Sequences, SequencesExt, StoragePaths

CONSTANTS
  Cone,       \* the paths of the cones: _asPath() of their hashes
  Worker,     \* callers of addMarkedCone()
  Boundary,   \* BOUNDARY, the index of the last try
  MaxFaults

\* The suffix that _asPath() appends tells cones from the directories above.
ASSUME ConstantAssumption ==
  /\ IsFiniteSet(Cone)
  /\ \A c \in Cone : /\ asString(c) \in Seq(STRING) /\ Accepted(asString(c))
                     /\ \E length \in 1..Len(asString(c)) :
                          c = asPath(asString(c), length)
  /\ Boundary \in Nat
  /\ MaxFaults \in Nat

VARIABLES
  all,        \* the cones in _all
  dirs,       \* the directories in _marked
  adding,     \* the addMarkedCone() call of each worker
  unmarking,  \* unmarkCones(): what it does next
  limit,      \* its argument n
  cones,      \* its local variable, the cones found
  removed,    \* those of them it is done with
  current,    \* the cone it removes, <<>> in between
  path,       \* the directory of that cone to be removed next
  try,        \* the index of the try to remove it
  faults,     \* file system errors so far
  seen,       \* history: the cones marked when the scan began
  retrieved,  \* history: the cones unmarkCones() has decided to return
  successes,  \* history: how many calls for a cone returned true
  saved       \* what saveConesPersistently() has answered, and its file

unmark == <<unmarking, limit, cones, removed, current, path, try, seen,
            retrieved>>
vars == <<all, dirs, adding, unmark, faults, successes, saved>>

\* The directory i levels below the root on the way to c, and what a
\* directory path has above and below it.
Dir(c, i) == SubSeq(c, 1, i)
Dirs == UNION {{Dir(c, i) : i \in 1..Len(c)} : c \in Cone}
Parent(d) == Front(d)
IsEmpty(d) == \A e \in dirs : Parent(e) # d

\* The cones in _marked.
Marks == {d \in dirs : isAtValidPosition(d)}

Idle == [pc |-> "idle"]
Failed == [pc |-> "failed"]
At(pc, c, i, k) == [pc |-> pc, cone |-> c, level |-> i, try |-> k]
Calls == [pc : {"all", "mkdir", "stat", "return"}, cone : Cone, level : Nat,
          try : 0..Boundary]

TypeOK ==
  /\ all \in SUBSET Cone
  /\ dirs \in SUBSET Dirs
  /\ adding \in [Worker -> {Idle, Failed} \cup Calls]
  /\ \A w \in Worker :
       adding[w] \notin {Idle, Failed} =>
         adding[w].level \in 1..Len(adding[w].cone)
  /\ unmarking \in {"idle", "scanning", "removing", "failed"}
  /\ limit \in Nat
  /\ cones \in SUBSET Cone
  /\ removed \in SUBSET cones
  /\ current \in Cone \cup {<<>>}
  /\ path \in Dirs \cup {<<>>}
  /\ try \in 0..Boundary
  /\ faults \in 0..MaxFaults
  /\ seen \in SUBSET Cone
  /\ retrieved \in SUBSET Cone
  /\ successes \in [Cone -> 0..1]
  /\ saved \in [answer : {"none", "true", "false"}, file : SUBSET Cone]

\* Before saveConesPersistently() is called.
Unsaved == [answer |-> "none", file |-> {}]

Init ==
  /\ all = {} /\ dirs = {}
  /\ adding = [w \in Worker |-> Idle]
  /\ unmarking = "idle" /\ limit = 0
  /\ cones = {} /\ removed = {}
  /\ current = <<>> /\ path = <<>> /\ try = 0
  /\ faults = 0
  /\ seen = {} /\ retrieved = {}
  /\ successes = [c \in Cone |-> 0]
  /\ saved = Unsaved

-----------------------------------------------------------------------------
(* addMarkedCone() *)

\* A job calls addMarkedCone(c); none is called after the cones were saved.
Call(w, c) ==
  /\ adding[w] = Idle
  /\ saved.answer = "none"
  /\ adding' = [adding EXCEPT ![w] = At("all", c, 1, 0)]
  /\ UNCHANGED <<all, dirs, unmark, faults, successes, saved>>

\* The next try after an exception, or the exception leaves the call.
Retry(a) ==
  IF a.try >= Boundary THEN Failed ELSE At("all", a.cone, 1, a.try + 1)

\* Fault: the cone is looked up in _marked.
InMarked(c) == c \in Marks

\* Is there a directory of the cone in _all, so that _all.add() is false?
InAll(c) == c \in all

\* _all.add(): false ends the call, also that of a later try.
AddToAll(w) ==
  /\ adding[w].pc = "all"
  /\ LET c == adding[w].cone
     IN  /\ all' = all \cup {c}
         /\ adding' = [adding EXCEPT ![w] =
                         IF InAll(c) THEN Idle ELSE [@ EXCEPT !.pc = "mkdir"]]
  /\ UNCHANGED <<dirs, unmark, faults, successes, saved>>

\* The directory exists now; on to the one below it.
Descend(a) ==
  IF a.level = Len(a.cone)
  THEN [a EXCEPT !.pc = "return"]
  ELSE [a EXCEPT !.pc = "mkdir", !.level = @ + 1]

\* Fault: only the directory itself is tried again.
AgainHere(a) == a

\* The parent is missing: createDirectoryRecursive() starts over at the root.
FromTheRoot(a) == [a EXCEPT !.level = 1]

\* mkdir of create_directory() in _marked.add(): the directory is created, or
\* it exists, or its parent was removed.
Mkdir(w) ==
  /\ adding[w].pc = "mkdir"
  /\ LET a == adding[w]
         d == Dir(a.cone, a.level)
     IN  \/ /\ d \in dirs
            /\ adding' = [adding EXCEPT ![w].pc = "stat"]
            /\ UNCHANGED dirs
         \/ /\ d \notin dirs
            /\ a.level = 1 \/ Parent(d) \in dirs
            /\ dirs' = dirs \cup {d}
            /\ adding' = [adding EXCEPT ![w] = Descend(a)]
         \/ /\ d \notin dirs
            /\ a.level > 1 /\ Parent(d) \notin dirs
            /\ adding' = [adding EXCEPT ![w] = FromTheRoot(a)]
            /\ UNCHANGED dirs
  /\ UNCHANGED <<all, unmark, faults, successes, saved>>

\* mkdir found that the directory exists, and create_directory() asks whether
\* it is a directory.  If it is gone meanwhile it throws file_exists, which
\* createDirectoryRecursive() does not handle.  A cone that is marked already
\* is a logic_error.
Stat(w) ==
  /\ adding[w].pc = "stat"
  /\ LET a == adding[w]
     IN  adding' = [adding EXCEPT ![w] =
                      IF Dir(a.cone, a.level) \in dirs /\ a.level < Len(a.cone)
                      THEN Descend(a)
                      ELSE Retry(a)]
  /\ UNCHANGED <<all, dirs, unmark, faults, successes, saved>>

ReturnTrue(w) ==
  /\ adding[w].pc = "return"
  /\ successes' = [successes EXCEPT ![adding[w].cone] = @ + 1]
  /\ adding' = [adding EXCEPT ![w] = Idle]
  /\ UNCHANGED <<all, dirs, unmark, faults, saved>>

\* A system call of a try fails.
AddFails(w) ==
  /\ adding[w].pc \in {"all", "mkdir"}
  /\ faults < MaxFaults
  /\ faults' = faults + 1
  /\ adding' = [adding EXCEPT ![w] = Retry(@)]
  /\ UNCHANGED <<all, dirs, unmark, successes, saved>>

-----------------------------------------------------------------------------
(* unmarkCones(), invoked sequentially *)

BeginUnmark(n) ==
  /\ unmarking = "idle"
  /\ saved.answer = "none"
  /\ unmarking' = "scanning"
  /\ limit' = n
  /\ seen' = Marks
  /\ UNCHANGED <<all, dirs, adding, cones, removed, current, path, try,
                 retrieved, faults, successes, saved>>

\* The iterator of _marked comes upon a cone.
FindCone(c) ==
  /\ unmarking = "scanning"
  /\ Cardinality(cones) < limit
  /\ c \in Marks \ cones
  /\ cones' = cones \cup {c}
  /\ UNCHANGED <<all, dirs, adding, unmarking, limit, removed, current, path,
                 try, seen, retrieved, faults, successes, saved>>

\* The limit, or the end of the iteration.
EndScan ==
  /\ unmarking = "scanning"
  /\ Cardinality(cones) >= limit \/ seen \subseteq cones
  /\ unmarking' = "removing"
  /\ limit' = 0
  /\ seen' = {}
  /\ retrieved' = retrieved \cup cones
  /\ UNCHANGED <<all, dirs, adding, cones, removed, current, path, try, faults,
                 successes, saved>>

\* _marked.remove(c) begins, with the directory of the cone.
BeginRemove(c) ==
  /\ unmarking = "removing"
  /\ current = <<>>
  /\ c \in cones \ removed
  /\ current' = c
  /\ path' = c
  /\ try' = 0
  /\ UNCHANGED <<all, dirs, adding, unmarking, limit, cones, removed, seen,
                 retrieved, faults, successes, saved>>

\* Fault: parents are left behind.
OnlyTheCone(d) == <<>>

\* removeIfEmpty() goes on with the parent, up to the root.
Above(d) == Parent(d)

\* rmdir, with no effect on a directory that is not empty or not there.
Rmdir ==
  /\ unmarking = "removing"
  /\ current # <<>>
  /\ dirs' = IF IsEmpty(path) THEN dirs \ {path} ELSE dirs
  /\ path' = Above(path)
  /\ IF path' = <<>>
     THEN current' = <<>> /\ removed' = removed \cup {current}
     ELSE UNCHANGED <<current, removed>>
  /\ UNCHANGED <<all, adding, unmarking, limit, cones, try, seen, retrieved,
                 faults, successes, saved>>

\* A system call fails: _marked.remove() is tried again from its beginning,
\* or the exception leaves unmarkCones().
RemoveFails ==
  /\ unmarking = "removing"
  /\ current # <<>>
  /\ faults < MaxFaults
  /\ faults' = faults + 1
  /\ IF try >= Boundary
     THEN unmarking' = "failed" /\ UNCHANGED <<path, try>>
     ELSE path' = current /\ try' = try + 1 /\ UNCHANGED unmarking
  /\ UNCHANGED <<all, dirs, adding, limit, cones, removed, current, seen,
                 retrieved, successes, saved>>

EndUnmark ==
  /\ unmarking = "removing"
  /\ current = <<>> /\ removed = cones
  /\ unmarking' = "idle"
  /\ cones' = {}
  /\ removed' = {}
  /\ UNCHANGED <<all, dirs, adding, limit, current, path, try, seen, retrieved,
                 faults, successes, saved>>

-----------------------------------------------------------------------------
\* saveConesPersistently(), when no other call is running; if a call has
\* failed, so has its job and the workflow, and nothing is saved.  If the file
\* cannot be opened, nothing is written and the answer is false (or it throws);
\* if a write fails, the rest is missing and the answer is true.
Save ==
  /\ unmarking = "idle"
  /\ \A w \in Worker : adding[w] = Idle
  /\ \/ saved' = [answer |-> "false", file |-> {}]
     \/ \E S \in SUBSET all :
          saved' = [answer |-> "true", file |-> S]
  /\ UNCHANGED <<all, dirs, adding, unmark, faults, successes>>

\* The workflow has failed and no call is running any more.
Aborted ==
  /\ unmarking \in {"idle", "failed"}
  /\ \A w \in Worker : adding[w] \in {Idle, Failed}
  /\ unmarking = "failed" \/ \E w \in Worker : adding[w] = Failed
  /\ UNCHANGED vars

Add(w) == AddToAll(w) \/ Mkdir(w) \/ Stat(w) \/ ReturnTrue(w)

Unmark ==
  \/ \E c \in Cone : FindCone(c) \/ BeginRemove(c)
  \/ EndScan
  \/ Rmdir
  \/ EndUnmark

Next ==
  \/ \E w \in Worker : Add(w) \/ AddFails(w) \/ \E c \in Cone : Call(w, c)
  \/ \E n \in 0..Cardinality(Cone) : BeginUnmark(n)
  \/ Unmark
  \/ RemoveFails
  \/ Save
  \/ Aborted

Spec == Init /\ [][Next]_vars

\* A call that was begun goes on.
Fairness == WF_vars(Unmark) /\ \A w \in Worker : WF_vars(Add(w))

FairSpec == Spec /\ Fairness

-----------------------------------------------------------------------------
(* Properties *)

\* The cones that calls of addMarkedCone() may still mark.
Marking ==
  {adding[w].cone :
     w \in {v \in Worker : adding[v].pc \in {"all", "mkdir", "stat"}}}

\* No cone is lost: one that is in _all, and so will never be added again, is
\* marked or retrieved or will be marked by a call under way.
NoLostMark == all \subseteq Marks \cup retrieved \cup Marking

\* When no call is running every directory of _marked leads to a marked cone:
\* what was unmarked leaves nothing behind that a scan would walk through.
\* Only errors of the file system excuse a leftover.
NoEmptyDirectories ==
  /\ faults = 0
  /\ unmarking = "idle"
  /\ \A w \in Worker : adding[w] = Idle
  => \A d \in dirs : \E c \in Marks : IsPrefix(d, c)

\* Every call of addMarkedCone() ends, although the directories it needs are
\* removed under its hands.
CallsReturn ==
  \A w \in Worker : [](adding[w] # Idle => <>(adding[w] \in {Idle, Failed}))

\* The containers keep the safety part of the contract of IConeStorage: true
\* is returned once at most, not before the cone is marked, and a cone is
\* retrieved once at most.  A cone found by the scan counts as unmarked when
\* the scan has ended.
Contract ==
  INSTANCE ConeStorage WITH
    stored <- all,
    marked <- IF unmarking \in {"removing", "failed"}
              THEN Marks \ cones ELSE Marks,
    unmarked <- retrieved,
    scanning <- unmarking = "scanning"

KeepsContract == Contract!Spec

-----------------------------------------------------------------------------
(* The inductive invariant *)

\* A call that has entered its cone into _all, and so is the only one that
\* may mark it.
Committed(w) == adding[w].pc \in {"mkdir", "stat", "return"}

\* Of all calls for a cone one commits itself, once; it marks the cone and
\* returns true after that.
CallShape ==
  /\ Marks \cup retrieved \subseteq all
  /\ \A c \in Cone : successes[c] = 1 => c \in all
  /\ \A w \in Worker :
       /\ Committed(w) =>
            adding[w].cone \in all /\ successes[adding[w].cone] = 0
       /\ adding[w].pc \in {"mkdir", "stat"} =>
            adding[w].cone \notin Marks \cup retrieved
       /\ adding[w].pc = "return" => adding[w].cone \in Marks \cup retrieved
  /\ \A v, w \in Worker :
       Committed(v) /\ Committed(w) /\ adding[v].cone = adding[w].cone => v = w

\* What unmarkCones() has found stays marked until it is removed.
ScanShape ==
  /\ unmarking \in {"idle", "scanning"} =>
       /\ removed = {} /\ current = <<>>
       /\ Marks \cap retrieved = {}
  /\ unmarking = "idle" => cones = {}
  /\ unmarking = "scanning" =>
       cones \subseteq Marks /\ Cardinality(cones) <= limit
  /\ unmarking \in {"removing", "failed"} =>
       /\ cones \subseteq retrieved
       /\ Marks \cap retrieved \subseteq cones \ removed
  /\ current # <<>> =>
       /\ current \in cones \ removed
       /\ path # <<>>
       /\ path # current => current \notin Marks /\ ~ isAtValidPosition(path)

\* The directories that calls of addMarkedCone() have found or created last.
Held ==
  {Dir(adding[w].cone, adding[w].level - 1) :
     w \in {v \in Worker : adding[v].pc = "mkdir"}}
  \cup {Dir(adding[w].cone, adding[w].level) :
          w \in {v \in Worker : adding[v].pc = "stat"}}

\* Every directory leads to a marked cone, to a directory that is there and
\* that a call is about to go on from, or to the one to be removed next.
Leads(d) ==
  \/ \E c \in Marks : IsPrefix(d, c)
  \/ \E h \in Held \cap dirs : IsPrefix(d, h)
  \/ current # <<>> /\ IsPrefix(d, path)

DirectoriesLead == faults = 0 => \A d \in dirs : Leads(d)

IInv ==
  /\ TypeOK
  /\ CallShape
  /\ ScanShape
  /\ DirectoriesLead
=============================================================================
