---------------------------- MODULE WatchesProofs ----------------------------
(***************************************************************************)
(* Proofs about watches, moves and executions, for any callers, tasks and  *)
(* URIs and any number of calls, failed steps and crashes: URIs first,     *)
(* then one lemma per kind of step, then the theorems.                     *)
(***************************************************************************)
EXTENDS Watches, TLAPS, SequenceTheorems

Names == Seq(STRING)

\* Under, element by element.
LEMMA UnderElements ==
    ASSUME NEW u \in Names, NEW p \in Names
    PROVE  Under(u, p) <=> Len(p) <= Len(u) /\ \A i \in 1..Len(p) : u[i] = p[i]
<1>1. ASSUME Len(p) <= Len(u)
      PROVE  SubSeq(p, 1, Len(p)) = SubSeq(u, 1, Len(p)) <=> \A i \in 1..Len(p) : u[i] = p[i]
  <2> DEFINE a == SubSeq(p, 1, Len(p))
             b == SubSeq(u, 1, Len(p))
  <2>1. Len(p) \in Nat /\ Len(u) \in Nat
    BY DEF Names
  <2>2. a \in Names /\ b \in Names
    BY <1>1, <2>1 DEF Names
  <2>3. Len(a) = Len(p) /\ Len(b) = Len(p)
    BY <1>1, <2>1 DEF Names
  <2>4. \A i \in 1..Len(p) : a[i] = p[i] /\ b[i] = u[i]
    BY <1>1, <2>1 DEF Names
  <2>5. a = b <=> \A i \in 1..Len(p) : a[i] = b[i]
    <3> HIDE DEF a, b
    <3> QED BY <2>1, <2>2, <2>3 DEF Names
  <2> QED BY <2>4, <2>5
<1> QED BY <1>1 DEF Under, IsPrefix

\* Every URI is under itself.
LEMMA UnderItself == ASSUME NEW u \in Names PROVE Under(u, u)
BY UnderElements DEF Names

\* Under is transitive.
LEMMA UnderUnder ==
    ASSUME NEW u \in Names, NEW v \in Names, NEW w \in Names, Under(u, v), Under(v, w)
    PROVE  Under(u, w)
<1>1. Len(u) \in Nat /\ Len(v) \in Nat /\ Len(w) \in Nat
  BY DEF Names
<1> QED BY <1>1, UnderElements

\* Of two URIs above the same one, one is above the other.
LEMMA OneIsAbove ==
    ASSUME NEW x \in Names, NEW u \in Names, NEW v \in Names, Under(x, u), Under(x, v)
    PROVE  Under(u, v) \/ Under(v, u)
<1>1. Len(x) \in Nat /\ Len(u) \in Nat /\ Len(v) \in Nat
  BY DEF Names
<1> QED BY <1>1, UnderElements

\* What is under u is rewritten to something under v, everything else stays (_rewrite_uri_prefix).
LEMMA Rewritten ==
    ASSUME NEW x \in Names, NEW u \in Names, NEW v \in Names, Under(x, u)
    PROVE  /\ Rewrite(x, u, v) \in Names
           /\ Len(Rewrite(x, u, v)) = Len(v) + Len(x) - Len(u)
           /\ \A i \in 1..Len(v) : Rewrite(x, u, v)[i] = v[i]
           /\ \A i \in 1..Len(x) - Len(u) : Rewrite(x, u, v)[Len(v) + i] = x[Len(u) + i]
           /\ Under(Rewrite(x, u, v), v)
<1> DEFINE s == SubSeq(x, Len(u) + 1, Len(x))
<1>1. Len(x) \in Nat /\ Len(u) \in Nat /\ Len(v) \in Nat /\ Len(u) <= Len(x)
  BY UnderElements DEF Names
<1>2. s \in Names /\ Len(s) = Len(x) - Len(u)
  BY <1>1 DEF Names
<1>3. \A i \in 1..Len(x) - Len(u) : s[i] = x[Len(u) + i]
  BY <1>1 DEF Names
<1>4. Rewrite(x, u, v) = v \o s
  BY DEF Rewrite
<1> HIDE DEF s
<1>5. v \o s \in Names /\ Len(v \o s) = Len(v) + Len(s)
  BY <1>2, ConcatProperties DEF Names
<1>6. \A i \in 1..Len(v) : (v \o s)[i] = v[i]
  BY <1>1, <1>2 DEF Names
<1>7. \A i \in 1..Len(x) - Len(u) : (v \o s)[Len(v) + i] = s[i]
  BY <1>1, <1>2 DEF Names
<1>8. Under(v \o s, v)
  <2>1. Len(v) <= Len(v \o s)
    BY <1>1, <1>2, <1>5
  <2> QED BY <1>5, <1>6, <2>1, UnderElements
<1> QED BY <1>1, <1>2, <1>3, <1>4, <1>5, <1>6, <1>7, <1>8

\* What was rewritten is rewritten back.
LEMMA ThereAndBack ==
    ASSUME NEW x \in Names, NEW u \in Names, NEW v \in Names, Under(x, u)
    PROVE  Rewrite(Rewrite(x, u, v), v, u) = x
<1> DEFINE y == Rewrite(x, u, v)
           z == Rewrite(y, v, u)
<1>1. Len(x) \in Nat /\ Len(u) \in Nat /\ Len(v) \in Nat /\ Len(u) <= Len(x)
  BY UnderElements DEF Names
<1>2. /\ y \in Names /\ Len(y) = Len(v) + Len(x) - Len(u) /\ Under(y, v)
      /\ \A i \in 1..Len(x) - Len(u) : y[Len(v) + i] = x[Len(u) + i]
  BY Rewritten
<1> HIDE DEF y
<1>3. /\ z \in Names /\ Len(z) = Len(u) + Len(y) - Len(v)
      /\ \A i \in 1..Len(u) : z[i] = u[i]
      /\ \A i \in 1..Len(y) - Len(v) : z[Len(u) + i] = y[Len(v) + i]
  BY <1>2, Rewritten
<1> HIDE DEF z
<1>4. \A i \in 1..Len(u) : z[i] = x[i]
  BY <1>1, <1>3, UnderElements
<1>5. \A i \in 1..Len(x) - Len(u) : z[Len(u) + i] = x[Len(u) + i]
  <2>1. Len(y) - Len(v) = Len(x) - Len(u)
    BY <1>1, <1>2
  <2> QED BY <1>2, <1>3, <2>1
<1>6. Len(z) = Len(x)
  BY <1>1, <1>2, <1>3
<1>7. ASSUME NEW i \in 1..Len(x) PROVE z[i] = x[i]
  <2>1. CASE i <= Len(u)
    BY <1>1, <1>4, <2>1
  <2>2. CASE i > Len(u)
    <3>1. i - Len(u) \in 1..Len(x) - Len(u) /\ Len(u) + (i - Len(u)) = i
      BY <1>1, <2>2
    <3> QED BY <1>5, <3>1
  <2> QED BY <1>1, <2>1, <2>2
<1>8. z = x
  BY <1>3, <1>6, <1>7 DEF Names
<1> QED BY <1>8 DEF y, z

\* URIs are sequences of names.
LEMMA UrisAreNames == Uri \subseteq Names
BY UriAssumption DEF Names

\* What lies below one of two URIs that do not overlap is not below the other.
LEMMA ApartBelow ==
    ASSUME NEW U \in SUBSET Names, NEW V \in SUBSET Names, ~Overlap(U, V),
           NEW u \in U, NEW v \in V, NEW x \in Names, Under(x, u)
    PROVE  ~Under(x, v)
BY OneIsAbove DEF Overlap

\* Overlap does not depend on the order.
LEMMA OverlapSymmetric == \A U, V : Overlap(U, V) <=> Overlap(V, U)
BY DEF Overlap

-----------------------------------------------------------------------------
(***************************************************************************)
(* A step of one process and what it does to the moves of the others.      *)
(***************************************************************************)
LeaseSet == [kind : {"none", "access", "mutation"}, uris : SUBSET Uri]

Call0 == [at : Labels, task : Task \cup {None}, uri : Uri \cup {None},
          new : Uri \cup {None}, after : {None, "done", "moved"}, undo : Undo \cup {None}]

\* Targets change at the URIs U only, and files appear below them only, but for
\* those that a move without a lease brings.
Retargets(U) ==
    \A t \in Task :
        \/ /\ tasks[t] # None <=> tasks'[t] # None
           /\ tasks[t] # None => tasks'[t].to = tasks[t].to
        \/ /\ tasks[t] # None => \E w \in U : Under(tasks[t].to, w)
           /\ tasks'[t] # None => \E w \in U : Under(tasks'[t].to, w)

Grows(U) ==
    /\ strays \subseteq strays'
    /\ \A x \in tree' \ strays' : x \in tree \/ \E w \in U : Under(x, w)

\* Nobody but p moves something at the URIs U.
Apart(p, U) ==
    /\ U \subseteq Uri
    /\ \A q \in Proc \ {p} : lease[q].kind = "mutation" => ~Overlap(lease[q].uris, U)

OthersStay(p) == \A q \in Proc \ {p} : proc'[q] = proc[q] /\ lease'[q] = lease[q]

\* What a move has for itself is left alone.
LeftAlone(q) ==
    \A w \in {proc[q].uri, proc[q].new} :
        /\ \A t \in Task :
              \/ tasks[t] # None /\ Under(tasks[t].to, w)
              \/ tasks'[t] # None /\ Under(tasks'[t].to, w)
              => tasks[t] # None /\ tasks'[t] # None /\ tasks'[t].to = tasks[t].to
        /\ \A x \in tree' \ strays' : Under(x, w) => x \in tree \ strays

\* What a process does away from a move leaves the invariants of the move alone.
LEMMA MovesAreLeftAlone ==
    ASSUME TypeOK, TypeOK', NEW p \in Proc, NEW U, Apart(p, U), Retargets(U), Grows(U),
           NEW q \in Proc \ {p}, Known(q), Moves(q)
    PROVE  LeftAlone(q)
<1> DEFINE V == {proc[q].uri, proc[q].new}
<1>1. V \subseteq Names /\ U \subseteq Names /\ ~Overlap(V, U)
  BY UrisAreNames DEF Known, Apart
<1>2. \A x \in Names, u \in U, w \in V : Under(x, w) => ~Under(x, u)
  BY <1>1, ApartBelow
<1>3. /\ \A t \in Task : tasks[t] # None => tasks[t].to \in Names
      /\ \A t \in Task : tasks'[t] # None => tasks'[t].to \in Names
  BY UrisAreNames DEF TypeOK, TaskMap, Record
<1>4. tree' \subseteq Names
  BY UrisAreNames DEF TypeOK
<1> HIDE DEF V
<1>5. ASSUME NEW w \in V, NEW t \in Task,
             \/ tasks[t] # None /\ Under(tasks[t].to, w)
             \/ tasks'[t] # None /\ Under(tasks'[t].to, w)
      PROVE  tasks[t] # None /\ tasks'[t] # None /\ tasks'[t].to = tasks[t].to
  BY <1>2, <1>3, <1>5 DEF Retargets
<1>6. ASSUME NEW w \in V, NEW x \in tree' \ strays', Under(x, w) PROVE x \in tree \ strays
  BY <1>2, <1>4, <1>6 DEF Grows
<1> QED BY <1>5, <1>6 DEF LeftAlone, V

\* A process that rests keeps what is known of it, if its move is left alone.
LEMMA Rests ==
    ASSUME TypeOK, TypeOK', NEW q \in Proc, proc'[q] = proc[q], lease'[q] = lease[q],
           Known(q), HasRoom(q), CanGoBack(q), Moves(q) => LeftAlone(q),
           Saving(q) => tasks' = tasks
    PROVE  (Known(q) /\ HasRoom(q) /\ CanGoBack(q))'
<1>1. Moves(q)' <=> Moves(q)
  BY DEF Moves, Saving
<1>2. ASSUME Moves(q) PROVE Fits(proc[q].uri, proc[q].new)'
  BY <1>2 DEF Fits, Known
<1>3. Known(q)'
  <2>1. Emptied(q)'
    BY <1>1 DEF Emptied, LeftAlone, Known
  <2> QED BY <1>1, <1>2, <2>1 DEF Known
<1>4. HasRoom(q)'
  <2> SUFFICES ASSUME proc[q].at \in {"mv", "rewrite"}, NEW s \in Task, NEW t \in Task, s # t,
                      (t \in Targeting(proc[q].uri))', tasks'[s] # None,
                      tasks'[s].to = Rewrite(tasks'[t].to, proc[q].uri, proc[q].new)
               PROVE  FALSE
    BY DEF HasRoom
  <2> DEFINE u == proc[q].uri
             v == proc[q].new
  <2>1. Moves(q) /\ u \in Names /\ v \in Names
    BY UrisAreNames DEF Moves, Known
  <2>2. tasks'[t] # None /\ Under(tasks'[t].to, u)
    BY DEF Targeting
  <2>3. tasks[t] # None /\ tasks[t].to = tasks'[t].to
    BY <2>1, <2>2 DEF LeftAlone
  <2>4. tasks'[t].to \in Names
    BY <2>2, UrisAreNames DEF TypeOK, TaskMap, Record
  <2>5. Under(tasks'[s].to, v)
    BY <2>1, <2>2, <2>4, Rewritten
  <2>6. tasks[s] # None /\ tasks[s].to = tasks'[s].to
    BY <2>1, <2>5 DEF LeftAlone
  <2> QED BY <2>2, <2>3, <2>6 DEF HasRoom, Targeting
<1>5. CanGoBack(q)'
  <2>1. CASE Saving(q)
    BY <2>1 DEF CanGoBack, Saving, Restored, In, Agree
  <2>2. CASE In(q, "rollback")
    <3>1. Moves(q) /\ proc[q].undo \in Undo
      BY <2>2 DEF Moves, In, CanGoBack
    <3>2. ASSUME NEW t \in DOMAIN proc[q].undo.to
          PROVE  /\ tasks'[t] # None
                 /\ tasks'[t].to = tasks[t].to
      BY <2>2, <3>1, <3>2 DEF CanGoBack, LeftAlone, Undo
    <3> QED BY <2>2, <3>1, <3>2 DEF CanGoBack, Saving, In
  <2> QED BY <2>1, <2>2 DEF CanGoBack, Saving, In
<1> QED BY <1>3, <1>4, <1>5

\* The invariant from its parts: what the acting process knows and what it leaves alone.
LEMMA Compose ==
    ASSUME IInv, NEW p \in Proc, NEW U, Apart(p, U), Retargets(U), Grows(U), OthersStay(p),
           (TypeOK /\ Types /\ IndexMatches /\ LockIsHeld /\ LeasesExclude)',
           lock \in {None, p} \/ tasks' = tasks,
           (Known(p) /\ HasRoom(p) /\ CanGoBack(p))'
    PROVE  IInv'
<1> SUFFICES ASSUME NEW q \in Proc \ {p} PROVE (Known(q) /\ HasRoom(q) /\ CanGoBack(q))'
  BY DEF IInv
<1>1. Known(q) /\ HasRoom(q) /\ CanGoBack(q) /\ TypeOK
  BY DEF IInv
<1>2. Moves(q) => LeftAlone(q)
  BY <1>1, MovesAreLeftAlone
<1>3. Saving(q) => tasks' = tasks
  BY NoneAssumption DEF IInv, LockIsHeld
<1> QED BY <1>1, <1>2, <1>3, Rests DEF OthersStay

-----------------------------------------------------------------------------
(***************************************************************************)
(* Leases.                                                                 *)
(***************************************************************************)
LeasesKept(p) ==
    /\ lease' \in [Proc -> LeaseSet]
    /\ \A q \in Proc \ {p} : lease'[q] = lease[q]
    /\ LeasesExclude'

\* A step that takes no lease keeps them exclusive.
LEMMA LeaseStays ==
    ASSUME Types, LeasesExclude, NEW p \in Proc, UNCHANGED lease
    PROVE  LeasesKept(p)
BY DEF LeasesKept, Types, LeaseSet, LeasesExclude

\* The end of a lease keeps the others exclusive.
LEMMA LeaseEnds ==
    ASSUME Types, LeasesExclude, NEW p \in Proc, lease' = [lease EXCEPT ![p] = NoLease]
    PROVE  LeasesKept(p) /\ lease'[p] = NoLease
<1>1. lease' \in [Proc -> LeaseSet] /\ lease'[p] = NoLease
      /\ \A q \in Proc \ {p} : lease'[q] = lease[q]
  BY DEF Types, LeaseSet, NoLease
<1>2. LeasesExclude'
  BY <1>1 DEF LeasesExclude, NoLease, Overlap
<1> QED BY <1>1, <1>2 DEF LeasesKept

\* An access that is granted stays clear of every mutation.
LEMMA LeaseGrows ==
    ASSUME Types, LeasesExclude, NEW p \in Proc, NEW U \in SUBSET Uri,
           CanAccess(p, U), Access(p, U)
    PROVE  /\ LeasesKept(p) /\ Apart(p, U)
           /\ lease'[p].kind = "access" /\ lease'[p].uris = lease[p].uris \cup U
<1>1. lease' \in [Proc -> LeaseSet]
      /\ lease'[p] = [kind |-> "access", uris |-> lease[p].uris \cup U]
      /\ \A q \in Proc \ {p} : lease'[q] = lease[q]
  BY DEF Types, LeaseSet, Access
<1>2. LeasesExclude'
  <2>0. lease'[p].kind # "mutation" /\ lease'[p].uris = lease[p].uris \cup U
    BY <1>1
  <2> SUFFICES ASSUME NEW q \in Proc \ {p}, lease[q].kind = "mutation"
               PROVE  ~Overlap(lease[q].uris, lease[p].uris \cup U)
    BY <1>1, <2>0 DEF LeasesExclude
  <2>1. ~Overlap(lease[q].uris, lease[p].uris)
    BY DEF LeasesExclude
  <2>2. ~Overlap(lease[q].uris, U)
    BY DEF CanAccess
  <2> QED BY <2>1, <2>2 DEF Overlap
<1> QED BY <1>1, <1>2 DEF LeasesKept, Apart, CanAccess

\* A mutation that is granted stays clear of every lease.
LEMMA LeaseMutates ==
    ASSUME Types, LeasesExclude, NEW p \in Proc, NEW U \in SUBSET Uri, CanMutate(p, U),
           lease' = [lease EXCEPT ![p] = [kind |-> "mutation", uris |-> U]]
    PROVE  LeasesKept(p) /\ lease'[p] = [kind |-> "mutation", uris |-> U]
<1>1. lease' \in [Proc -> LeaseSet] /\ lease'[p] = [kind |-> "mutation", uris |-> U]
      /\ \A q \in Proc \ {p} : lease'[q] = lease[q]
  BY DEF Types, LeaseSet
<1>2. LeasesExclude'
  <2> SUFFICES ASSUME NEW q \in Proc \ {p}
               PROVE  /\ ~Overlap(lease[q].uris, U)
                      /\ ~Overlap(U, lease[q].uris)
    BY <1>1 DEF LeasesExclude
  <2> QED BY OverlapSymmetric DEF CanMutate
<1> QED BY <1>1, <1>2 DEF LeasesKept

\* The lease of a process keeps the moves of others away.
LEMMA LeaseHolds ==
    ASSUME Types, LeasesExclude, NEW p \in Proc, NEW U \in SUBSET Uri, U \subseteq lease[p].uris
    PROVE  Apart(p, U)
BY DEF Apart, LeasesExclude, Overlap, Types

\* No URI at all is apart from every move.
LEMMA ApartFromNothing == ASSUME NEW p \in Proc PROVE Apart(p, {})
BY DEF Apart, Overlap

-----------------------------------------------------------------------------
(***************************************************************************)
(* The two usual kinds of steps: one that leaves the tasks alone, and one  *)
(* that begins a save.                                                     *)
(***************************************************************************)
SaveLabels == {"tmp", "rmbak", "rotate", "swap"}

\* A step that neither begins nor goes on with a save.
LEMMA StepWithoutSave ==
    ASSUME IInv, NEW p \in Proc, UNCHANGED <<tasks, index, file, lock, promised>>,
           ~Saving(p), NEW r \in Call0, r.at \notin SaveLabels,
           proc' = [proc EXCEPT ![p] = r],
           LeasesKept(p), tree' \subseteq Uri, left' \in [calls : Nat, faults : Nat],
           NEW U, Apart(p, U), Grows(U),
           (Known(p) /\ HasRoom(p) /\ CanGoBack(p))'
    PROVE  IInv'
<1> USE DEF IInv
<1>1. proc' \in [Proc -> Call0] /\ proc'[p] = r /\ \A q \in Proc \ {p} : proc'[q] = proc[q]
  BY DEF Types, Call0
<1>2. OthersStay(p)
  BY <1>1 DEF OthersStay, LeasesKept
<1>3. TypeOK' /\ IndexMatches'
  BY DEF TypeOK, IndexMatches
<1>4. Types'
  BY <1>1 DEF Types, Call0, LeasesKept, LeaseSet, Readable, Sane
<1>5. LockIsHeld'
  BY <1>1 DEF LockIsHeld, Saving, SaveLabels
<1>6. Retargets(U)
  BY DEF Retargets
<1> QED BY <1>2, <1>3, <1>4, <1>5, <1>6, Compose DEF LeasesKept

\* A step that takes the lock for a save.
LEMMA StepToSave ==
    ASSUME IInv, NEW p \in Proc, UNCHANGED <<file, tree, left, strays>>, lock = None,
           NEW T \in TaskMap, NEW r \in Call0, r.at = "tmp",
           proc' = [proc EXCEPT ![p] = r], lock' = p, tasks' = T,
           promised' = promised \cup {T},
           index' \in [Uri -> Task \cup {None}], IndexMatches',
           LeasesKept(p), NEW U, Apart(p, U), Retargets(U),
           (Known(p) /\ HasRoom(p) /\ CanGoBack(p))'
    PROVE  IInv'
<1> USE DEF IInv
<1>1. proc' \in [Proc -> Call0] /\ proc'[p] = r /\ \A q \in Proc \ {p} : proc'[q] = proc[q]
  BY DEF Types, Call0
<1>2. OthersStay(p)
  BY <1>1 DEF OthersStay, LeasesKept
<1>3. TypeOK'
  BY DEF TypeOK
<1>4. Types'
  BY <1>1 DEF Types, Call0, LeasesKept, LeaseSet, Readable, Sane
<1>5. LockIsHeld'
  BY <1>1, NoneAssumption DEF LockIsHeld, Saving
<1>6. Grows(U)
  BY DEF Grows
<1> QED BY <1>2, <1>3, <1>4, <1>5, <1>6, Compose DEF LeasesKept

\* A save that is not a move's.
LEMMA PlainSave ==
    ASSUME IInv, NEW p \in Proc, UNCHANGED <<file, tree, left, strays>>, lock = None,
           NEW T \in TaskMap, Save(p, T, "done"), ~Moves(p),
           index' \in [Uri -> Task \cup {None}], IndexMatches',
           LeasesKept(p), lease'[p].kind # "mutation", NEW U, Apart(p, U), Retargets(U)
    PROVE  IInv'
<1> DEFINE r == [proc[p] EXCEPT !.at = "tmp", !.after = "done"]
<1>1. proc[p] \in Call0
  BY DEF IInv, Types, Call0
<1>2. r \in Call0 /\ r.at = "tmp" /\ r.after = "done"
  BY <1>1 DEF Call0, Labels
<1>3. proc' = [proc EXCEPT ![p] = r] /\ proc'[p] = r
  BY DEF Save, IInv, Types
<1> HIDE DEF r
<1>4. ~Moves(p)'
  BY <1>2, <1>3 DEF Moves
<1>5. (Known(p) /\ HasRoom(p) /\ CanGoBack(p))'
  BY <1>2, <1>3, <1>4 DEF Known, Emptied, HasRoom, CanGoBack, In
<1> QED BY <1>2, <1>3, <1>5, StepToSave DEF Save

\* A step after which the process moves nothing.
LEMMA PlainStep ==
    ASSUME IInv, NEW p \in Proc, UNCHANGED <<tasks, index, file, lock, promised>>,
           ~Saving(p), NEW r \in Call0,
           r.at \notin SaveLabels \cup {"validate", "mv", "rewrite", "rollback"},
           r.at \in {"create", "update", "sync"} => r.uri \in Uri,
           r.at \in {"update", "pause", "resume", "delete"} => r.task \in Task,
           r.at \in {"check", "refresh"} => r.uri \in Uri /\ r.uri \in lease'[p].uris,
           proc' = [proc EXCEPT ![p] = r],
           LeasesKept(p), lease'[p].kind # "mutation",
           tree' \subseteq Uri, left' \in [calls : Nat, faults : Nat],
           NEW U, Apart(p, U), Grows(U)
    PROVE  IInv'
<1>1. proc'[p] = r
  BY DEF IInv, Types
<1>2. ~Saving(p)' /\ ~Moves(p)'
  BY <1>1 DEF Saving, Moves, SaveLabels
<1>3. (Known(p) /\ HasRoom(p) /\ CanGoBack(p))'
  BY <1>1, <1>2 DEF Known, Emptied, HasRoom, CanGoBack, In
<1> QED BY <1>3, StepWithoutSave

\* A call that ends without a save.
LEMMA FinishStep ==
    ASSUME IInv, NEW p \in Proc, UNCHANGED <<tasks, index, file, lock, promised>>,
           ~Saving(p), Finish(p), tree' \subseteq Uri, left' \in [calls : Nat, faults : Nat],
           NEW U, Apart(p, U), Grows(U)
    PROVE  IInv'
<1>1. Idle \in Call0 /\ Idle.at = "idle"
  BY DEF Idle, Call0, Labels
<1>2. LeasesKept(p) /\ lease'[p].kind # "mutation"
  <2>1. LeasesKept(p) /\ lease'[p] = NoLease
    BY LeaseEnds DEF IInv, Finish
  <2> QED BY <2>1 DEF NoLease
<1> HIDE DEF Idle
<1> QED BY <1>1, <1>2, PlainStep DEF Finish, SaveLabels

\* The same without files.
LEMMA FinishQuietly ==
    ASSUME IInv, NEW p \in Proc, UNCHANGED <<tasks, index, file, lock, promised, tree, left, strays>>,
           ~Saving(p), Finish(p)
    PROVE  IInv'
<1>1. tree' \subseteq Uri /\ left' \in [calls : Nat, faults : Nat]
  BY DEF IInv, TypeOK, Types
<1>2. Apart(p, {}) /\ Grows({})
  BY ApartFromNothing DEF Grows
<1> QED BY <1>1, <1>2, FinishStep

-----------------------------------------------------------------------------
(***************************************************************************)
(* Calls on tasks.                                                         *)
(***************************************************************************)
\* What the invariant says of one process.
LEMMA IsKnown ==
    ASSUME IInv, NEW p \in Proc
    PROVE  /\ proc[p] \in Call0 /\ lease[p] \in LeaseSet
           /\ Known(p) /\ HasRoom(p) /\ CanGoBack(p)
           /\ tree \subseteq Uri /\ left \in [calls : Nat, faults : Nat]
           /\ tasks \in TaskMap /\ index \in [Uri -> Task \cup {None}]
           /\ Types /\ LeasesExclude /\ LockIsHeld /\ IndexMatches
BY DEF IInv, Types, TypeOK, Call0, LeaseSet

\* What is left of the bounds stays a number.
LEMMA SpentIsTyped ==
    ASSUME Types, NEW what \in {"calls", "faults"}, Spend(what)
    PROVE  left' \in [calls : Nat, faults : Nat]
BY DEF Types, Spend

\* A caller looks up the task of a URI.
LEMMA LookUpStep ==
    ASSUME IInv, NEW c \in Client, NEW u \in Uri, look_up(c, u) PROVE IInv'
<1>1. c \in Proc
  BY DEF Proc
<1>2. PICK at \in {"create", "update", "pause", "resume", "delete"} :
         /\ (at = "create") = (index[u] = None)
         /\ proc' = [proc EXCEPT ![c] = [Idle EXCEPT !.at = at, !.task = index[u], !.uri = u]]
  BY DEF look_up
<1> DEFINE r == [Idle EXCEPT !.at = at, !.task = index[u], !.uri = u]
<1>3. r.at = at /\ r.task = index[u] /\ r.uri = u /\ r \in Call0
  BY <1>1, IsKnown DEF Idle, Call0, Labels
<1>4. at # "create" => index[u] \in Task
  BY <1>1, <1>2, IsKnown
<1> HIDE DEF r
<1>5. ~Saving(c) /\ ~Moves(c) /\ lease[c].kind # "mutation"
  BY <1>1, IsKnown DEF look_up, In, Saving, Moves, Known
<1>6. LeasesKept(c) /\ lease'[c].kind # "mutation"
  BY <1>1, <1>5, IsKnown, LeaseStays DEF look_up
<1>7. tree' \subseteq Uri /\ left' \in [calls : Nat, faults : Nat]
  BY <1>1, IsKnown, SpentIsTyped DEF look_up
<1>8. Apart(c, {}) /\ Grows({})
  BY <1>1, ApartFromNothing DEF Grows, look_up
<1>9. UNCHANGED <<tasks, index, file, lock, promised>>
  BY DEF look_up
<1>10. proc' = [proc EXCEPT ![c] = r]
  BY <1>2 DEF r
<1> QED BY <1>1, <1>3, <1>4, <1>5, <1>6, <1>7, <1>8, <1>9, <1>10, PlainStep DEF SaveLabels

\* create_task gives a free target to a task of its own.
LEMMA CreateStep == ASSUME IInv, NEW c \in Client, create_task(c) PROVE IInv'
<1> DEFINE u == proc[c].uri
<1>1. c \in Proc
  BY DEF Proc
<1>2. u \in Uri /\ ~Saving(c) /\ ~Moves(c)
  BY <1>1, IsKnown DEF create_task, In, Known, Saving, Moves
<1>3. CASE Finish(c) /\ UNCHANGED <<tasks, index, lock, promised>>
  BY <1>1, <1>2, <1>3, FinishQuietly DEF create_task
<1>4. ASSUME index[u] = None, NEW t \in Fresh,
             Save(c, [tasks EXCEPT ![t] = [to |-> u, active |-> TRUE]], "done"),
             index' = [index EXCEPT ![u] = t], Access(c, {u})
      PROVE  IInv'
  <2> DEFINE T == [tasks EXCEPT ![t] = [to |-> u, active |-> TRUE]]
  <2>1. t \in Task /\ tasks[t] = None
    BY <1>4 DEF Fresh
  <2>2. [to |-> u, active |-> TRUE] \in Record
    BY <1>2 DEF Record
  <2>3. T \in TaskMap
    BY <1>1, <1>2, <2>2, IsKnown DEF TaskMap
  <2>4. tasks' = T /\ tasks'[t] # None /\ tasks'[t].to = u
        /\ \A s \in Task \ {t} : tasks'[s] = tasks[s]
    BY <1>1, <1>4, <2>1, <2>2, IsKnown, NoneAssumption DEF Save, TaskMap
  <2>5. index' \in [Uri -> Task \cup {None}] /\ index'[u] = t
        /\ \A w \in Uri \ {u} : index'[w] = index[w]
    BY <1>1, <1>2, <1>4, <2>1, IsKnown
  <2>6. IndexMatches'
    <3>1. \A s \in Task : tasks[s] # None => tasks[s].to \in Uri
      BY <1>1, IsKnown DEF TaskMap, Record
    <3>2. IndexMatches
      BY DEF IInv
    <3>3. \A w \in Uri : index[w] # None => index[w] \in Task
      BY <1>1, IsKnown
    <3>4. t # None
      BY <2>1, NoneAssumption DEF Proc
    <3>5. index[u] = None
      BY <1>4
    <3> HIDE DEF T, u
    <3>6. ASSUME NEW w \in Uri, index'[w] # None
          PROVE  tasks'[index'[w]] # None /\ tasks'[index'[w]].to = w
      <4>1. CASE w = u
        BY <2>4, <2>5, <4>1
      <4>2. CASE w # u
        <5>1. index'[w] = index[w] /\ tasks[index[w]] # None /\ tasks[index[w]].to = w
          BY <2>5, <3>2, <3>6, <4>2 DEF IndexMatches
        <5>2. index[w] # t /\ index[w] \in Task
          BY <2>1, <3>3, <3>6, <5>1
        <5> QED BY <2>4, <5>1, <5>2
      <4> QED BY <4>1, <4>2
    <3>7. ASSUME NEW s \in Task, tasks'[s] # None PROVE index'[tasks'[s].to] = s
      <4>1. CASE s = t
        BY <2>4, <2>5, <4>1
      <4>2. CASE s # t
        <5>1. tasks'[s] = tasks[s] /\ tasks[s].to \in Uri /\ index[tasks[s].to] = s
          BY <2>4, <3>1, <3>2, <3>7, <4>2 DEF IndexMatches
        <5>2. tasks[s].to # u
          BY <3>5, <5>1, NoneAssumption DEF Proc
        <5> QED BY <2>5, <5>1, <5>2
      <4> QED BY <4>1, <4>2
    <3> QED BY <3>6, <3>7 DEF IndexMatches
  <2>7. LeasesKept(c) /\ lease'[c].kind # "mutation" /\ Apart(c, {u})
    BY <1>1, <1>2, <1>4, IsKnown, LeaseGrows DEF create_task
  <2>8. Retargets({u})
    <3>1. Under(u, u)
      BY <1>2, UnderItself, UrisAreNames
    <3> QED BY <2>1, <2>4, <3>1 DEF Retargets
  <2> HIDE DEF T
  <2>9. Save(c, T, "done") /\ lock = None /\ UNCHANGED <<file, tree, left, strays>>
    BY <1>4 DEF create_task, T
  <2> QED BY <1>1, <1>2, <2>3, <2>5, <2>6, <2>7, <2>8, <2>9, PlainSave
<1> QED BY <1>3, <1>4 DEF create_task

\* update_task moves a task to a target that is free or its own.
LEMMA UpdateStep == ASSUME IInv, NEW c \in Client, update_task(c) PROVE IInv'
<1> DEFINE u == proc[c].uri
           t == proc[c].task
<1>1. c \in Proc
  BY DEF Proc
<1>2. u \in Uri /\ t \in Task /\ ~Saving(c) /\ ~Moves(c)
  BY <1>1, IsKnown DEF update_task, In, Known, Saving, Moves
<1>3. CASE Finish(c) /\ UNCHANGED <<tasks, index, lock, promised>>
  BY <1>1, <1>2, <1>3, FinishQuietly DEF update_task
<1>4. ASSUME tasks[t] # None, index[u] \in {None, t},
             CanAccess(c, {u, tasks[t].to}), Access(c, {u, tasks[t].to}),
             Save(c, [tasks EXCEPT ![t] = [to |-> u, active |-> TRUE]], "done"),
             index' = Retarget(t, u)
      PROVE  IInv'
  <2> DEFINE T == [tasks EXCEPT ![t] = [to |-> u, active |-> TRUE]]
             v == tasks[t].to
  <2>1. v \in Uri /\ index[v] = t /\ t # None
    BY <1>1, <1>2, <1>4, IsKnown, NoneAssumption DEF TaskMap, Record, IndexMatches, Proc
  <2>2. [to |-> u, active |-> TRUE] \in Record
    BY <1>2 DEF Record
  <2>3. T \in TaskMap
    BY <1>1, <1>2, <2>2, IsKnown DEF TaskMap
  <2>4. tasks' = T /\ tasks'[t] # None /\ tasks'[t].to = u
        /\ \A s \in Task \ {t} : tasks'[s] = tasks[s]
    BY <1>1, <1>2, <1>4, <2>2, IsKnown, NoneAssumption DEF Save, TaskMap
  <2>5. index' \in [Uri -> Task \cup {None}] /\ index'[u] = t
        /\ (u # v => index'[v] = None)
        /\ \A w \in Uri \ {u, v} : index'[w] = index[w]
    BY <1>1, <1>2, <1>4, <2>1, IsKnown DEF Retarget
  <2>6. IndexMatches'
    <3>1. \A s \in Task : tasks[s] # None => tasks[s].to \in Uri /\ index[tasks[s].to] = s
      BY <1>1, IsKnown DEF TaskMap, Record, IndexMatches
    <3>2. \A w \in Uri : index[w] # None =>
             index[w] \in Task /\ tasks[index[w]] # None /\ tasks[index[w]].to = w
      BY <1>1, IsKnown DEF IndexMatches
    <3>3. tasks[t] # None /\ index[u] \in {None, t}
      BY <1>4
    <3>4. v = tasks[t].to
      OBVIOUS
    <3> HIDE DEF T, u, t, v
    <3>5. \A w \in Uri : index[w] = t => w = v
      BY <2>1, <3>2, <3>4
    <3>6. ASSUME NEW w \in Uri, index'[w] # None
          PROVE  tasks'[index'[w]] # None /\ tasks'[index'[w]].to = w
      <4>1. CASE w = u
        BY <2>4, <2>5, <4>1
      <4>2. CASE w # u
        <5>1. w # v /\ index'[w] = index[w]
          BY <2>5, <3>6, <4>2
        <5>2. index[w] # t /\ index[w] \in Task /\ tasks[index[w]] # None /\ tasks[index[w]].to = w
          BY <3>2, <3>5, <3>6, <5>1
        <5> QED BY <2>4, <5>1, <5>2
      <4> QED BY <4>1, <4>2
    <3>7. ASSUME NEW s \in Task, tasks'[s] # None PROVE index'[tasks'[s].to] = s
      <4>1. CASE s = t
        BY <2>4, <2>5, <4>1
      <4>2. CASE s # t
        <5>1. tasks'[s] = tasks[s] /\ tasks[s].to \in Uri /\ index[tasks[s].to] = s
          BY <2>4, <3>1, <3>7, <4>2
        <5>2. s # None
          BY NoneAssumption DEF Proc
        <5>3. tasks[s].to # u /\ tasks[s].to # v
          BY <2>1, <3>3, <4>2, <5>1, <5>2
        <5> QED BY <2>5, <5>1, <5>3
      <4> QED BY <4>1, <4>2
    <3> QED BY <3>6, <3>7 DEF IndexMatches
  <2>7. LeasesKept(c) /\ lease'[c].kind # "mutation" /\ Apart(c, {u, v})
    <3>1. {u, v} \in SUBSET Uri
      BY <1>2, <2>1
    <3> HIDE DEF u
    <3> QED BY <1>1, <1>4, <3>1, IsKnown, LeaseGrows
  <2>8. Retargets({u, v})
    <3>1. Under(u, u) /\ Under(v, v)
      BY <1>2, <2>1, UnderItself, UrisAreNames
    <3> QED BY <2>4, <3>1 DEF Retargets
  <2> HIDE DEF T
  <2>9. Save(c, T, "done") /\ lock = None /\ UNCHANGED <<file, tree, left, strays>>
    BY <1>4 DEF update_task, T
  <2> QED BY <1>1, <1>2, <2>3, <2>5, <2>6, <2>7, <2>8, <2>9, PlainSave
<1> QED BY <1>3, <1>4 DEF update_task

\* A change of is_active leaves targets and index alone.
LEMMA ActiveStep ==
    ASSUME IInv, NEW p \in Proc, ~Saving(p), ~Moves(p),
           UNCHANGED <<index, file, tree, left, strays>>,
           lock = None, NEW T \in TaskMap,
           \A t \in Task : /\ T[t] = None <=> tasks[t] = None
                           /\ T[t] # None => T[t].to = tasks[t].to,
           Save(p, T, "done"), LeasesKept(p), lease'[p].kind # "mutation"
    PROVE  IInv'
<1>1. tasks' = T
  BY DEF Save
<1>2. index' \in [Uri -> Task \cup {None}]
  BY IsKnown
<1>3. IndexMatches'
  <2>1. IndexMatches /\ \A w \in Uri : index[w] # None => index[w] \in Task
    BY IsKnown
  <2> QED BY <1>1, <2>1 DEF IndexMatches
<1>4. Retargets({}) /\ Apart(p, {})
  BY <1>1, ApartFromNothing DEF Retargets
<1> QED BY <1>2, <1>3, <1>4, PlainSave

\* update_task that changes is_active, of a task that is there.
LEMMA ActivateStep ==
    ASSUME IInv, NEW p \in Proc, NEW t \in Task, NEW active \in BOOLEAN,
           ~Saving(p), ~Moves(p), Activate(p, t, active)
    PROVE  IInv'
<1>1. CASE Finish(p) /\ UNCHANGED <<tasks, lock, promised>>
  BY <1>1, FinishQuietly DEF Activate
<1>2. ASSUME tasks[t] # None, CanAccess(p, {tasks[t].to}), Access(p, {tasks[t].to}),
             Save(p, [tasks EXCEPT ![t].active = active], "done")
      PROVE  IInv'
  <2> DEFINE T == [tasks EXCEPT ![t].active = active]
  <2>1. tasks[t] \in Record
    BY <1>2, IsKnown DEF TaskMap
  <2>2. [tasks[t] EXCEPT !.active = active] \in Record
    BY <2>1 DEF Record
  <2>3. T \in TaskMap
    BY <2>2, IsKnown DEF TaskMap
  <2>4. \A s \in Task : /\ T[s] = None <=> tasks[s] = None
                        /\ T[s] # None => T[s].to = tasks[s].to
    <3>1. T[t] = [tasks[t] EXCEPT !.active = active] /\ T[t] # None
      BY <2>2, IsKnown, NoneAssumption DEF TaskMap
    <3>2. T[t].to = tasks[t].to
      BY <2>1, <3>1 DEF Record
    <3>3. \A s \in Task \ {t} : T[s] = tasks[s]
      BY IsKnown DEF TaskMap
    <3> HIDE DEF T
    <3> QED BY <1>2, <3>1, <3>2, <3>3
  <2>5. LeasesKept(p) /\ lease'[p].kind # "mutation"
    <3>1. {tasks[t].to} \in SUBSET Uri
      BY <2>1 DEF Record
    <3> QED BY <1>2, <3>1, IsKnown, LeaseGrows
  <2> HIDE DEF T
  <2>6. Save(p, T, "done") /\ lock = None /\ UNCHANGED <<index, file, tree, left, strays>>
    BY <1>2 DEF Activate, T
  <2> QED BY <2>3, <2>4, <2>5, <2>6, ActiveStep
<1> QED BY <1>1, <1>2 DEF Activate

\* A client pauses or resumes a task.
LEMMA PauseStep ==
    ASSUME IInv, NEW c \in Client, pause(c) \/ resume(c) PROVE IInv'
<1>1. c \in Proc
  BY DEF Proc
<1>2. proc[c].task \in Task /\ ~Saving(c) /\ ~Moves(c)
  BY <1>1, IsKnown DEF pause, resume, In, Known, Saving, Moves
<1> QED BY <1>1, <1>2, ActivateStep DEF pause, resume

\* The scheduler ends a watch whose source or target is gone.
LEMMA DeactivateStep ==
    ASSUME IInv, NEW t \in Task, deactivate(t) PROVE IInv'
<1>1. t \in Proc
  BY DEF Proc
<1>2. ~Saving(t) /\ ~Moves(t)
  BY DEF deactivate, In, Saving, Moves
<1> QED BY <1>1, <1>2, ActivateStep DEF deactivate

\* The scheduler notes the time of an execution.
LEMMA TimeStep ==
    ASSUME IInv, NEW t \in Task, update_execution_time(t) PROVE IInv'
<1>1. t \in Proc
  BY DEF Proc
<1>2. ~Saving(t) /\ ~Moves(t) /\ lease[t].kind # "mutation"
  BY <1>1, IsKnown DEF update_execution_time, In, Saving, Moves, Known
<1>3. CASE Finish(t) /\ UNCHANGED <<tasks, lock, promised>>
  BY <1>1, <1>2, <1>3, FinishQuietly DEF update_execution_time
<1>4. CASE Save(t, tasks, "done") /\ UNCHANGED lease
  <2>1. LeasesKept(t) /\ lease'[t].kind # "mutation"
    BY <1>1, <1>2, <1>4, IsKnown, LeaseStays
  <2>2. tasks \in TaskMap
    BY <1>1, IsKnown
  <2> QED BY <1>1, <1>2, <1>4, <2>1, <2>2, ActiveStep DEF update_execution_time
<1> QED BY <1>3, <1>4 DEF update_execution_time

\* delete_task frees the target.
LEMMA DeleteStep == ASSUME IInv, NEW c \in Client, delete_task(c) PROVE IInv'
<1> DEFINE t == proc[c].task
<1>1. c \in Proc
  BY DEF Proc
<1>2. t \in Task /\ ~Saving(c) /\ ~Moves(c)
  BY <1>1, IsKnown DEF delete_task, In, Known, Saving, Moves
<1>3. CASE Finish(c) /\ UNCHANGED <<tasks, index, lock, promised>>
  BY <1>1, <1>2, <1>3, FinishQuietly DEF delete_task
<1>4. ASSUME tasks[t] # None, CanAccess(c, {tasks[t].to}), Access(c, {tasks[t].to}),
             index' = [index EXCEPT ![tasks[t].to] = None],
             Save(c, [tasks EXCEPT ![t] = None], "done")
      PROVE  IInv'
  <2> DEFINE T == [tasks EXCEPT ![t] = None]
             v == tasks[t].to
  <2>1. v \in Uri
    BY <1>1, <1>2, <1>4, IsKnown DEF TaskMap, Record
  <2>2. T \in TaskMap
    BY <1>1, <1>2, IsKnown DEF TaskMap
  <2>3. tasks' = T /\ tasks'[t] = None /\ \A s \in Task \ {t} : tasks'[s] = tasks[s]
    BY <1>1, <1>2, <1>4, IsKnown DEF Save, TaskMap
  <2>4. index' \in [Uri -> Task \cup {None}] /\ index'[v] = None
        /\ \A w \in Uri \ {v} : index'[w] = index[w]
    BY <1>1, <1>4, <2>1, IsKnown
  <2>5. IndexMatches'
    <3>1. \A s \in Task : tasks[s] # None => tasks[s].to \in Uri /\ index[tasks[s].to] = s
      BY <1>1, IsKnown DEF TaskMap, Record, IndexMatches
    <3>2. \A w \in Uri : index[w] # None =>
             index[w] \in Task /\ tasks[index[w]] # None /\ tasks[index[w]].to = w
      BY <1>1, IsKnown DEF IndexMatches
    <3>3. v = tasks[t].to /\ tasks[t] # None
      BY <1>4
    <3> HIDE DEF T, t, v
    <3>4. \A w \in Uri : index[w] = t /\ index[w] # None => w = v
      BY <3>2, <3>3
    <3>5. \A s \in Task \ {t} : tasks[s] # None => tasks[s].to # v
      BY <1>2, <3>1, <3>3
    <3>6. ASSUME NEW w \in Uri, index'[w] # None
          PROVE  tasks'[index'[w]] # None /\ tasks'[index'[w]].to = w
      <4>1. w # v /\ index'[w] = index[w]
        BY <2>4, <3>6
      <4>2. index[w] \in Task \ {t}
        BY <3>2, <3>4, <3>6, <4>1
      <4> QED BY <2>3, <3>2, <3>6, <4>1, <4>2
    <3>7. ASSUME NEW s \in Task, tasks'[s] # None PROVE index'[tasks'[s].to] = s
      <4>1. s # t /\ tasks'[s] = tasks[s]
        BY <2>3, <3>7
      <4>2. tasks[s].to \in Uri \ {v} /\ index[tasks[s].to] = s
        BY <3>1, <3>5, <3>7, <4>1
      <4> QED BY <2>4, <4>1, <4>2
    <3> QED BY <3>6, <3>7 DEF IndexMatches
  <2>6. LeasesKept(c) /\ lease'[c].kind # "mutation" /\ Apart(c, {v})
    <3>1. {v} \in SUBSET Uri
      BY <2>1
    <3> QED BY <1>1, <1>4, <3>1, IsKnown, LeaseGrows
  <2>7. Retargets({v})
    <3>1. Under(v, v)
      BY <2>1, UnderItself, UrisAreNames
    <3> QED BY <2>3, <3>1 DEF Retargets
  <2> HIDE DEF T
  <2>8. Save(c, T, "done") /\ lock = None /\ UNCHANGED <<file, tree, left, strays>>
    BY <1>4 DEF delete_task, T
  <2> QED BY <1>1, <1>2, <2>2, <2>4, <2>5, <2>6, <2>7, <2>8, PlainSave
<1> QED BY <1>3, <1>4 DEF delete_task

-----------------------------------------------------------------------------
(***************************************************************************)
(* Moves and removals.                                                     *)
(***************************************************************************)
\* A move of files, whole or in part, stays among the URIs and adds files at its
\* target only.
LEMMA MoveFits ==
    ASSUME tree \subseteq Uri, NEW u \in Uri, NEW v \in Uri,
           \A x \in Uri : Under(x, u) => Rewrite(x, u, v) \in Uri,
           NEW after \in PartlyMoved(u, v) \cup {Moved(u, v)}
    PROVE  after \subseteq Uri /\ \A x \in after \ tree : Under(x, v)
<1>1. tree \subseteq Names /\ u \in Names /\ v \in Names
  BY UrisAreNames
<1>2. ASSUME NEW x \in Moving(u) PROVE Rewrite(x, u, v) \in Uri /\ Under(Rewrite(x, u, v), v)
  <2>1. x \in Names /\ x \in Uri /\ Under(x, u)
    BY <1>1 DEF Moving
  <2> QED BY <1>1, <2>1, Rewritten
<1>3. Copied(u, v) \subseteq Uri /\ \A x \in Copied(u, v) \ tree : Under(x, v)
  BY <1>2 DEF Copied
<1>4. after \subseteq Copied(u, v)
  <2>1. tree \subseteq Copied(u, v)
    BY DEF Copied
  <2>2. PartlyMoved(u, v) \subseteq SUBSET Copied(u, v)
    BY <2>1 DEF PartlyMoved
  <2> QED BY <2>2 DEF Moved
<1> QED BY <1>3, <1>4

\* What a move that fails, or succeeds between two different places, had to move is
\* at one of them.
LEMMA NothingIsLost ==
    ASSUME tree \subseteq Uri, NEW u \in Uri, NEW v \in Uri, u # v, Fits(u, v),
           tree' \in PartlyMoved(u, v) \cup {Moved(u, v), tree}
    PROVE  \A x \in Moving(u) : x \in tree' \/ Rewrite(x, u, v) \in tree'
<1> SUFFICES ASSUME NEW x \in Moving(u) PROVE x \in tree' \/ Rewrite(x, u, v) \in tree'
  OBVIOUS
<1> DEFINE y == Rewrite(x, u, v)
<1>1. x \in Names /\ u \in Names /\ v \in Names /\ x \in tree /\ Under(x, u)
  BY UrisAreNames DEF Moving
<1>2. y \in Names /\ Under(y, v)
  BY <1>1, Rewritten
<1>3. \A z \in Names : ~(Under(z, u) /\ Under(z, v))
  BY <1>1, OneIsAbove DEF Fits, Overlap
<1>4. x \in Copied(u, v) /\ y \in Copied(u, v)
  BY <1>1 DEF Copied
<1>5. ~Under(x, v) /\ ~Under(y, u)
  BY <1>1, <1>2, <1>3
<1> HIDE DEF y
<1>6. CASE tree' \in PartlyMoved(u, v)
  <2>1. CASE \E part \in SUBSET (Copied(u, v) \ tree) : tree' = tree \cup part
    BY <1>1, <2>1
  <2>2. CASE \E part \in SUBSET {z \in Copied(u, v) : Under(z, v)} : tree' = Copied(u, v) \ part
    BY <1>4, <1>5, <2>2
  <2>3. CASE \E part \in SUBSET {z \in Copied(u, v) : Under(z, u)} : tree' = Copied(u, v) \ part
    BY <1>4, <1>5, <2>3 DEF y
  <2> QED BY <1>6, <2>1, <2>2, <2>3 DEF PartlyMoved
<1>7. CASE tree' = Moved(u, v)
  BY <1>4, <1>5, <1>7 DEF Moved, y
<1> QED BY <1>1, <1>6, <1>7

\* A move begins with a lease on both of its ends.
LEMMA MvStep ==
    ASSUME IInv, NEW c \in Client, NEW u \in Uri, NEW v \in Uri, mv(c, u, v) PROVE IInv'
<1> DEFINE r == [Idle EXCEPT !.at = "validate", !.uri = u, !.new = v]
<1>1. c \in Proc
  BY DEF Proc
<1>2. r \in Call0 /\ r.at = "validate" /\ r.uri = u /\ r.new = v
  BY DEF Idle, Call0, Labels
<1>3. proc' = [proc EXCEPT ![c] = r] /\ ~Saving(c)
  BY DEF mv, In, Saving
<1> HIDE DEF r
<1>4. proc'[c] = r
  BY <1>1, <1>3, IsKnown DEF Types
<1>5. LeasesKept(c) /\ lease'[c] = [kind |-> "mutation", uris |-> {u, v}]
  BY <1>1, IsKnown, LeaseMutates DEF mv
<1>6. tree' \subseteq Uri /\ left' \in [calls : Nat, faults : Nat] /\ Fits(u, v)
  BY <1>1, IsKnown, SpentIsTyped DEF mv
<1>7. Apart(c, {}) /\ Grows({})
  BY <1>1, ApartFromNothing DEF Grows, mv
<1>8. (Known(c) /\ HasRoom(c) /\ CanGoBack(c))'
  BY <1>2, <1>4, <1>5, <1>6 DEF Known, Emptied, HasRoom, CanGoBack, Moves, Saving, In, mv
<1> QED BY <1>1, <1>2, <1>3, <1>5, <1>6, <1>7, <1>8, StepWithoutSave DEF mv, SaveLabels

\* The plan made before the files go shows that there is room.
LEMMA ValidateStep == ASSUME IInv, NEW c \in Client, validate(c) PROVE IInv'
<1> DEFINE u == proc[c].uri
           v == proc[c].new
           plan == Plan(u, v)
           r == [proc[c] EXCEPT !.at = "mv"]
<1>1. c \in Proc
  BY DEF Proc
<1>2. ~Saving(c) /\ Moves(c) /\ Known(c)
  BY <1>1, IsKnown DEF validate, In, Saving, Moves
<1>3. CASE Finish(c)
  BY <1>1, <1>2, <1>3, FinishQuietly DEF validate
<1>4. ASSUME ~Conflicting(plan), Goto(c, "mv"), UNCHANGED lease PROVE IInv'
  <2>1. r \in Call0 /\ r.at = "mv" /\ r.uri = u /\ r.new = v
    BY <1>1, IsKnown DEF Call0, Labels
  <2>2. proc' = [proc EXCEPT ![c] = r] /\ proc'[c] = r
    BY <1>1, <1>4, IsKnown DEF Goto, Types
  <2>3. HasRoom(c)'
    <3> SUFFICES ASSUME NEW s \in Task, NEW t \in Targeting(u), s # t, tasks[s] # None,
                        tasks[s].to = Rewrite(tasks[t].to, u, v)
                 PROVE  FALSE
      BY <2>1, <2>2 DEF HasRoom, validate, Targeting
    <3>1. t \in Task /\ tasks[t] # None /\ Under(tasks[t].to, u)
      BY DEF Targeting
    <3>2. plan[t] = tasks[s].to /\ index[plan[t]] \in {None, t}
      BY <1>4 DEF Conflicting, Plan
    <3>3. index[tasks[s].to] = s
      BY <1>1, IsKnown DEF IndexMatches
    <3> QED BY <3>2, <3>3, NoneAssumption DEF Proc
  <2> HIDE DEF r
  <2>4. LeasesKept(c)
    BY <1>1, <1>4, IsKnown, LeaseStays
  <2>5. tree' = tree /\ tree' \subseteq Uri /\ left' \in [calls : Nat, faults : Nat]
    BY <1>1, IsKnown DEF validate
  <2>6. Apart(c, {}) /\ Grows({})
    BY <1>1, ApartFromNothing DEF Grows, validate
  <2>7. (Known(c) /\ CanGoBack(c))'
    BY <1>2, <1>4, <2>1, <2>2, <2>5 DEF Known, Emptied, CanGoBack, Moves, Saving, In, Fits
  <2> QED BY <1>1, <1>2, <2>1, <2>2, <2>3, <2>4, <2>5, <2>6, <2>7, StepWithoutSave
          DEF validate, SaveLabels
<1> QED BY <1>3, <1>4 DEF validate

\* The files go, all of them, or the call ends.
LEMMA MoveFilesStep == ASSUME IInv, NEW c \in Client, move_files(c) PROVE IInv'
<1> DEFINE u == proc[c].uri
           v == proc[c].new
           r == [proc[c] EXCEPT !.at = "rewrite"]
<1>1. c \in Proc
  BY DEF Proc
<1>2. ~Saving(c) /\ Moves(c) /\ Known(c) /\ HasRoom(c) /\ proc[c].at = "mv"
  BY <1>1, IsKnown DEF move_files, In, Saving, Moves
<1>3. u \in Uri /\ v \in Uri /\ Fits(u, v) /\ lease[c].uris = {u, v} /\ tree \subseteq Uri
  BY <1>1, <1>2, IsKnown DEF Known
<1>4. \A after \in PartlyMoved(u, v) \cup {Moved(u, v)} :
         after \subseteq Uri /\ \A x \in after \ tree : Under(x, v)
  <2> HIDE DEF u, v
  <2> QED BY <1>3, MoveFits DEF Fits
<1>5. Apart(c, {v})
  BY <1>1, <1>3, IsKnown, LeaseHolds
<1>6. UNCHANGED <<tasks, index, file, lock, promised, strays>>
  BY DEF move_files
<1>7. ASSUME tree' = Moved(u, v), Goto(c, "rewrite"), UNCHANGED <<lease, left>>
      PROVE  IInv'
  <2>1. r \in Call0 /\ r.at = "rewrite" /\ r.uri = u /\ r.new = v
    BY <1>1, IsKnown DEF Call0, Labels
  <2>2. proc' = [proc EXCEPT ![c] = r] /\ proc'[c] = r
    BY <1>1, <1>7, IsKnown DEF Goto, Types
  <2> HIDE DEF r
  <2>3. HasRoom(c)'
    BY <1>2, <1>6, <2>1, <2>2 DEF HasRoom, Targeting
  <2>4. LeasesKept(c)
    BY <1>1, <1>7, IsKnown, LeaseStays
  <2>5. tree' \subseteq Uri /\ left' \in [calls : Nat, faults : Nat]
    BY <1>1, <1>4, <1>7, IsKnown
  <2>6. Grows({v})
    BY <1>4, <1>6, <1>7 DEF Grows
  <2>7. Emptied(c)'
    BY <1>7, <2>1, <2>2 DEF Emptied, Moved
  <2>8. (Known(c) /\ CanGoBack(c))'
    BY <1>2, <1>7, <2>1, <2>2, <2>7 DEF Known, CanGoBack, Moves, Saving, In, Fits
  <2> QED BY <1>1, <1>2, <1>5, <1>6, <2>1, <2>2, <2>3, <2>4, <2>5, <2>6, <2>8, StepWithoutSave
          DEF SaveLabels
<1>8. CASE Finish(c) /\ UNCHANGED <<tree, left>>
  BY <1>1, <1>2, <1>6, <1>8, FinishQuietly
<1>9. ASSUME Spend("faults"), tree' \in PartlyMoved(u, v), Finish(c)
      PROVE  IInv'
  <2>1. left' \in [calls : Nat, faults : Nat]
    BY <1>1, <1>9, IsKnown, SpentIsTyped
  <2>2. tree' \subseteq Uri /\ Grows({v})
    BY <1>4, <1>6, <1>9 DEF Grows
  <2> QED BY <1>1, <1>2, <1>5, <1>6, <1>9, <2>1, <2>2, FinishStep
<1> QED BY <1>7, <1>8, <1>9 DEF move_files

\* The files go back below URIs that exist.
LEMMA RollbackStep == ASSUME IInv, NEW c \in Client, rollback(c) PROVE IInv'
<1> DEFINE u == proc[c].uri
           v == proc[c].new
<1>1. c \in Proc
  BY DEF Proc
<1>2. ~Saving(c) /\ Moves(c) /\ Known(c)
  BY <1>1, IsKnown DEF rollback, In, Saving, Moves
<1>3. u \in Uri /\ v \in Uri /\ Fits(u, v) /\ lease[c].uris = {u, v} /\ tree \subseteq Uri
  BY <1>1, <1>2, IsKnown DEF Known
<1>4. \A after \in PartlyMoved(v, u) \cup {Moved(v, u)} :
         after \subseteq Uri /\ \A x \in after \ tree : Under(x, u)
  <2> HIDE DEF u, v
  <2> QED BY <1>3, MoveFits DEF Fits
<1>5. Apart(c, {u})
  BY <1>1, <1>3, IsKnown, LeaseHolds
<1>6. tree' \subseteq Uri /\ Grows({u})
  <2>1. tree' \in PartlyMoved(v, u) \cup {Moved(v, u)} /\ strays' = strays
    BY DEF rollback
  <2> QED BY <1>4, <2>1 DEF Grows
<1>7. left' \in [calls : Nat, faults : Nat]
  BY <1>1, IsKnown, SpentIsTyped DEF rollback
<1> QED BY <1>1, <1>2, <1>5, <1>6, <1>7, FinishStep DEF rollback

\* A move that is not between resources brings strays and touches no process.
LEMMA UnwatchedMoveStep ==
    ASSUME IInv, NEW c \in Client, NEW u \in Uri, NEW v \in Uri, mv_unwatched(c, u, v)
    PROVE  IInv'
<1>1. c \in Proc
  BY DEF Proc
<1>2. proc[c] \in Call0 /\ proc[c].at = "idle" /\ proc' = [proc EXCEPT ![c] = proc[c]]
  BY <1>1, IsKnown DEF mv_unwatched, In, Types
<1>3. ~Saving(c) /\ lease[c].kind # "mutation"
  BY <1>1, <1>2, IsKnown DEF Saving, Moves, Known
<1>4. LeasesKept(c) /\ lease'[c].kind # "mutation"
  BY <1>1, <1>3, IsKnown, LeaseStays DEF mv_unwatched
<1>5. tree' \subseteq Uri
  <2>1. tree' \in PartlyMoved(u, v) \cup {Moved(u, v)} /\ Fits(u, v)
    BY DEF mv_unwatched
  <2> QED BY <1>1, <2>1, IsKnown, MoveFits DEF Fits
<1>6. left' \in [calls : Nat, faults : Nat]
  <2>1. left \in [calls : Nat, faults : Nat]
    BY <1>1, IsKnown
  <2>2. CASE Spend("calls")
    BY <1>1, <2>2, IsKnown, SpentIsTyped
  <2>3. CASE /\ left.calls > 0 /\ left.faults > 0
             /\ left' = [what \in DOMAIN left |-> left[what] - 1]
    BY <2>1, <2>3
  <2> QED BY <2>2, <2>3 DEF mv_unwatched
<1>7. Grows({}) /\ Apart(c, {})
  BY <1>1, ApartFromNothing DEF mv_unwatched, Grows
<1> QED BY <1>1, <1>2, <1>3, <1>4, <1>5, <1>6, <1>7, PlainStep DEF mv_unwatched, SaveLabels

\* A removal of files.
LEMMA RmStep ==
    ASSUME IInv, NEW c \in Client, NEW u \in Uri, rm(c, u) PROVE IInv'
<1> DEFINE r == [Idle EXCEPT !.at = "sync", !.uri = u]
<1>1. c \in Proc
  BY DEF Proc
<1>2. r \in Call0 /\ r.at = "sync" /\ r.uri = u
  BY DEF Idle, Call0, Labels
<1>3. \/ proc' = [proc EXCEPT ![c] = r]
      \/ proc' = [proc EXCEPT ![c] = proc[c]] /\ proc[c] \in Call0 /\ proc[c].at = "idle"
  BY <1>1, IsKnown DEF rm, In, Types
<1> HIDE DEF r
<1>4. ~Saving(c) /\ lease[c].kind # "mutation"
  BY <1>1, IsKnown DEF rm, In, Saving, Moves, Known
<1>5. LeasesKept(c) /\ lease'[c].kind # "mutation"
  BY <1>1, <1>4, IsKnown, LeaseStays DEF rm
<1>6. tree' \subseteq Uri /\ left' \in [calls : Nat, faults : Nat] /\ Grows({}) /\ Apart(c, {})
  BY <1>1, IsKnown, SpentIsTyped, ApartFromNothing DEF rm, Grows
<1> QED BY <1>1, <1>2, <1>3, <1>4, <1>5, <1>6, PlainStep DEF rm, SaveLabels

\* The watches below what was removed end.
LEMMA DeactivateUnderStep == ASSUME IInv, NEW c \in Client, deactivate_under(c) PROVE IInv'
<1> DEFINE u == proc[c].uri
           T == [t \in Task |-> IF t \in Targeting(u)
                                THEN [tasks[t] EXCEPT !.active = FALSE] ELSE tasks[t]]
<1>1. c \in Proc
  BY DEF Proc
<1>2. u \in Uri /\ ~Saving(c) /\ ~Moves(c)
  BY <1>1, IsKnown DEF deactivate_under, In, Known, Saving, Moves
<1>3. CASE Finish(c) /\ UNCHANGED <<tasks, lock, promised>>
  BY <1>1, <1>2, <1>3, FinishQuietly DEF deactivate_under
<1>4. CASE Access(c, {u}) /\ Save(c, T, "done")
  <2>1. \A t \in Targeting(u) : t \in Task /\ tasks[t] \in Record /\ tasks[t] # None
    BY <1>1, IsKnown DEF Targeting, TaskMap
  <2>2. \A t \in Targeting(u) :
           /\ [tasks[t] EXCEPT !.active = FALSE] \in Record
           /\ [tasks[t] EXCEPT !.active = FALSE].to = tasks[t].to
    BY <2>1 DEF Record
  <2>3. T \in TaskMap
    BY <1>1, <2>2, IsKnown DEF TaskMap
  <2>4. \A t \in Task : /\ T[t] = None <=> tasks[t] = None
                        /\ T[t] # None => T[t].to = tasks[t].to
    BY <2>1, <2>2, NoneAssumption
  <2>5. LeasesKept(c) /\ lease'[c].kind # "mutation"
    BY <1>1, <1>2, <1>4, IsKnown, LeaseGrows DEF deactivate_under
  <2> HIDE DEF T
  <2> QED BY <1>1, <1>2, <1>4, <2>3, <2>4, <2>5, ActiveStep DEF deactivate_under
<1> QED BY <1>3, <1>4 DEF deactivate_under

\* The targets below the source are rewritten, the undo is kept.
LEMMA RewriteStep == ASSUME IInv, NEW c \in Client, rewrite_target_prefix(c) PROVE IInv'
<1> DEFINE u == proc[c].uri
           v == proc[c].new
           D == Targeting(u)
           plan == Plan(u, v)
           T == [t \in Task |-> IF t \in D THEN [tasks[t] EXCEPT !.to = plan[t]] ELSE tasks[t]]
           undo == [to |-> [t \in D |-> tasks[t].to], index |-> index]
           r == [proc[c] EXCEPT !.at = "tmp", !.after = "moved", !.undo = undo]
<1>1. c \in Proc
  BY DEF Proc
<1>2. ~Saving(c) /\ Moves(c) /\ Known(c) /\ HasRoom(c) /\ proc[c].at = "rewrite"
  BY <1>1, IsKnown DEF rewrite_target_prefix, In, Saving, Moves
<1>3. u \in Uri /\ v \in Uri /\ Fits(u, v) /\ lease[c].uris = {u, v}
  BY <1>1, <1>2, IsKnown DEF Known
<1>4. CASE Finish(c) /\ UNCHANGED <<tasks, index, lock, promised>>
  BY <1>1, <1>2, <1>4, FinishQuietly DEF rewrite_target_prefix
<1>5. ASSUME tasks' = T,
             index' = [w \in Uri |->
                IF \E t \in D : plan[t] = w THEN CHOOSE t \in D : plan[t] = w
                ELSE IF index[w] \in D THEN None ELSE index[w]],
             lock' = c, promised' = promised \cup {T},
             proc' = [proc EXCEPT ![c].at = "tmp", ![c].after = "moved", ![c].undo = undo],
             UNCHANGED lease
      PROVE  IInv'
  <2>1. D \subseteq Task /\ \A t \in D : tasks[t] # None /\ tasks[t] \in Record
                                         /\ tasks[t].to \in Uri /\ Under(tasks[t].to, u)
    BY <1>1, IsKnown DEF Targeting, TaskMap, Record
  <2>2. \A t \in D : plan[t] = Rewrite(tasks[t].to, u, v)
    BY DEF Plan
  <2>3. \A t \in D : /\ plan[t] \in Uri /\ Under(plan[t], v)
                     /\ Rewrite(plan[t], v, u) = tasks[t].to
    <3>1. u \in Names /\ v \in Names /\ \A t \in D : tasks[t].to \in Names
      BY <1>3, <2>1, UrisAreNames
    <3> HIDE DEF plan, D
    <3>2. \A t \in D : plan[t] \in Uri
      BY <1>3, <2>1, <2>2 DEF Fits
    <3> SUFFICES ASSUME NEW t \in D
                 PROVE  Under(plan[t], v) /\ Rewrite(plan[t], v, u) = tasks[t].to
      BY <3>2
    <3> DEFINE x == tasks[t].to
    <3>3. x \in Names /\ Under(x, u) /\ plan[t] = Rewrite(x, u, v)
      BY <2>1, <2>2, <3>1
    <3> HIDE DEF x, u, v
    <3>4. Under(Rewrite(x, u, v), v) /\ Rewrite(Rewrite(x, u, v), v, u) = x
      BY <3>1, <3>3, Rewritten, ThereAndBack
    <3> QED BY <3>3, <3>4 DEF x
  <2>4. IndexMatches /\ \A s \in Task : tasks[s] # None =>
                           tasks[s] \in Record /\ tasks[s].to \in Uri /\ index[tasks[s].to] = s
    BY <1>1, IsKnown DEF IndexMatches, TaskMap, Record
  <2>5. \A s, t \in D : plan[s] = plan[t] => s = t
    <3> SUFFICES ASSUME NEW s \in D, NEW t \in D, plan[s] = plan[t] PROVE s = t
      OBVIOUS
    <3>1. tasks[s].to = tasks[t].to
      BY <2>3
    <3> QED BY <2>1, <2>4, <3>1
  <2>6. \A s \in Task, t \in D : s # t /\ tasks[s] # None => tasks[s].to # plan[t]
    BY <1>2, <2>1, <2>2 DEF HasRoom
  <2>7. \A w \in Uri : index[w] # None =>
             index[w] \in Task /\ tasks[index[w]] # None /\ tasks[index[w]].to = w
    BY <1>1, <2>4, IsKnown DEF IndexMatches
  <2>8. \A t \in D : [tasks[t] EXCEPT !.to = plan[t]] \in Record
                     /\ [tasks[t] EXCEPT !.to = plan[t]].to = plan[t]
                     /\ [[tasks[t] EXCEPT !.to = plan[t]] EXCEPT !.to = tasks[t].to] = tasks[t]
    BY <2>1, <2>3 DEF Record
  <2>9. T \in TaskMap
    BY <1>1, <2>8, IsKnown DEF TaskMap
  <2>10. \A t \in Task : IF t \in D THEN tasks'[t] # None /\ tasks'[t].to = plan[t]
                                     ELSE tasks'[t] = tasks[t]
    BY <1>5, <2>8, NoneAssumption
  <2>11. /\ \A t \in D : index'[plan[t]] = t
         /\ \A w \in Uri : /\ \A t \in D : plan[t] # w
                           => index'[w] = IF index[w] \in D THEN None ELSE index[w]
         /\ index' \in [Uri -> Task \cup {None}]
    <3>1. \A t \in D : (CHOOSE s \in D : plan[s] = plan[t]) = t
      BY <2>5
    <3>2. \A w \in Uri : (\E t \in D : plan[t] = w) => (CHOOSE t \in D : plan[t] = w) \in D
      OBVIOUS
    <3>3. index \in [Uri -> Task \cup {None}]
      BY <1>1, IsKnown
    <3> HIDE DEF plan, D, T
    <3> QED BY <1>5, <2>1, <2>3, <3>1, <3>2, <3>3
  <2>12. \A s \in Task : s # None
    BY NoneAssumption DEF Proc
  <2>13. IndexMatches'
    <3> HIDE DEF plan, D, T, u, v, undo, r
    <3>1. ASSUME NEW w \in Uri, index'[w] # None
          PROVE  tasks'[index'[w]] # None /\ tasks'[index'[w]].to = w
      <4>1. CASE \E t \in D : plan[t] = w
        BY <2>1, <2>10, <2>11, <4>1
      <4>2. CASE \A t \in D : plan[t] # w
        <5>1. index'[w] = index[w] /\ index[w] \notin D
          BY <2>11, <3>1, <4>2
        <5> QED BY <2>7, <2>10, <3>1, <5>1
      <4> QED BY <4>1, <4>2
    <3>2. ASSUME NEW s \in Task, tasks'[s] # None PROVE index'[tasks'[s].to] = s
      <4>1. CASE s \in D
        BY <2>10, <2>11, <4>1
      <4>2. CASE s \notin D
        <5>1. tasks'[s] = tasks[s] /\ tasks[s] # None
          BY <2>10, <3>2, <4>2
        <5>2. tasks[s].to \in Uri /\ index[tasks[s].to] = s /\ \A t \in D : plan[t] # tasks[s].to
          BY <2>4, <2>6, <4>2, <5>1
        <5> QED BY <2>11, <4>2, <5>1, <5>2
      <4> QED BY <4>1, <4>2
    <3> QED BY <3>1, <3>2 DEF IndexMatches
  <2>14. LeasesKept(c) /\ Apart(c, {u, v})
    BY <1>1, <1>3, <1>5, IsKnown, LeaseStays, LeaseHolds
  <2>15. Retargets({u, v})
    <3> HIDE DEF plan, u, v
    <3> QED BY <2>1, <2>3, <2>10 DEF Retargets
  <2>16. undo \in Undo /\ undo.index = index /\ DOMAIN undo.to = D
         /\ \A t \in D : undo.to[t] = tasks[t].to
    <3>1. [t \in D |-> tasks[t].to] \in [D -> Uri] /\ D \in SUBSET Task
      BY <2>1
    <3>2. [t \in D |-> tasks[t].to] \in UNION {[E -> Uri] : E \in SUBSET Task}
      BY <3>1
    <3>3. index \in [Uri -> Task \cup {None}]
      BY <1>1, IsKnown
    <3> HIDE DEF D
    <3> QED BY <3>2, <3>3 DEF Undo
  <2>17. r \in Call0 /\ r.at = "tmp" /\ r.after = "moved" /\ r.undo = undo /\ r.uri = u /\ r.new = v
    <3> HIDE DEF undo
    <3> QED BY <1>1, <2>16, IsKnown DEF Call0, Labels
  <2>18. proc' = [proc EXCEPT ![c] = r] /\ proc'[c] = r
    <3> HIDE DEF undo
    <3> QED BY <1>1, <1>5, IsKnown DEF Types
  <2>19. Restored(c)' = tasks
    <3>1. Restored(c)' = [t \in Task |-> IF t \in D THEN [tasks'[t] EXCEPT !.to = tasks[t].to]
                                         ELSE tasks'[t]]
      <4> HIDE DEF undo, r, D, T
      <4> QED BY <2>16, <2>17, <2>18 DEF Restored
    <3>2. \A t \in Task : (IF t \in D THEN [tasks'[t] EXCEPT !.to = tasks[t].to] ELSE tasks'[t])
                          = tasks[t]
      BY <1>5, <2>8
    <3>3. tasks = [t \in Task |-> tasks[t]]
      BY <1>1, IsKnown DEF TaskMap
    <3> HIDE DEF D
    <3> QED BY <3>1, <3>2, <3>3
  <2>20. CanGoBack(c)'
    <3>1. Agree(tasks, index)
      BY <2>4 DEF IndexMatches, Agree
    <3>2. Agree(Restored(c), proc[c].undo.index)'
      <4>1. proc'[c].undo.index = index
        BY <2>16, <2>17, <2>18
      <4> HIDE DEF undo, r
      <4> QED BY <2>19, <3>1, <4>1 DEF Agree
    <3>3. /\ proc'[c].undo = undo /\ proc'[c].uri = u /\ proc'[c].new = v /\ proc'[c].at = "tmp"
      BY <2>17, <2>18
    <3> HIDE DEF undo, r, T, D, plan, u, v
    <3> QED BY <2>1, <2>2, <2>10, <2>16, <3>2, <3>3 DEF CanGoBack, In
  <2>21. (Known(c) /\ HasRoom(c))'
    <3>1. proc'[c].at = "tmp" /\ proc'[c].after = "moved" /\ proc'[c].uri = u /\ proc'[c].new = v
          /\ tree' = tree /\ strays' = strays
      BY <2>17, <2>18 DEF rewrite_target_prefix
    <3> QED BY <1>2, <1>5, <3>1 DEF Known, Emptied, HasRoom, Moves, Saving, Fits
  <2> HIDE DEF T, r, undo, D, plan
  <2>22. UNCHANGED <<file, tree, left, strays>> /\ lock = None
    BY DEF rewrite_target_prefix
  <2>23. Apart(c, {u, v}) /\ Retargets({u, v})
    BY <2>14, <2>15
  <2> QED BY <1>1, <1>5, <2>9, <2>11, <2>13, <2>14, <2>17, <2>18, <2>20, <2>21, <2>22, <2>23,
             StepToSave
<1>6. Targeting(proc[c].uri) = DOMAIN Plan(proc[c].uri, proc[c].new)
  BY DEF Plan
<1> QED BY <1>4, <1>5, <1>6 DEF rewrite_target_prefix

-----------------------------------------------------------------------------
(***************************************************************************)
(* Executions.                                                             *)
(***************************************************************************)
\* A task is handed to an execution, by the loop or by a trigger.
LEMMA MarkStep ==
    ASSUME IInv, NEW t \in Task, Mark(t), left' \in [calls : Nat, faults : Nat]
    PROVE  IInv'
<1> DEFINE r == [Idle EXCEPT !.at = "marked", !.task = t]
<1>1. t \in Proc
  BY DEF Proc
<1>2. r \in Call0 /\ r.at = "marked"
  BY DEF Idle, Call0, Labels
<1>3. proc' = [proc EXCEPT ![t] = r]
  BY DEF Mark
<1> HIDE DEF r
<1>4. ~Saving(t) /\ lease[t].kind # "mutation"
  BY <1>1, IsKnown DEF Mark, In, Saving, Moves, Known
<1>5. LeasesKept(t) /\ lease'[t].kind # "mutation"
  BY <1>1, <1>4, IsKnown, LeaseStays DEF Mark
<1>6. tree' \subseteq Uri /\ Grows({}) /\ Apart(t, {})
  BY <1>1, IsKnown, ApartFromNothing DEF Mark, Grows
<1> QED BY <1>1, <1>2, <1>3, <1>4, <1>5, <1>6, PlainStep DEF Mark, SaveLabels

\* An execution takes the target of the moment.
LEMMA ExecuteStep == ASSUME IInv, NEW t \in Task, execute_task(t) PROVE IInv'
<1> DEFINE u == tasks[t].to
           r == [proc[t] EXCEPT !.at = "check", !.uri = u]
<1>1. t \in Proc
  BY DEF Proc
<1>2. ~Saving(t)
  BY DEF execute_task, In, Saving
<1>3. CASE Finish(t)
  BY <1>1, <1>2, <1>3, FinishQuietly DEF execute_task
<1>4. ASSUME tasks[t] # None, CanAccess(t, {u}), Access(t, {u}),
             proc' = [proc EXCEPT ![t].at = "check", ![t].uri = u]
      PROVE  IInv'
  <2>1. u \in Uri
    BY <1>1, <1>4, IsKnown DEF TaskMap, Record
  <2> HIDE DEF u
  <2>2. r \in Call0 /\ r.at = "check" /\ r.uri = u
    BY <1>1, <2>1, IsKnown DEF Call0, Labels
  <2>3. proc' = [proc EXCEPT ![t] = r]
    BY <1>1, <1>4, IsKnown DEF Types
  <2> HIDE DEF r
  <2>4. LeasesKept(t) /\ lease'[t].kind # "mutation" /\ u \in lease'[t].uris
    BY <1>1, <1>4, <2>1, IsKnown, LeaseGrows
  <2>5. tree' \subseteq Uri /\ left' \in [calls : Nat, faults : Nat] /\ Grows({}) /\ Apart(t, {})
    BY <1>1, IsKnown, ApartFromNothing DEF execute_task, Grows
  <2> QED BY <1>1, <1>2, <2>1, <2>2, <2>3, <2>4, <2>5, PlainStep DEF execute_task, SaveLabels
<1> QED BY <1>3, <1>4 DEF execute_task

\* An execution goes on under the lease it has.
LEMMA GoesOn ==
    ASSUME IInv, NEW t \in Task, In(t, "check") \/ In(t, "refresh"),
           NEW at \in {"refresh", "time", "deactivate"}, Goto(t, at),
           UNCHANGED <<tasks, index, file, lock, promised, lease, strays>>,
           tree' \in {tree, tree \cup {proc[t].uri}}, left' \in [calls : Nat, faults : Nat]
    PROVE  IInv'
<1> DEFINE u == proc[t].uri
           r == [proc[t] EXCEPT !.at = at]
<1>1. t \in Proc
  BY DEF Proc
<1>2. ~Saving(t) /\ lease[t].kind # "mutation" /\ u \in Uri /\ u \in lease[t].uris
  BY <1>1, IsKnown DEF In, Saving, Moves, Known
<1>3. r \in Call0 /\ r.at = at /\ r.uri = u
  BY <1>1, IsKnown DEF Call0, Labels
<1>4. proc' = [proc EXCEPT ![t] = r]
  BY <1>1, IsKnown DEF Goto, Types
<1> HIDE DEF r
<1>5. LeasesKept(t) /\ lease'[t].kind # "mutation"
  BY <1>1, <1>2, IsKnown, LeaseStays
<1>6. Apart(t, {u})
  BY <1>1, <1>2, IsKnown, LeaseHolds
<1>7. tree' \subseteq Uri
  BY <1>1, <1>2, IsKnown
<1>8. Grows({u})
  BY <1>2, UnderItself, UrisAreNames DEF Grows
<1> QED BY <1>1, <1>2, <1>3, <1>4, <1>5, <1>6, <1>7, <1>8, PlainStep DEF SaveLabels

\* All steps of an execution.
LEMMA ExecutionStep == ASSUME IInv, NEW t \in Task, Execution(t) PROVE IInv'
<1>1. t \in Proc
  BY DEF Proc
<1>2. CASE check(t)
  <2>1. left' \in [calls : Nat, faults : Nat]
    BY <1>1, <1>2, IsKnown, SpentIsTyped DEF check
  <2>2. PICK at \in {"refresh", "time", "deactivate"} : Goto(t, at)
    BY <1>2 DEF check
  <2> QED BY <1>2, <2>1, <2>2, GoesOn DEF check
<1>3. CASE refresh(t)
  <2>1. left' \in [calls : Nat, faults : Nat]
    BY <1>1, <1>3, IsKnown DEF refresh
  <2>2. PICK at \in {"refresh", "time", "deactivate"} : Goto(t, at)
    BY <1>3 DEF refresh
  <2> QED BY <1>3, <2>1, <2>2, GoesOn DEF refresh
<1> QED BY <1>2, <1>3, ExecuteStep, DeactivateStep, TimeStep DEF Execution

-----------------------------------------------------------------------------
(***************************************************************************)
(* Saves and restarts.                                                     *)
(***************************************************************************)
FileIsSane(f) ==
    /\ DOMAIN f = {"store", "bak", "tmp"}
    /\ \A n \in {"store", "bak", "tmp"} : Readable(f[n]) => Sane(f[n])

\* A step of a save, broken off or not, leaves nothing but tasks in the files.
LEMMA StepsAreSane ==
    ASSUME IInv, NEW at \in SaveLabels
    PROVE  /\ FileIsSane(SaveStep(at))
           /\ \A f \in Partly(at) : FileIsSane(f)
<1>1. Sane(tasks)
  BY DEF IInv, IndexMatches, TypeOK, Sane
<1>2. FileIsSane(file)
  BY DEF IInv, Types, FileIsSane
<1>3. ~Readable(None) /\ ~Readable(Torn)
  BY DEF Readable
<1>4. \A f, n, x : FileIsSane(f) /\ n \in {"store", "bak", "tmp"} /\ (Readable(x) => Sane(x))
          => FileIsSane([f EXCEPT ![n] = x])
  BY DEF FileIsSane
<1>5. \A f, x : FileIsSane(f) /\ (Readable(x) => Sane(x))
          => /\ FileIsSane([f EXCEPT !.store = x])
             /\ FileIsSane([f EXCEPT !.bak = x])
             /\ FileIsSane([f EXCEPT !.tmp = x])
  BY DEF FileIsSane
<1>6. \A x \in {file.store, file.bak, file.tmp, tasks, None, Torn} : Readable(x) => Sane(x)
  BY <1>1, <1>2, <1>3 DEF FileIsSane
<1>7. \A x, y \in {file.store, file.bak, file.tmp, tasks, None, Torn} :
          /\ FileIsSane([file EXCEPT !.bak = x, !.store = y])
          /\ FileIsSane([file EXCEPT !.store = x, !.tmp = y])
  BY <1>2, <1>6 DEF FileIsSane
<1>8. \A x \in {file.store, file.bak, file.tmp, tasks, None, Torn} :
          /\ FileIsSane([file EXCEPT !.store = x])
          /\ FileIsSane([file EXCEPT !.bak = x])
          /\ FileIsSane([file EXCEPT !.tmp = x])
  BY <1>2, <1>5, <1>6
<1>9. FileIsSane(SaveStep(at))
  <2> HIDE DEF IInv
  <2>1. CASE at = "tmp"
    BY <1>8, <2>1 DEF SaveStep
  <2>2. CASE at = "rmbak"
    BY <1>8, <2>2 DEF SaveStep
  <2>3. CASE at = "rotate"
    BY <1>2, <1>7, <2>3 DEF SaveStep
  <2>4. CASE at = "swap"
    BY <1>7, <2>4 DEF SaveStep
  <2> QED BY <2>1, <2>2, <2>3, <2>4 DEF SaveLabels
<1>10. ASSUME NEW f \in Partly(at) PROVE FileIsSane(f)
  <2>1. CASE at = "tmp"
    BY <1>2, <1>8, <1>10, <2>1 DEF Partly
  <2>2. CASE at = "rmbak"
    BY <1>2, <1>8, <1>10, <2>2 DEF Partly
  <2>3. CASE at = "rotate"
    BY <1>2, <1>8, <1>10, <2>3 DEF Partly
  <2>4. CASE at = "swap"
    BY <1>2, <1>8, <1>10, <2>4 DEF Partly
  <2> QED BY <2>1, <2>2, <2>3, <2>4 DEF SaveLabels
<1> QED BY <1>9, <1>10

\* A save that goes on, after a step that was done or a failure that is passed over.
LEMMA SaveGoesOn ==
    ASSUME IInv, NEW p \in Proc, NEW at \in {"rmbak", "rotate", "swap"}, Saving(p), Goto(p, at),
           FileIsSane(file'), left' \in [calls : Nat, faults : Nat],
           UNCHANGED <<tasks, index, tree, lock, lease, promised, strays>>
    PROVE  IInv'
<1> DEFINE r == [proc[p] EXCEPT !.at = at]
<1>1. r \in Call0 /\ r.at = at /\ r.after = proc[p].after /\ r.undo = proc[p].undo
      /\ r.uri = proc[p].uri /\ r.new = proc[p].new
  BY IsKnown DEF Call0, Labels
<1>2. proc' = [proc EXCEPT ![p] = r] /\ proc'[p] = r
  BY IsKnown DEF Goto, Types
<1> HIDE DEF r
<1>3. proc' \in [Proc -> Call0] /\ \A q \in Proc \ {p} : proc'[q] = proc[q]
  BY <1>1, <1>2, IsKnown DEF Types, Call0
<1>4. Saving(p)' /\ lock = p
  BY <1>1, <1>2, IsKnown DEF Saving, LockIsHeld
<1>5. (TypeOK /\ IndexMatches /\ LeasesExclude)'
  BY DEF IInv, TypeOK, IndexMatches, LeasesExclude
<1>6. Types'
  BY <1>3, IsKnown DEF Types, Call0, FileIsSane, Readable, Sane
<1>7. LockIsHeld'
  BY <1>3, <1>4, IsKnown DEF LockIsHeld, Saving
<1>8. Moves(p)' <=> Moves(p)
  BY <1>1, <1>2, <1>4 DEF Moves, Saving
<1>9. Known(p)'
  <2>1. Emptied(p)'
    BY <1>1, <1>2, <1>4, <1>8, IsKnown DEF Known, Emptied, Saving
  <2> QED BY <1>1, <1>2, <1>4, <1>8, <2>1, IsKnown DEF Known, Saving, Fits
<1>10. (HasRoom(p) /\ CanGoBack(p))'
  <2>1. Restored(p)' = Restored(p)
    BY <1>1, <1>2 DEF Restored
  <2> QED BY <1>1, <1>2, <2>1, IsKnown DEF HasRoom, CanGoBack, In, Agree
<1>11. Apart(p, {}) /\ Retargets({}) /\ Grows({}) /\ OthersStay(p)
  BY <1>3, ApartFromNothing DEF Retargets, Grows, OthersStay
<1> QED BY <1>4, <1>5, <1>6, <1>7, <1>9, <1>10, <1>11, Compose

\* A save that ends, and its call or execution with it.
LEMMA SaveEnds ==
    ASSUME IInv, NEW p \in Proc, Saving(p), Finish(p), lock' = None,
           FileIsSane(file'), left' \in [calls : Nat, faults : Nat],
           promised' \in {promised, {tasks}}, UNCHANGED <<tasks, index, tree, strays>>
    PROVE  IInv'
<1>1. Idle \in Call0 /\ Idle.at = "idle"
  BY DEF Idle, Call0, Labels
<1>2. LeasesKept(p) /\ lease'[p] = NoLease
  BY IsKnown, LeaseEnds DEF Finish
<1>3. lease'[p].kind # "mutation"
  BY <1>2 DEF NoLease
<1> HIDE DEF Idle
<1>4. proc' \in [Proc -> Call0] /\ proc'[p] = Idle /\ \A q \in Proc \ {p} : proc'[q] = proc[q]
  BY <1>1, IsKnown DEF Types, Call0, Finish
<1>5. ~Saving(p)' /\ ~Moves(p)' /\ lock = p
  BY <1>1, <1>4, IsKnown DEF Saving, Moves, LockIsHeld
<1>6. (TypeOK /\ IndexMatches)'
  BY DEF IInv, TypeOK, IndexMatches
<1>7. Types'
  BY <1>2, <1>4, IsKnown DEF Types, Call0, FileIsSane, Readable, Sane, LeasesKept, LeaseSet
<1>8. LockIsHeld'
  BY <1>4, <1>5, IsKnown, NoneAssumption DEF LockIsHeld, Saving
<1>9. (Known(p) /\ HasRoom(p) /\ CanGoBack(p))'
  BY <1>1, <1>3, <1>4, <1>5 DEF Known, Emptied, HasRoom, CanGoBack, In
<1>10. Apart(p, {}) /\ Retargets({}) /\ Grows({}) /\ OthersStay(p)
  BY <1>2, <1>4, ApartFromNothing DEF Retargets, Grows, OthersStay, LeasesKept
<1> QED BY <1>2, <1>5, <1>6, <1>7, <1>8, <1>9, <1>10, Compose DEF LeasesKept

\* A step of a save.
LEMMA SaveStepKeeps == ASSUME IInv, NEW p \in Proc, save(p) PROVE IInv'
<1>1. Saving(p) /\ proc[p].at \in SaveLabels /\ FileIsSane(file')
  BY StepsAreSane DEF save, Saving, SaveLabels
<1>2. left' \in [calls : Nat, faults : Nat]
  BY IsKnown DEF save
<1>3. CASE ~In(p, "swap") /\ Goto(p, NextSaveStep(proc[p].at)) /\ UNCHANGED <<lock, lease, promised>>
  <2>1. NextSaveStep(proc[p].at) \in {"rmbak", "rotate", "swap"}
    BY <1>1, <1>3 DEF NextSaveStep, SaveLabels, In
  <2> QED BY <1>1, <1>2, <1>3, <2>1, SaveGoesOn DEF save
<1>4. CASE In(p, "swap") /\ lock' = None /\ promised' = {tasks} /\ Finish(p)
  BY <1>1, <1>2, <1>4, SaveEnds DEF save
<1> QED BY <1>3, <1>4 DEF save

\* A move whose save fails has its targets back, and its index.
LEMMA UndoStep ==
    ASSUME IInv, NEW p \in Proc, Saving(p), proc[p].after = "moved", lock' = None,
           tasks' = Restored(p), index' = proc[p].undo.index, Goto(p, "rollback"),
           FileIsSane(file'), left' \in [calls : Nat, faults : Nat],
           UNCHANGED <<lease, tree, promised, strays>>
    PROVE  IInv'
<1> DEFINE u == proc[p].uri
           v == proc[p].new
           undo == proc[p].undo
           r == [proc[p] EXCEPT !.at = "rollback"]
<1>1. r \in Call0 /\ r.at = "rollback" /\ r.undo = undo /\ r.uri = u /\ r.new = v
  BY IsKnown DEF Call0, Labels
<1>2. proc' = [proc EXCEPT ![p] = r] /\ proc'[p] = r
  BY IsKnown DEF Goto, Types
<1> HIDE DEF r
<1>3. proc' \in [Proc -> Call0] /\ \A q \in Proc \ {p} : proc'[q] = proc[q]
  BY <1>1, <1>2, IsKnown DEF Types, Call0
<1>4. Moves(p) /\ Known(p) /\ CanGoBack(p) /\ lock = p
  BY IsKnown DEF Moves, LockIsHeld
<1>5. /\ undo \in Undo /\ Agree(Restored(p), undo.index)
      /\ \A t \in DOMAIN undo.to :
            /\ tasks[t] # None
            /\ Under(undo.to[t], u)
            /\ tasks[t].to = Rewrite(undo.to[t], u, v)
  BY <1>4 DEF CanGoBack
<1>6. /\ DOMAIN undo.to \subseteq Task /\ undo.index \in [Uri -> Task \cup {None}]
      /\ \A t \in DOMAIN undo.to : undo.to[t] \in Uri
  BY <1>5 DEF Undo
<1>7. /\ u \in Uri /\ v \in Uri /\ lease[p].uris = {u, v} /\ lease[p].kind = "mutation"
      /\ Fits(u, v)
  BY <1>4 DEF Known
<1>8. \A t \in DOMAIN undo.to : /\ tasks[t] \in Record
                                /\ [tasks[t] EXCEPT !.to = undo.to[t]] \in Record
                                /\ [tasks[t] EXCEPT !.to = undo.to[t]].to = undo.to[t]
  <2>1. \A t \in DOMAIN undo.to : tasks[t] \in Record
    BY <1>5, <1>6, IsKnown DEF TaskMap
  <2> QED BY <1>6, <2>1 DEF Record
<1>9. \A t \in Task : IF t \in DOMAIN undo.to
                      THEN tasks'[t] # None /\ tasks'[t].to = undo.to[t]
                      ELSE tasks'[t] = tasks[t]
  BY <1>8, NoneAssumption DEF Restored
<1>10. TypeOK'
  <2>1. Restored(p) \in TaskMap
    BY <1>8, IsKnown DEF Restored, TaskMap
  <2> QED BY <1>6, <2>1, IsKnown DEF TypeOK
<1>11. IndexMatches'
  BY <1>5 DEF IndexMatches, Agree
<1>12. Types'
  BY <1>3, IsKnown DEF Types, Call0, FileIsSane, Readable, Sane
<1>13. LockIsHeld'
  BY <1>1, <1>2, <1>3, <1>4, IsKnown, NoneAssumption DEF LockIsHeld, Saving
<1>14. Known(p)'
  <2>1. \A x \in tree \ strays : ~Under(x, u)
    BY <1>4 DEF Known, Emptied, Saving
  <2>2. Emptied(p)'
    BY <1>1, <1>2, <2>1 DEF Emptied
  <2> QED BY <1>1, <1>2, <1>7, <2>2 DEF Known, Moves, Saving, Fits
<1>15. (HasRoom(p) /\ CanGoBack(p))'
  <2> HIDE DEF u, v, undo
  <2>1. In(p, "rollback")' /\ ~Saving(p)' /\ proc'[p].undo = undo /\ proc'[p].uri = u
    BY <1>1, <1>2 DEF In, Saving
  <2>2. \A t \in DOMAIN undo.to : tasks'[t] # None /\ Under(undo.to[t], u) /\ tasks'[t].to = undo.to[t]
    BY <1>5, <1>6, <1>9
  <2> QED BY <1>5, <2>1, <2>2 DEF HasRoom, CanGoBack, In
<1>16. Retargets({u, v})
  <2>1. \A t \in DOMAIN undo.to : Under(tasks[t].to, v)
    <3>1. u \in Names /\ v \in Names /\ \A t \in DOMAIN undo.to : undo.to[t] \in Names
      BY <1>6, <1>7, UrisAreNames
    <3> HIDE DEF u, v, undo
    <3> QED BY <1>5, <3>1, Rewritten
  <2> HIDE DEF u, v, undo
  <2> QED BY <1>5, <1>9, <2>1 DEF Retargets
<1>17. Apart(p, {u, v})
  BY <1>7, IsKnown, LeaseHolds
<1>18. LeasesExclude' /\ Grows({u, v}) /\ OthersStay(p)
  BY <1>3, IsKnown DEF LeasesExclude, Grows, OthersStay
<1> QED BY <1>4, <1>10, <1>11, <1>12, <1>13, <1>14, <1>15, <1>16, <1>17, <1>18, Compose

\* A step of a save that fails.
LEMMA SaveFailsStep == ASSUME IInv, NEW p \in Proc, save_fails(p) PROVE IInv'
<1>1. Saving(p) /\ proc[p].at \in SaveLabels /\ FileIsSane(file')
  BY StepsAreSane DEF save_fails, Saving, SaveLabels
<1>2. left' \in [calls : Nat, faults : Nat]
  BY IsKnown, SpentIsTyped DEF save_fails
<1>3. CASE /\ proc[p].at \in {"rmbak", "rotate"}
           /\ Goto(p, NextSaveStep(proc[p].at))
           /\ UNCHANGED <<lock, lease, tasks, index>>
  <2>1. NextSaveStep(proc[p].at) \in {"rmbak", "rotate", "swap"}
    BY <1>3 DEF NextSaveStep
  <2> QED BY <1>1, <1>2, <1>3, <2>1, SaveGoesOn DEF save_fails
<1>4. ASSUME lock' = None, Failed(p) PROVE IInv'
  <2>1. CASE proc[p].after = "moved"
    <3>1. /\ tasks' = Restored(p) /\ index' = proc[p].undo.index /\ Goto(p, "rollback")
          /\ UNCHANGED lease
      BY <1>4, <2>1 DEF Failed, Restored
    <3> QED BY <1>1, <1>2, <1>4, <2>1, <3>1, UndoStep DEF save_fails
  <2>2. CASE proc[p].after # "moved"
    BY <1>1, <1>2, <1>4, <2>2, SaveEnds DEF save_fails, Failed
  <2> QED BY <2>1, <2>2
<1> QED BY <1>3, <1>4 DEF save_fails

\* An index made from tasks that share no target tells the same.
LEMMA IndexOfAgrees ==
    ASSUME NEW T, Sane(T)
    PROVE  IndexOf(T) \in [Uri -> Task \cup {None}] /\ Agree(T, IndexOf(T))
<1> DEFINE I == IndexOf(T)
           At(u) == {t \in Task : T[t] # None /\ T[t].to = u}
<1>1. \A t \in Task : T[t] # None => T[t].to \in Uri
  BY DEF Sane, TaskMap, Record
<1>2. \A u \in Uri : /\ At(u) # {} => I[u] \in At(u)
                     /\ At(u) = {} => I[u] = None
  <2> SUFFICES ASSUME NEW u \in Uri
               PROVE  /\ At(u) # {} => I[u] \in At(u)
                      /\ At(u) = {} => I[u] = None
    OBVIOUS
  <2>1. I[u] = IF \E t \in Task : T[t] # None /\ T[t].to = u
               THEN CHOOSE t \in Task : T[t] # None /\ T[t].to = u ELSE None
    BY DEF IndexOf
  <2> QED BY <2>1
<1>3. I = [u \in Uri |-> I[u]]
  BY DEF IndexOf
<1>4. \A t \in Task : t # None
  BY NoneAssumption DEF Proc
<1>5. \A u \in Uri : \A s, t \in At(u) : s = t
  BY DEF Sane
<1> HIDE DEF I
<1>6. I \in [Uri -> Task \cup {None}]
  BY <1>2, <1>3
<1>7. \A t \in Task : T[t] # None => I[T[t].to] = t
  <2> SUFFICES ASSUME NEW t \in Task, T[t] # None PROVE I[T[t].to] = t
    OBVIOUS
  <2>1. t \in At(T[t].to)
    OBVIOUS
  <2> QED BY <1>1, <1>2, <1>5, <2>1
<1>8. \A u \in Uri : I[u] # None => T[I[u]] # None /\ T[I[u]].to = u
  BY <1>2
<1> QED BY <1>6, <1>7, <1>8 DEF I, Agree

\* No tasks at all share no target.
LEMMA NothingIsSane == Sane([t \in Task |-> None])
BY DEF Sane, TaskMap

\* A restart reads a sane map and builds its index.
LEMMA RestartStep == ASSUME IInv, restart PROVE IInv'
<1>1. FileIsSane(file')
  <2>1. FileIsSane(file)
    BY DEF IInv, Types, FileIsSane
  <2>2. CASE lock = None
    BY <2>1, <2>2 DEF restart
  <2>3. CASE lock # None
    <3>1. lock \in Proc /\ Saving(lock)
      BY <2>3 DEF IInv, TypeOK, LockIsHeld
    <3>2. proc[lock].at \in SaveLabels
      BY <3>1 DEF Saving, SaveLabels
    <3> QED BY <2>3, <3>2, StepsAreSane DEF restart
  <2> QED BY <2>2, <2>3
<1>2. Sane(tasks')
  <2>1. Sane(Stored)
    BY <1>1, NothingIsSane DEF Stored, FileIsSane
  <2> QED BY <2>1 DEF restart
<1>3. index' \in [Uri -> Task \cup {None}] /\ Agree(tasks', index')
  BY <1>2, IndexOfAgrees DEF restart
<1>4. Boot \in Proc /\ tree' \subseteq Uri /\ tasks' \in TaskMap
  BY <1>2 DEF Proc, restart, IInv, TypeOK, Sane
<1>5. left' \in [calls : Nat, faults : Nat]
  BY SpentIsTyped DEF restart, IInv
<1>6. lease' \in [Proc -> LeaseSet] /\ \A p \in Proc : lease'[p] = NoLease
  BY DEF restart, NoLease, LeaseSet
<1>7. Idle \in Call0 /\ [Idle EXCEPT !.at = "tmp"] \in Call0 /\ Idle.at = "idle"
      /\ Idle.after = None
  BY DEF Idle, Call0, Labels
<1>8. [Idle EXCEPT !.at = "tmp"].at = "tmp" /\ [Idle EXCEPT !.at = "tmp"].after = None
  BY DEF Idle
<1>9. \/ lock' = Boot /\ proc' = [[p \in Proc |-> Idle] EXCEPT ![Boot].at = "tmp"]
      \/ lock' = None /\ proc' = [p \in Proc |-> Idle]
  BY DEF restart
<1> HIDE DEF Idle
<1>10. /\ proc' \in [Proc -> Call0]
       /\ \A p \in Proc : /\ proc'[p].after = None
                          /\ proc'[p].at = IF lock' = p THEN "tmp" ELSE "idle"
  BY <1>4, <1>7, <1>8, <1>9, NoneAssumption
<1>11. lock' \in Proc \cup {None}
  BY <1>4, <1>9
<1>12. None # "moved"
  BY NoneAssumption
<1>13. TypeOK' /\ IndexMatches'
  BY <1>3, <1>4, <1>11 DEF TypeOK, IndexMatches, Agree
<1>14. Types'
  BY <1>1, <1>4, <1>5, <1>6, <1>10 DEF restart, Types, Call0, LeaseSet, FileIsSane, Readable, Sane
<1>15. LockIsHeld'
  BY <1>10 DEF LockIsHeld, Saving
<1>16. LeasesExclude'
  BY <1>6 DEF LeasesExclude, NoLease
<1>17. \A p \in Proc : ~Moves(p)'
  BY <1>10, <1>12 DEF Moves, Saving
<1>18. \A p \in Proc : (Known(p) /\ HasRoom(p) /\ CanGoBack(p))'
  BY <1>6, <1>10, <1>12, <1>17 DEF Known, Emptied, HasRoom, CanGoBack, In, NoLease
<1> QED BY <1>13, <1>14, <1>15, <1>16, <1>18 DEF IInv

\* The first tasks share no target.
LEMMA FirstIsSane == Sane(First) /\ First \in TaskMap
<1>1. \A t \in DOMAIN Watched : [to |-> Watched[t], active |-> TRUE] \in Record
  BY WatchAssumption, WatchedAssumption DEF Record
<1>2. First \in TaskMap
  BY <1>1, WatchedAssumption DEF First, TaskMap
<1>3. \A t \in Task : First[t] # None => t \in DOMAIN Watched /\ First[t].to = Watched[t]
  BY DEF First
<1> QED BY <1>2, <1>3, WatchedAssumption DEF Sane

\* The invariant holds at first.
LEMMA InitHolds == Init => IInv
<1> SUFFICES ASSUME Init PROVE IInv
  OBVIOUS
<1>1. tasks \in TaskMap /\ Sane(tasks)
  BY FirstIsSane DEF Init
<1>2. index \in [Uri -> Task \cup {None}] /\ Agree(tasks, index)
  BY FirstIsSane, IndexOfAgrees DEF Init
<1>3. TypeOK /\ IndexMatches
  BY <1>1, <1>2, WatchAssumption DEF Init, TypeOK, IndexMatches, Agree
<1>4. Idle \in Call0 /\ Idle.at = "idle" /\ Idle.after = None /\ NoLease \in LeaseSet
      /\ NoLease.kind = "none"
  BY DEF Idle, Call0, Labels, NoLease, LeaseSet
<1>5. proc \in [Proc -> Call0] /\ lease \in [Proc -> LeaseSet]
      /\ \A p \in Proc : proc[p].at = "idle" /\ lease[p].kind = "none"
  BY <1>4 DEF Init
<1>6. left \in [calls : Nat, faults : Nat]
  BY WatchAssumption DEF Init
<1>7. FileIsSane(file)
  BY FirstIsSane DEF Init, FileIsSane, Readable
<1>8. promised \subseteq TaskMap
  BY FirstIsSane DEF Init
<1>9. Types
  BY <1>5, <1>6, <1>7, <1>8 DEF Types, Call0, LeaseSet, FileIsSane
<1>10. LockIsHeld /\ LeasesExclude
  BY <1>5, NoneAssumption DEF Init, LockIsHeld, Saving, LeasesExclude
<1>11. \A p \in Proc : Known(p) /\ HasRoom(p) /\ CanGoBack(p)
  BY <1>5 DEF Known, Emptied, HasRoom, CanGoBack, Moves, Saving, In
<1> QED BY <1>3, <1>9, <1>10, <1>11 DEF IInv

\* Nothing happens, nothing changes.
LEMMA StutterKeeps == ASSUME IInv, UNCHANGED vars PROVE IInv'
<1>1. (TypeOK /\ Types /\ IndexMatches)'
  BY DEF IInv, TypeOK, Types, IndexMatches, vars, Readable, Sane
<1>2. (LockIsHeld /\ LeasesExclude)'
  BY DEF IInv, LockIsHeld, LeasesExclude, Saving, vars
<1>3. ASSUME NEW p \in Proc PROVE (Known(p) /\ HasRoom(p) /\ CanGoBack(p))'
  <2>1. Known(p)'
    BY IsKnown DEF Known, Emptied, Moves, Saving, Fits, vars
  <2>2. HasRoom(p)'
    BY IsKnown DEF HasRoom, Targeting, vars
  <2>3. Restored(p)' = Restored(p)
    BY DEF Restored, vars
  <2>4. CanGoBack(p)'
    BY <2>3, IsKnown DEF CanGoBack, Saving, In, Agree, vars
  <2> QED BY <2>1, <2>2, <2>4
<1> QED BY <1>1, <1>2, <1>3 DEF IInv

\* Every step keeps the inductive invariant.
LEMMA StepKeeps == ASSUME IInv, [Next]_vars PROVE IInv'
<1>1. ASSUME NEW c \in Client, Call(c) \/ Work(c) PROVE IInv'
  BY <1>1, LookUpStep, RmStep, MvStep, UnwatchedMoveStep, CreateStep, UpdateStep, PauseStep,
     DeleteStep, ValidateStep, MoveFilesStep, RewriteStep, RollbackStep, DeactivateUnderStep
     DEF Call, Work
<1>2. ASSUME NEW t \in Task, due(t) \/ trigger(t) \/ Execution(t) PROVE IInv'
  <2>1. CASE due(t)
    <3>1. left' \in [calls : Nat, faults : Nat]
      BY <2>1 DEF due, IInv, Types
    <3> QED BY <2>1, <3>1, MarkStep DEF due
  <2>2. CASE trigger(t)
    <3>1. left' \in [calls : Nat, faults : Nat]
      BY <2>2, SpentIsTyped DEF trigger, IInv
    <3> QED BY <2>2, <3>1, MarkStep DEF trigger
  <2> QED BY <1>2, <2>1, <2>2, ExecutionStep
<1>3. ASSUME NEW p \in Proc, save(p) \/ save_fails(p) PROVE IInv'
  BY <1>3, SaveStepKeeps, SaveFailsStep
<1> QED BY <1>1, <1>2, <1>3, RestartStep, StutterKeeps DEF Next

-----------------------------------------------------------------------------
(***************************************************************************)
(* Theorems.                                                               *)
(***************************************************************************)
\* The inductive invariant holds in every state, whatever fails and however often
\* the service restarts.
THEOREM Invariance == Spec => []IInv
BY InitHolds, StepKeeps, PTL DEF Spec

\* Tasks, index, lock and the files of resources keep their types: a move rewrites
\* URIs of its source to URIs, and its rollback those at its target.
THEOREM WatchTypes == Spec => []TypeOK
BY Invariance, PTL DEF IInv

\* The index tells exactly the targets of the tasks (_uri_to_task), after any
\* failed saves, undone moves and restarts.
THEOREM IndexIsExact == Spec => []IndexMatches
BY Invariance, PTL DEF IInv

\* What an execution refreshes is not moved away under it by the move of a resource
\* to a resource, nor by its way back (UriMutationCoordinator.mutation around
\* FSService.mv, access in _execute_task).
THEOREM RefreshIsUndisturbed == Spec => NotMovedUnderRefresh
<1>1. ASSUME IInv, [Next]_vars, NEW t \in Task, NEW c \in Client,
             In(t, "refresh") /\ (In(c, "mv") \/ In(c, "rollback"))
      PROVE  ~Overlap({proc[t].uri}, {proc[c].uri, proc[c].new})
  <2>1. t \in Proc /\ c \in Proc /\ c # t
    BY <1>1 DEF Proc, In
  <2>2. proc[t].uri \in lease[t].uris /\ lease[c].kind = "mutation"
        /\ lease[c].uris = {proc[c].uri, proc[c].new}
    BY <1>1, <2>1, IsKnown DEF In, Known, Moves
  <2>3. ~Overlap(lease[c].uris, lease[t].uris)
    BY <1>1, <2>1, <2>2 DEF IInv, LeasesExclude
  <2> QED BY <2>2, <2>3 DEF Overlap
<1>2. IInv /\ [Next]_vars =>
         [\A t \in Task, c \in Client :
            In(t, "refresh") /\ (In(c, "mv") \/ In(c, "rollback")) /\ tree' # tree
               => refresh(t) \/ ~Overlap({proc[t].uri}, {proc[c].uri, proc[c].new})]_vars
  BY <1>1
<1> QED BY <1>2, Invariance, PTL DEF Spec, NotMovedUnderRefresh

\* The plan that is made again once the files have gone meets no task in the way:
\* rewrite_target_prefix_internal raises no ConflictError there.
THEOREM NoLateConflict ==
    Spec => [](\A c \in Client :
                 In(c, "rewrite") => ~Conflicting(Plan(proc[c].uri, proc[c].new)))
<1>1. ASSUME IInv, NEW c \in Client, In(c, "rewrite"),
             NEW t \in Targeting(proc[c].uri),
             index[Rewrite(tasks[t].to, proc[c].uri, proc[c].new)] \notin {None, t}
      PROVE  FALSE
  <2> DEFINE w == Rewrite(tasks[t].to, proc[c].uri, proc[c].new)
  <2>1. c \in Proc /\ t \in Task /\ tasks[t] # None /\ Under(tasks[t].to, proc[c].uri)
    BY DEF Proc, Targeting
  <2>2. Fits(proc[c].uri, proc[c].new) /\ HasRoom(c)
    BY <1>1, <2>1, IsKnown DEF Known, Moves, In
  <2>3. tasks[t].to \in Uri
    BY <1>1, <2>1, IsKnown DEF TaskMap, Record
  <2>4. w \in Uri /\ index[w] \in Task /\ index[w] # None
    BY <1>1, <2>1, <2>2, <2>3, IsKnown DEF Fits
  <2>5. tasks[index[w]] # None /\ tasks[index[w]].to = w
    <3> HIDE DEF w
    <3> QED BY <1>1, <2>4 DEF IInv, IndexMatches
  <2> QED BY <1>1, <2>1, <2>2, <2>4, <2>5 DEF HasRoom, In
<1>2. IInv => \A c \in Client :
                In(c, "rewrite") => ~Conflicting(Plan(proc[c].uri, proc[c].new))
  BY <1>1 DEF Conflicting, Plan
<1> QED BY <1>2, Invariance, PTL

-----------------------------------------------------------------------------
(***************************************************************************)
(* Moves are atomic.                                                       *)
(***************************************************************************)
\* A step of a client changes no lease but its own.
LEMMA WorkOfOne ==
    ASSUME Types, NEW p \in Proc, NEW q \in Proc \ {p},
           \/ \E u \in Uri : look_up(p, u) \/ rm(p, u)
           \/ \E u, v \in Uri : mv(p, u, v) \/ mv_unwatched(p, u, v)
           \/ Work(p)
    PROVE  lease'[q] = lease[q]
<1>1. CASE \/ \E u \in Uri : look_up(p, u) \/ rm(p, u)
           \/ \E u, v \in Uri : mv(p, u, v) \/ mv_unwatched(p, u, v)
  BY <1>1 DEF Types, look_up, rm, mv, mv_unwatched
<1>2. CASE create_task(p) \/ update_task(p) \/ delete_task(p)
  BY <1>2 DEF Types, create_task, update_task, delete_task, Finish, Access
<1>3. CASE pause(p) \/ resume(p)
  BY <1>3 DEF Types, pause, resume, Activate, Finish, Access
<1>4. CASE validate(p) \/ move_files(p) \/ rewrite_target_prefix(p) \/ rollback(p)
  BY <1>4 DEF Types, validate, move_files, rewrite_target_prefix, rollback, Finish
<1>5. CASE deactivate_under(p)
  BY <1>5 DEF Types, deactivate_under, Finish, Access
<1> QED BY <1>1, <1>2, <1>3, <1>4, <1>5 DEF Work

\* A step of an execution changes no lease but its own.
LEMMA ExecutionOfOne ==
    ASSUME Types, NEW t \in Task, NEW q \in Proc \ {t}, due(t) \/ trigger(t) \/ Execution(t)
    PROVE  lease'[q] = lease[q]
<1>1. t \in Proc
  BY DEF Proc
<1>2. CASE due(t) \/ trigger(t)
  BY <1>2 DEF due, trigger, Mark
<1>3. CASE execute_task(t) \/ check(t) \/ refresh(t)
  BY <1>1, <1>3 DEF Types, execute_task, check, refresh, Finish, Access
<1>4. CASE deactivate(t) \/ update_execution_time(t)
  BY <1>1, <1>4 DEF Types, deactivate, Activate, update_execution_time, Finish, Access
<1> QED BY <1>2, <1>3, <1>4 DEF Execution

\* A step of a save changes no lease but its own.
LEMMA SaveOfOne ==
    ASSUME Types, NEW p \in Proc, NEW q \in Proc \ {p}, save(p) \/ save_fails(p)
    PROVE  lease'[q] = lease[q]
BY DEF Types, save, save_fails, Failed, Finish

\* A move ends with its save, without a task to move, undone, or with its files.
LEMMA LastSteps ==
    ASSUME IInv, Next, NEW c \in Client, MoveEnds(c),
           Saving(c) \/ In(c, "rewrite") \/ In(c, "rollback") \/ In(c, "mv")
    PROVE  /\ Saving(c) => save(c)
           /\ In(c, "mv") => move_files(c)
           /\ In(c, "rewrite") => rewrite_target_prefix(c)
           /\ In(c, "rollback") => rollback(c)
<1>1. c \in Proc /\ Types /\ lease'[c] # lease[c] /\ ~restart
  BY DEF Proc, IInv, MoveEnds, NoLease
<1>2. ~ \E u \in Uri : look_up(c, u) \/ rm(c, u)
  BY DEF look_up, rm, In, Saving
<1>3. ~ \E u, v \in Uri : mv(c, u, v) \/ mv_unwatched(c, u, v)
  BY DEF mv, mv_unwatched, In, Saving
<1>4. ~create_task(c) /\ ~update_task(c) /\ ~pause(c) /\ ~resume(c) /\ ~delete_task(c)
  BY DEF create_task, update_task, pause, resume, delete_task, In, Saving
<1>5. ~validate(c) /\ ~deactivate_under(c) /\ (move_files(c) => In(c, "mv"))
  BY DEF validate, move_files, deactivate_under, In, Saving
<1>6. ASSUME c \in Task PROVE ~due(c) /\ ~trigger(c) /\ ~Execution(c)
  BY DEF due, trigger, Mark, Execution, execute_task, check, refresh, deactivate,
         update_execution_time, In, Saving
<1>7. rewrite_target_prefix(c) => In(c, "rewrite")
  BY DEF rewrite_target_prefix
<1>8. rollback(c) => In(c, "rollback")
  BY DEF rollback
<1>9. ~save_fails(c)
  <2> SUFFICES ASSUME save_fails(c) PROVE FALSE
    OBVIOUS
  <2>1. proc[c].after = "moved"
    BY <1>1, IsKnown DEF save_fails, Saving, Known, Moves, MoveEnds
  <2> QED BY <1>1, <2>1 DEF save_fails, Failed
<1>10. save(c) => Saving(c)
  BY DEF save
<1>11. move_files(c) \/ rewrite_target_prefix(c) \/ rollback(c) \/ save(c)
  <2>1. ASSUME NEW d \in Client, Call(d) \/ Work(d)
        PROVE  move_files(c) \/ rewrite_target_prefix(c) \/ rollback(c)
    <3>1. d \in Proc
      BY DEF Proc
    <3>2. d = c
      BY <1>1, <2>1, <3>1, WorkOfOne DEF Call
    <3> QED BY <1>2, <1>3, <1>4, <1>5, <2>1, <3>2 DEF Call, Work
  <2>2. ASSUME NEW t \in Task, due(t) \/ trigger(t) \/ Execution(t) PROVE FALSE
    BY <1>1, <1>6, <2>2, ExecutionOfOne
  <2>3. ASSUME NEW p \in Proc, save(p) \/ save_fails(p) PROVE save(c)
    BY <1>1, <1>9, <2>3, SaveOfOne
  <2> QED BY <1>1, <2>1, <2>2, <2>3 DEF Next
<1> QED BY <1>5, <1>7, <1>8, <1>10, <1>11 DEF In, Saving

\* The move of a resource that is over has left files and targets on the same side;
\* one that failed among its files, or on the way back, has lost none of them
\* (FSService.mv with its compensation, rewrite_target_prefix_internal, VikingFS.mv).
THEOREM MovesAreAtomic == Spec => MoveIsAtomic
<1> DEFINE Whole(c) ==
      LET u == proc[c].uri
          v == proc[c].new
      IN  /\ Saving(c) => \A t \in DOMAIN proc[c].undo.to :
                 tasks'[t].to = Rewrite(proc[c].undo.to[t], u, v)
          /\ In(c, "rewrite") => \A t \in Task : tasks'[t] # None => ~Under(tasks'[t].to, u)
          /\ Saving(c) \/ In(c, "rewrite") => \A x \in tree' \ strays : ~Under(x, u)
          /\ In(c, "rollback") =>
                /\ \A t \in DOMAIN proc[c].undo.to : tasks'[t].to = proc[c].undo.to[t]
                /\ left' = left => \A x \in tree' : ~Under(x, v)
          /\ In(c, "mv") /\ u # v =>
                \A x \in Moving(u) : x \in tree' \/ Rewrite(x, u, v) \in tree'
          /\ In(c, "rollback") /\ u # v =>
                \A x \in Moving(v) : x \in tree' \/ Rewrite(x, v, u) \in tree'
<1>1. ASSUME IInv, Next, NEW c \in Client, MoveEnds(c) PROVE Whole(c)
  <2>1. c \in Proc
    BY DEF Proc
  <2>2. CanGoBack(c) /\ Known(c)
    BY <1>1, <2>1, IsKnown
  <2>3. ASSUME Saving(c)
        PROVE  \A t \in DOMAIN proc[c].undo.to :
                  tasks'[t].to = Rewrite(proc[c].undo.to[t], proc[c].uri, proc[c].new)
    <3>1. tasks' = tasks
      BY <1>1, <2>3, LastSteps DEF save
    <3>2. proc[c].after = "moved"
      BY <1>1, <2>2, <2>3 DEF Known, Moves, Saving, MoveEnds
    <3> QED BY <2>2, <2>3, <3>1, <3>2 DEF CanGoBack
  <2>4. ASSUME In(c, "rewrite"), NEW t \in Task, tasks'[t] # None
        PROVE  ~Under(tasks'[t].to, proc[c].uri)
    <3>1. rewrite_target_prefix(c)
      BY <1>1, <2>4, LastSteps
    <3>2. lease' # lease
      BY <1>1 DEF MoveEnds, NoLease
    <3>3. DOMAIN Plan(proc[c].uri, proc[c].new) = {} /\ tasks' = tasks
      BY <3>1, <3>2 DEF rewrite_target_prefix
    <3> QED BY <2>4, <3>3 DEF Plan, Targeting
  <2>5. ASSUME In(c, "rollback")
        PROVE  \A t \in DOMAIN proc[c].undo.to : tasks'[t].to = proc[c].undo.to[t]
    <3>1. tasks' = tasks
      BY <1>1, <2>5, LastSteps DEF rollback
    <3> QED BY <2>2, <2>5, <3>1 DEF CanGoBack
  <2>6. ASSUME Saving(c) \/ In(c, "rewrite")
        PROVE  \A x \in tree' \ strays : ~Under(x, proc[c].uri)
    <3>1. tree' = tree
      BY <1>1, <2>6, LastSteps DEF save, rewrite_target_prefix
    <3>2. Moves(c)
      BY <1>1, <2>2 DEF Known, MoveEnds
    <3> QED BY <2>2, <2>6, <3>1, <3>2 DEF Known, Emptied, In, Saving
  <2>7. ASSUME In(c, "rollback"), left' = left PROVE \A x \in tree' : ~Under(x, proc[c].new)
    <3>1. rollback(c)
      BY <1>1, <2>7, LastSteps
    <3>2. tree' = Moved(proc[c].new, proc[c].uri)
      BY <1>1, <2>7, <3>1 DEF rollback, Spend, IInv, Types
    <3> QED BY <3>2 DEF Moved
  <2>8. ASSUME In(c, "mv") \/ In(c, "rollback")
        PROVE  /\ proc[c].uri \in Uri /\ proc[c].new \in Uri /\ tree \subseteq Uri
               /\ Fits(proc[c].uri, proc[c].new) /\ Fits(proc[c].new, proc[c].uri)
    <3>1. proc[c].uri \in Uri /\ proc[c].new \in Uri /\ Fits(proc[c].uri, proc[c].new)
      BY <2>2, <2>8 DEF Known, Moves, In
    <3>2. tree \subseteq Uri
      BY <1>1, <2>1, IsKnown
    <3> QED BY <3>1, <3>2, OverlapSymmetric DEF Fits
  <2>9. ASSUME In(c, "mv"), proc[c].uri # proc[c].new
        PROVE  \A x \in Moving(proc[c].uri) :
                  x \in tree' \/ Rewrite(x, proc[c].uri, proc[c].new) \in tree'
    <3> DEFINE u == proc[c].uri
               v == proc[c].new
    <3>1. tree' \in PartlyMoved(u, v) \cup {Moved(u, v), tree}
      BY <1>1, <2>9, LastSteps DEF move_files
    <3>2. u \in Uri /\ v \in Uri /\ u # v /\ Fits(u, v) /\ tree \subseteq Uri
      BY <2>8, <2>9
    <3> HIDE DEF u, v
    <3>3. \A x \in Moving(u) : x \in tree' \/ Rewrite(x, u, v) \in tree'
      BY <3>1, <3>2, NothingIsLost
    <3> QED BY <3>3 DEF u, v
  <2>10. ASSUME In(c, "rollback"), proc[c].uri # proc[c].new
         PROVE  \A x \in Moving(proc[c].new) :
                   x \in tree' \/ Rewrite(x, proc[c].new, proc[c].uri) \in tree'
    <3> DEFINE u == proc[c].uri
               v == proc[c].new
    <3>1. tree' \in PartlyMoved(v, u) \cup {Moved(v, u), tree}
      BY <1>1, <2>10, LastSteps DEF rollback
    <3>2. u \in Uri /\ v \in Uri /\ u # v /\ Fits(v, u) /\ tree \subseteq Uri
      BY <2>8, <2>10
    <3> HIDE DEF u, v
    <3>3. \A x \in Moving(v) : x \in tree' \/ Rewrite(x, v, u) \in tree'
      BY <3>1, <3>2, NothingIsLost
    <3> QED BY <3>3 DEF u, v
  <2> QED BY <2>3, <2>4, <2>5, <2>6, <2>7, <2>9, <2>10
<1>2. IInv /\ [Next]_vars => [\A c \in Client : MoveEnds(c) => Whole(c)]_vars
  BY <1>1
<1>3. Spec => [][\A c \in Client : MoveEnds(c) => Whole(c)]_vars
  BY <1>2, Invariance, PTL DEF Spec
<1> QED BY <1>3 DEF MoveIsAtomic

-----------------------------------------------------------------------------
(***************************************************************************)
(* A restart finds what was saved.  A step keeps what SaveIsWhole is       *)
(* about, begins a save, goes on with one, or is a fault.                  *)
(***************************************************************************)
KeepsFiles ==
    /\ UNCHANGED <<tasks, file, lock, promised>>
    /\ left'.faults \in Nat /\ left'.faults <= left.faults
    /\ lock # None => proc'[lock] = proc[lock]

BeginsSave ==
    /\ UNCHANGED <<file, left>>
    /\ lock = None /\ lock' \in Proc /\ promised' = promised \cup {tasks'} /\ proc'[lock'].at = "tmp"

IsFault == left'.faults \in Nat /\ left'.faults < left.faults

\* What a step of one process shows of the holder of the lock.
LEMMA HolderStays ==
    ASSUME IInv, NEW p \in Proc, ~Saving(p), NEW r, proc' = [proc EXCEPT ![p] = r]
    PROVE  lock # None => proc'[lock] = proc[lock]
BY DEF IInv, LockIsHeld, TypeOK, Types

\* A step that spends a fault is one.
LEMMA SpentFaults == ASSUME IInv, Spend("faults") PROVE IsFault
BY DEF IInv, Types, Spend, IsFault

\* A call leaves the faults as they are.
LEMMA SpentCalls ==
    ASSUME IInv, Spend("calls") PROVE left'.faults \in Nat /\ left'.faults <= left.faults
BY DEF IInv, Types, Spend

\* So does a step that spends nothing.
LEMMA NothingSpent ==
    ASSUME IInv, UNCHANGED left PROVE left'.faults \in Nat /\ left'.faults <= left.faults
BY DEF IInv, Types

\* Calls keep the files.
LEMMA CallsAreClassed ==
    ASSUME IInv, NEW c \in Client, Call(c) PROVE KeepsFiles
<1>1. c \in Proc
  BY DEF Proc
<1>2. ASSUME NEW u \in Uri, look_up(c, u) PROVE KeepsFiles
  <2>1. ~Saving(c)
    BY <1>2 DEF look_up, In, Saving
  <2>2. lock # None => proc'[lock] = proc[lock]
    BY <1>1, <1>2, <2>1, HolderStays DEF look_up
  <2> QED BY <1>2, <2>2, SpentCalls DEF look_up, KeepsFiles
<1>3. ASSUME NEW u \in Uri, rm(c, u) PROVE KeepsFiles
  <2>1. ~Saving(c)
    BY <1>3 DEF rm, In, Saving
  <2>2. lock # None => proc'[lock] = proc[lock]
    BY <1>1, <1>3, <2>1, HolderStays DEF rm
  <2> QED BY <1>3, <2>2, SpentCalls DEF rm, KeepsFiles
<1>4. ASSUME NEW u \in Uri, NEW v \in Uri, mv(c, u, v) PROVE KeepsFiles
  <2>1. ~Saving(c)
    BY <1>4 DEF mv, In, Saving
  <2>2. lock # None => proc'[lock] = proc[lock]
    BY <1>1, <1>4, <2>1, HolderStays DEF mv
  <2> QED BY <1>4, <2>2, SpentCalls DEF mv, KeepsFiles
<1>5. ASSUME NEW u \in Uri, NEW v \in Uri, mv_unwatched(c, u, v) PROVE KeepsFiles
  <2>1. left'.faults \in Nat /\ left'.faults <= left.faults
    <3>1. CASE Spend("calls")
      BY <3>1, SpentCalls
    <3>2. CASE left.faults > 0 /\ left' = [what \in DOMAIN left |-> left[what] - 1]
      BY <3>2 DEF IInv, Types
    <3> QED BY <1>5, <3>1, <3>2 DEF mv_unwatched
  <2> QED BY <1>5, <2>1 DEF mv_unwatched, KeepsFiles
<1> QED BY <1>2, <1>3, <1>4, <1>5 DEF Call

\* The end of a call that did not hold the lock.
LEMMA FinishIsClassed ==
    ASSUME IInv, NEW p \in Proc, ~Saving(p), Finish(p),
           UNCHANGED <<tasks, file, lock, promised>>,
           left'.faults \in Nat, left'.faults <= left.faults
    PROVE  KeepsFiles
BY HolderStays DEF Finish, KeepsFiles

\* So does a step within a call that does not hold the lock.
LEMMA GotoIsClassed ==
    ASSUME IInv, NEW p \in Proc, ~Saving(p), NEW at, Goto(p, at),
           UNCHANGED <<tasks, file, lock, promised>>,
           left'.faults \in Nat, left'.faults <= left.faults
    PROVE  KeepsFiles
<1>1. proc' = [proc EXCEPT ![p] = [proc[p] EXCEPT !.at = at]]
  BY DEF Goto
<1> QED BY <1>1, HolderStays DEF KeepsFiles

\* A step that takes the lock begins a save.
LEMMA SaveIsClassed ==
    ASSUME IInv, NEW p \in Proc, NEW T, NEW after, lock = None,
           Save(p, T, after), UNCHANGED <<file, left>>
    PROVE  BeginsSave
BY DEF IInv, Types, Save, BeginsSave

\* A change of is_active begins a save or has nothing to change.
LEMMA ActivateIsClassed ==
    ASSUME IInv, NEW p \in Proc, ~Saving(p), NEW t, NEW active, Activate(p, t, active)
    PROVE  KeepsFiles \/ BeginsSave
BY NothingSpent, FinishIsClassed, SaveIsClassed DEF Activate

\* Work of a client.
LEMMA WorkIsClassed ==
    ASSUME IInv, NEW c \in Client, Work(c) PROVE KeepsFiles \/ BeginsSave \/ IsFault
<1>1. c \in Proc
  BY DEF Proc
<1>2. CASE create_task(c)
  BY <1>1, <1>2, NothingSpent, FinishIsClassed, SaveIsClassed DEF create_task, In, Saving
<1>3. CASE update_task(c)
  BY <1>1, <1>3, NothingSpent, FinishIsClassed, SaveIsClassed DEF update_task, In, Saving
<1>4. CASE delete_task(c)
  BY <1>1, <1>4, NothingSpent, FinishIsClassed, SaveIsClassed DEF delete_task, In, Saving
<1>5. CASE pause(c) \/ resume(c)
  BY <1>1, <1>5, ActivateIsClassed DEF pause, resume, In, Saving
<1>6. CASE validate(c)
  BY <1>1, <1>6, NothingSpent, FinishIsClassed, GotoIsClassed DEF validate, In, Saving
<1>7. CASE move_files(c)
  BY <1>1, <1>7, NothingSpent, SpentFaults, FinishIsClassed, GotoIsClassed
     DEF move_files, In, Saving
<1>8. CASE rewrite_target_prefix(c)
  <2>1. ~Saving(c)
    BY <1>8 DEF rewrite_target_prefix, In, Saving
  <2>2. CASE DOMAIN Plan(proc[c].uri, proc[c].new) = {}
    BY <1>1, <1>8, <2>1, <2>2, NothingSpent, FinishIsClassed DEF rewrite_target_prefix
  <2>3. CASE DOMAIN Plan(proc[c].uri, proc[c].new) # {}
    <3>1. lock = None /\ lock' = c /\ UNCHANGED <<file, left>> /\ promised' = promised \cup {tasks'}
      BY <1>8, <2>3 DEF rewrite_target_prefix
    <3>2. proc'[c].at = "tmp"
      BY <1>1, <1>8, <2>3 DEF rewrite_target_prefix, IInv, Types
    <3> QED BY <1>1, <3>1, <3>2 DEF BeginsSave
  <2> QED BY <2>2, <2>3
<1>9. CASE rollback(c)
  BY <1>1, <1>9, NothingSpent, SpentFaults, FinishIsClassed DEF rollback, In, Saving
<1>10. CASE deactivate_under(c)
  BY <1>1, <1>10, NothingSpent, FinishIsClassed, SaveIsClassed DEF deactivate_under, In, Saving
<1> QED BY <1>2, <1>3, <1>4, <1>5, <1>6, <1>7, <1>8, <1>9, <1>10 DEF Work

\* Steps of an execution.
LEMMA ExecutionIsClassed ==
    ASSUME IInv, NEW t \in Task, due(t) \/ trigger(t) \/ Execution(t)
    PROVE  KeepsFiles \/ BeginsSave \/ IsFault
<1>1. t \in Proc
  BY DEF Proc
<1>2. ASSUME Mark(t), left'.faults \in Nat, left'.faults <= left.faults PROVE KeepsFiles
  <2>1. ~Saving(t)
    BY <1>2 DEF Mark, In, Saving
  <2> QED BY <1>1, <1>2, <2>1, HolderStays DEF Mark, KeepsFiles
<1>3. CASE due(t) \/ trigger(t)
  BY <1>2, <1>3, NothingSpent, SpentCalls DEF due, trigger
<1>4. CASE execute_task(t)
  <2>1. ~Saving(t)
    BY <1>4 DEF execute_task, In, Saving
  <2>2. CASE tasks[t] = None
    BY <1>1, <1>4, <2>1, <2>2, NothingSpent, FinishIsClassed DEF execute_task
  <2>3. CASE tasks[t] # None
    <3>1. proc' = [proc EXCEPT ![t] = [proc[t] EXCEPT !.at = "check", !.uri = tasks[t].to]]
      BY <1>4, <2>3 DEF execute_task
    <3>2. lock # None => proc'[lock] = proc[lock]
      BY <1>1, <2>1, <3>1, HolderStays
    <3> QED BY <1>4, <3>2, NothingSpent DEF execute_task, KeepsFiles
  <2> QED BY <2>2, <2>3
<1>5. CASE check(t)
  BY <1>1, <1>5, NothingSpent, SpentFaults, GotoIsClassed DEF check, In, Saving
<1>6. CASE refresh(t)
  BY <1>1, <1>6, NothingSpent, GotoIsClassed DEF refresh, In, Saving
<1>7. CASE deactivate(t)
  BY <1>1, <1>7, ActivateIsClassed DEF deactivate, In, Saving
<1>8. CASE update_execution_time(t)
  BY <1>1, <1>8, NothingSpent, FinishIsClassed, SaveIsClassed
     DEF update_execution_time, In, Saving
<1> QED BY <1>3, <1>4, <1>5, <1>6, <1>7, <1>8 DEF Execution

\* A step of any of the three kinds keeps what a restart may find.
LEMMA ClassedStepsAreWhole ==
    ASSUME IInv, SaveIsWhole, KeepsFiles \/ BeginsSave \/ IsFault PROVE SaveIsWhole'
<1>1. left.faults \in Nat /\ MaxFaults \in Nat
  BY WatchAssumption DEF IInv, Types
<1>2. CASE IsFault
  BY <1>1, <1>2 DEF IsFault, SaveIsWhole
<1>3. CASE KeepsFiles
  BY <1>1, <1>3 DEF KeepsFiles, SaveIsWhole
<1>4. CASE BeginsSave
  BY <1>1, <1>4, NoneAssumption DEF BeginsSave, SaveIsWhole
<1> QED BY <1>2, <1>3, <1>4

\* Each step of a save hands it on: .tmp is complete before .bak goes, the store is
\* the backup before it is replaced.
LEMMA SaveIsWholeGoesOn ==
    ASSUME IInv, SaveIsWhole, NEW p \in Proc, save(p) PROVE SaveIsWhole'
<1>1. left.faults \in Nat /\ MaxFaults \in Nat
  BY WatchAssumption DEF IInv, Types
<1>2. lock = p /\ p # None /\ Saving(p)
  BY NoneAssumption DEF IInv, LockIsHeld, save
<1>3. DOMAIN file = {"store", "bak", "tmp"}
  BY DEF IInv, Types
<1>4. UNCHANGED <<tasks, left>> /\ file' = SaveStep(proc[p].at)
  BY DEF save
<1> SUFFICES ASSUME left.faults = MaxFaults PROVE SaveIsWhole'
  BY <1>4 DEF SaveIsWhole
<1>5. tasks \in promised /\ tasks # None
  <2>1. tasks \in promised
    BY DEF SaveIsWhole
  <2> QED BY <2>1, NoneAssumption DEF IInv, Types
<1>6. CASE In(p, "tmp")
  <2>1. proc'[p].at = "rmbak" /\ UNCHANGED <<lock, promised>>
    BY <1>6 DEF save, Goto, NextSaveStep, In, IInv, Types
  <2>2. file' = [file EXCEPT !.tmp = tasks]
    BY <1>4, <1>6 DEF SaveStep, In
  <2>3. file'.tmp = tasks /\ file'.store = file.store
    BY <1>3, <2>2
  <2>4. file.store \in promised
    BY <1>2, <1>6 DEF SaveIsWhole, In
  <2> QED BY <1>2, <1>4, <1>5, <2>1, <2>3, <2>4 DEF SaveIsWhole
<1>7. CASE In(p, "rmbak")
  <2>1. proc'[p].at = "rotate" /\ UNCHANGED <<lock, promised>>
    BY <1>7 DEF save, Goto, NextSaveStep, In, IInv, Types
  <2>2. file' = [file EXCEPT !.bak = None]
    BY <1>4, <1>7 DEF SaveStep, In
  <2>3. file'.tmp = file.tmp /\ file'.store = file.store
    BY <1>3, <2>2
  <2>4. file.store \in promised /\ file.tmp = tasks
    BY <1>2, <1>7 DEF SaveIsWhole, In
  <2> QED BY <1>2, <1>4, <1>5, <2>1, <2>3, <2>4 DEF SaveIsWhole
<1>8. CASE In(p, "rotate")
  <2>1. proc'[p].at = "swap" /\ UNCHANGED <<lock, promised>>
    BY <1>8 DEF save, Goto, NextSaveStep, In, IInv, Types
  <2>2. file.store \in promised /\ file.tmp = tasks
    BY <1>2, <1>8 DEF SaveIsWhole, In
  <2>3. file.store # None
    BY <2>2, NoneAssumption DEF IInv, Types
  <2>4. file' = [file EXCEPT !.bak = file.store, !.store = None]
    BY <1>4, <1>8, <2>3 DEF SaveStep, In
  <2>5. file'.tmp = file.tmp /\ file'.store = None /\ file'.bak = file.store
    BY <1>3, <2>4
  <2> QED BY <1>2, <1>4, <1>5, <2>1, <2>2, <2>5 DEF SaveIsWhole
<1>9. CASE In(p, "swap")
  <2>1. lock' = None /\ promised' = {tasks}
    BY <1>9 DEF save
  <2>2. file' = [file EXCEPT !.store = file.tmp, !.tmp = None] /\ file.tmp = tasks
    BY <1>2, <1>4, <1>9 DEF SaveStep, SaveIsWhole, In
  <2>3. file'.store = tasks
    BY <1>3, <2>2
  <2> QED BY <1>4, <2>1, <2>3 DEF SaveIsWhole
<1> QED BY <1>2, <1>6, <1>7, <1>8, <1>9 DEF Saving, In

\* The first store is what a restart would find.
LEMMA WholeFromTheStart == Init => SaveIsWhole
BY WatchAssumption, NoneAssumption DEF Init, SaveIsWhole

\* Every step keeps it.
LEMMA StepsAreWhole == ASSUME IInv, SaveIsWhole, [Next]_vars PROVE SaveIsWhole'
<1>1. CASE UNCHANGED vars
  BY <1>1 DEF vars, SaveIsWhole
<1>2. ASSUME NEW c \in Client, Call(c) \/ Work(c) PROVE SaveIsWhole'
  BY <1>2, CallsAreClassed, WorkIsClassed, ClassedStepsAreWhole
<1>3. ASSUME NEW t \in Task, due(t) \/ trigger(t) \/ Execution(t) PROVE SaveIsWhole'
  BY <1>3, ExecutionIsClassed, ClassedStepsAreWhole
<1>4. ASSUME NEW p \in Proc, save(p) PROVE SaveIsWhole'
  BY <1>4, SaveIsWholeGoesOn
<1>5. ASSUME NEW p \in Proc, save_fails(p) PROVE SaveIsWhole'
  BY <1>5, SpentFaults, ClassedStepsAreWhole DEF save_fails
<1>6. CASE restart
  BY <1>6, SpentFaults, ClassedStepsAreWhole DEF restart
<1> QED BY <1>1, <1>2, <1>3, <1>4, <1>5, <1>6 DEF Next

\* The first fault, a crash: what it finds was promised.
LEMMA RestartFinds ==
    ASSUME IInv, SaveIsWhole, MaxFaults <= 1, restart PROVE tasks' \in promised
<1>1. left.faults = MaxFaults
  <2>1. left.faults \in Nat /\ left.faults > 0
    BY DEF restart, Spend, IInv, Types
  <2> QED BY <2>1, WatchAssumption DEF SaveIsWhole
<1>2. \A T \in promised : Readable(T)
  BY NoneAssumption DEF IInv, Types, Readable
<1>3. tasks' = Stored
  BY DEF restart
<1>4. CASE lock = None
  <2>1. file' = file /\ file.store \in promised
    BY <1>1, <1>4 DEF restart, SaveIsWhole
  <2> QED BY <1>2, <1>3, <2>1 DEF Stored
<1>5. CASE lock # None
  <2>1. lock \in Proc /\ Saving(lock)
    BY <1>5 DEF IInv, TypeOK, LockIsHeld
  <2>2. file' \in Partly(proc[lock].at) /\ DOMAIN file = {"store", "bak", "tmp"}
    BY <1>5 DEF restart, IInv, Types
  <2>3. CASE proc[lock].at # "swap"
    <3>1. file'.store = file.store
      BY <2>1, <2>2, <2>3 DEF Partly, Saving
    <3>2. file.store \in promised
      BY <1>1, <2>3 DEF SaveIsWhole
    <3> QED BY <1>2, <1>3, <3>1, <3>2 DEF Stored
  <2>4. CASE proc[lock].at = "swap"
    <3>1. tasks \in promised /\ file.tmp = tasks /\ file.store = None /\ file.bak \in promised
      BY <1>1, <1>5, <2>4 DEF SaveIsWhole
    <3>2. file'.bak = file.bak /\ file'.store \in {None, Torn, tasks}
      <4>1. file' \in {file, [file EXCEPT !.store = Torn], [file EXCEPT !.store = file.tmp]}
        BY <2>2, <2>4 DEF Partly
      <4> QED BY <2>2, <3>1, <4>1
    <3>3. CASE file'.store = tasks
      BY <1>2, <1>3, <3>1, <3>3 DEF Stored
    <3>4. CASE file'.store \in {None, Torn}
      BY <1>2, <1>3, <3>1, <3>2, <3>4 DEF Stored, Readable
    <3> QED BY <3>2, <3>3, <3>4
  <2> QED BY <2>3, <2>4
<1> QED BY <1>4, <1>5

\* Up to the first fault the files of a save are whole (_save_tasks).
THEOREM FilesAreWhole == Spec => []SaveIsWhole
BY Invariance, WholeFromTheStart, StepsAreWhole, PTL DEF Spec

\* A crash in the middle of a save, the first thing that goes wrong, loses no task
\* whose save was reported done (_save_tasks, _load_tasks).
THEOREM SavedTasksSurvive == ASSUME MaxFaults <= 1 PROVE Spec => RestartKeepsSaved
<1>1. IInv /\ SaveIsWhole /\ [Next]_vars => [restart => tasks' \in promised]_vars
  BY RestartFinds
<1> QED BY <1>1, Invariance, FilesAreWhole, PTL DEF Spec, RestartKeepsSaved

=============================================================================
