--------------------------- MODULE CachedFsProofs ---------------------------
(***************************************************************************)
(* Proofs about the cached file system, for every tree of paths, every set *)
(* of callers and any number of failed provider calls, lost keys and clean *)
(* restarts.  First what the paths and the trees of FsTree give, then one  *)
(* lemma per kind of step that it keeps CacheInv, then the theorems: what  *)
(* would be believed is current, and reads through the cache answer as     *)
(* those of a plain file system.                                           *)
(***************************************************************************)
EXTENDS CachedFs, TLAPS

-----------------------------------------------------------------------------
(***************************************************************************)
(* Paths.                                                                  *)
(***************************************************************************)
\* A prefix of a path is one of its ancestors.
LEMMA PrefixIsPath ==
    ASSUME NEW p \in Path, NEW n \in 0..Len(p)
    PROVE  /\ p \in Seq(Name) /\ Len(p) \in Nat
           /\ SubSeq(p, 1, n) \in Path
           /\ Len(SubSeq(p, 1, n)) = n
           /\ \A i \in 1..n : SubSeq(p, 1, n)[i] = p[i]
BY PathAssumption

\* A path lies under those of which it is a continuation, and under no other.
LEMMA UnderIsAncestor ==
    ASSUME NEW p \in Path, NEW s \in Path
    PROVE  IsUnder(p, s) <=> s \in Ancestors(p)
<1>1. p \in Seq(Name) /\ s \in Seq(Name) BY PathAssumption
<1>2. ASSUME IsUnder(p, s) PROVE s \in Ancestors(p)
  <2>1. Len(s) \in 0..Len(p) BY <1>1, <1>2 DEF IsUnder
  <2>2. s = SubSeq(p, 1, Len(s)) BY <1>1, <1>2, <2>1 DEF IsUnder
  <2> QED BY <2>1, <2>2 DEF Ancestors
<1>3. ASSUME s \in Ancestors(p) PROVE IsUnder(p, s)
  <2>1. PICK n \in 0..Len(p) : s = SubSeq(p, 1, n) BY <1>3 DEF Ancestors
  <2> QED BY <2>1, PrefixIsPath DEF IsUnder
<1> QED BY <1>2, <1>3

\* What lies above a path is a path.
LEMMA AncestorsArePaths ==
    ASSUME NEW p \in Path
    PROVE  Ancestors(p) \subseteq Path /\ p \in Ancestors(p)
<1>1. p \in Seq(Name) BY PathAssumption
<1>2. SubSeq(p, 1, Len(p)) = p /\ Len(p) \in 0..Len(p) BY <1>1
<1> QED BY <1>2, PathAssumption DEF Ancestors

\* Lying under is reflexive and transitive.
LEMMA UnderItself ==
    ASSUME NEW p \in Path
    PROVE  IsUnder(p, p)
BY PathAssumption DEF IsUnder

\* What lies below something below lies below.
LEMMA UnderTransitive ==
    ASSUME NEW p \in Path, NEW q \in Path, NEW s \in Path, IsUnder(p, q), IsUnder(q, s)
    PROVE  IsUnder(p, s)
<1>1. p \in Seq(Name) /\ q \in Seq(Name) /\ s \in Seq(Name) BY PathAssumption
<1>2. Len(p) \in Nat /\ Len(q) \in Nat /\ Len(s) \in Nat BY <1>1
<1>3. Len(s) <= Len(p) BY <1>2 DEF IsUnder
<1>4. ASSUME NEW i \in 1..Len(s) PROVE p[i] = s[i] BY <1>2, <1>4 DEF IsUnder
<1> QED BY <1>3, <1>4 DEF IsUnder

\* So is the directory of a path.
LEMMA ParentIsPath ==
    ASSUME NEW p \in Path
    PROVE  Parent(p) \in Path
<1>1. CASE p = <<>> BY <1>1 DEF Parent
<1>2. CASE p # <<>>
  <2>1. p \in Seq(Name) BY PathAssumption
  <2>2. Len(p) \in Nat /\ Len(p) # 0 BY <1>2, <2>1
  <2>3. Len(p) - 1 \in 0..Len(p) BY <2>2
  <2> QED BY <1>2, <2>3, PathAssumption DEF Parent
<1> QED BY <1>1, <1>2

\* Inside a subtree one step up stays inside, but from its top.
LEMMA ParentIsUnder ==
    ASSUME NEW p \in Path, NEW s \in Path, IsUnder(p, s), p # s
    PROVE  IsUnder(Parent(p), s) /\ p # <<>>
<1>1. p \in Seq(Name) /\ s \in Seq(Name) BY PathAssumption
<1>2. Len(p) \in Nat /\ Len(s) \in Nat /\ Len(s) <= Len(p) BY <1>1 DEF IsUnder
<1>3. Len(s) # Len(p) BY <1>1, <1>2 DEF IsUnder
<1>4. Len(p) - 1 \in 0..Len(p) /\ Len(s) <= Len(p) - 1 BY <1>2, <1>3
<1>5. p # <<>> BY <1>1, <1>4
<1>6. Parent(p) = SubSeq(p, 1, Len(p) - 1) BY <1>5 DEF Parent
<1>7. /\ Len(Parent(p)) = Len(p) - 1
      /\ \A i \in 1..(Len(p) - 1) : Parent(p)[i] = p[i]
  BY <1>4, <1>6, PrefixIsPath
<1>8. ASSUME NEW i \in 1..Len(s) PROVE Parent(p)[i] = s[i]
  <2>1. i \in 1..(Len(p) - 1) BY <1>2, <1>4
  <2> QED BY <2>1, <1>7 DEF IsUnder
<1> QED BY <1>4, <1>5, <1>7, <1>8 DEF IsUnder

\* What is bypassed is so with all that lies below.
LEMMA BypassIsInherited ==
    ASSUME bypass \in SUBSET Path, NEW p \in Path, NEW s \in Ancestors(p),
           is_runtime_bypassed(s)
    PROVE  is_runtime_bypassed(p)
<1>1. s \in Path /\ IsUnder(p, s) BY AncestorsArePaths, UnderIsAncestor
<1>2. PICK b \in bypass : IsUnder(s, b) BY DEF is_runtime_bypassed
<1>3. b \in Path OBVIOUS
<1>4. IsUnder(p, b) BY <1>1, <1>2, <1>3, UnderTransitive
<1> QED BY <1>4 DEF is_runtime_bypassed

-----------------------------------------------------------------------------
(***************************************************************************)
(* Trees.                                                                  *)
(***************************************************************************)
\* Where two trees show different content they differ in the entry itself, as a
\* file or as a directory, or in an entry of the directory.
LEMMA ContentDiffers ==
    ASSUME NEW d \in Tree, NEW e \in Tree, NEW key \in Key, Content(d, key) # Content(e, key)
    PROVE  \/ /\ key[1] = "file" /\ d[key[2]] # e[key[2]]
              /\ IsFile(d, key[2]) \/ IsFile(e, key[2])
           \/ /\ key[1] = "dir" /\ d[key[2]] # e[key[2]]
              /\ d[key[2]] = Dir \/ e[key[2]] = Dir
           \/ /\ key[1] = "dir"
              /\ \E r \in Path : r # key[2] /\ Parent(r) = key[2] /\ d[r] # e[r]
<1> DEFINE p == key[2]
<1>1. p \in Path /\ key[1] \in {"file", "dir"} BY DEF Key
<1>2. CASE key[1] = "file"
  <2>1. /\ Content(d, key) = IF d[p] \in Data THEN d[p] ELSE Error
        /\ Content(e, key) = IF e[p] \in Data THEN e[p] ELSE Error
    BY <1>2 DEF Content, Contents
  <2> QED BY <1>2, <2>1 DEF IsFile
<1>3. CASE key[1] = "dir"
  <2>1. /\ Content(d, key) = IF d[p] = Dir THEN Listing(d, p) ELSE Error
        /\ Content(e, key) = IF e[p] = Dir THEN Listing(e, p) ELSE Error
    BY <1>3 DEF Content, Contents
  <2>2. CASE d[p] # e[p] BY <1>3, <2>1, <2>2
  <2>3. CASE d[p] = e[p]
    <3>1. Listing(d, p) # Listing(e, p) BY <2>1, <2>3
    <3>2. ASSUME \A r \in Path : r # p /\ Parent(r) = p => d[r] = e[r] PROVE FALSE
      <4>1. Children(d, p) = Children(e, p) BY <3>2 DEF Children
      <4>2. \A r \in Children(d, p) : d[r] = e[r] BY <3>2 DEF Children
      <4> QED BY <3>1, <4>1, <4>2 DEF Listing
    <3> QED BY <1>3, <3>2
  <2> QED BY <2>2, <2>3
<1> QED BY <1>1, <1>2, <1>3

\* A change of one subtree shows in the subtree and in the directory it lies in.
LEMMA SubtreeShows ==
    ASSUME NEW d \in Tree, NEW e \in Tree, NEW top \in Path, NEW key \in Key,
           \A p \in Path : ~IsUnder(p, top) => d[p] = e[p],
           Content(d, key) # Content(e, key)
    PROVE  IsUnder(key[2], top) \/ key = <<"dir", Parent(top)>>
<1>1. key[2] \in Path /\ key = <<key[1], key[2]>> BY DEF Key
<1>2. CASE d[key[2]] # e[key[2]] BY <1>1, <1>2
<1>3. CASE d[key[2]] = e[key[2]]
  <2>1. /\ key[1] = "dir"
        /\ \E r \in Path : r # key[2] /\ Parent(r) = key[2] /\ d[r] # e[r]
    BY <1>3, ContentDiffers
  <2>2. PICK r \in Path : Parent(r) = key[2] /\ d[r] # e[r] BY <2>1
  <2>3. IsUnder(r, top) BY <2>2
  <2>4. CASE r = top BY <1>1, <2>1, <2>2, <2>4
  <2>5. CASE r # top BY <2>2, <2>3, <2>5, ParentIsUnder
  <2> QED BY <2>4, <2>5
<1> QED BY <1>2, <1>3

\* A change of one entry shows in what it is itself and in its directory.
LEMMA EntryShows ==
    ASSUME NEW d \in Tree, NEW e \in Tree, NEW top \in Path, NEW key \in Key,
           \A p \in Path : p # top => d[p] = e[p],
           Content(d, key) # Content(e, key)
    PROVE  \/ key = <<"file", top>> /\ (IsFile(d, top) \/ IsFile(e, top))
           \/ key = <<"dir", top>> /\ (d[top] = Dir \/ e[top] = Dir)
           \/ key = <<"dir", Parent(top)>>
<1>1. key[2] \in Path /\ key = <<key[1], key[2]>> BY DEF Key
<1>2. CASE d[key[2]] # e[key[2]]
  <2>1. key[2] = top BY <1>1, <1>2
  <2>2. CASE key[1] = "file" /\ (IsFile(d, key[2]) \/ IsFile(e, key[2]))
    BY <1>1, <2>1, <2>2
  <2>3. CASE key[1] = "dir" /\ (d[key[2]] = Dir \/ e[key[2]] = Dir)
    BY <1>1, <2>1, <2>3
  <2>4. CASE key[1] = "dir" /\ \E r \in Path : r # key[2] /\ Parent(r) = key[2] /\ d[r] # e[r]
    BY <2>1, <2>4
  <2> QED BY <2>2, <2>3, <2>4, ContentDiffers
<1>3. CASE d[key[2]] = e[key[2]]
  <2>1. /\ key[1] = "dir"
        /\ \E r \in Path : r # key[2] /\ Parent(r) = key[2] /\ d[r] # e[r]
    BY <1>3, ContentDiffers
  <2>2. PICK r \in Path : Parent(r) = key[2] /\ d[r] # e[r] BY <2>1
  <2>3. r = top BY <2>2
  <2> QED BY <1>1, <2>1, <2>2, <2>3
<1> QED BY <1>2, <1>3

\* The trees calls lead to.
LEMMA EntryTree ==
    ASSUME NEW d \in Tree, NEW p \in Path, NEW v \in Data \cup {Absent, Dir}
    PROVE  /\ [d EXCEPT ![p] = v] \in Tree
           /\ [d EXCEPT ![p] = v][p] = v
           /\ \A q \in Path : q # p => [d EXCEPT ![p] = v][q] = d[q]
BY DEF Tree

\* A removal changes only the subtree.
LEMMA WithoutTree ==
    ASSUME NEW d \in Tree, NEW p \in Path
    PROVE  /\ Without(d, p) \in Tree
           /\ \A q \in Path : ~IsUnder(q, p) => Without(d, p)[q] = d[q]
BY DEF Tree, Without

\* So does one that failed halfway.
LEMMA RemovedTree ==
    ASSUME NEW d \in Tree, NEW p \in Path, NEW e \in RemovedParts(d, p)
    PROVE  /\ e \in Tree
           /\ \A q \in Path : ~IsUnder(q, p) => e[q] = d[q]
<1>1. PICK gone \in SUBSET {q \in Path : IsUnder(q, p)} :
          e = [q \in Path |-> IF q \in gone THEN Absent ELSE d[q]]
  BY DEF RemovedParts
<1> QED BY <1>1 DEF Tree

\* A move changes only the two subtrees.
LEMMA MovedTree ==
    ASSUME NEW d \in Tree, NEW old \in Path, NEW new \in Path
    PROVE  /\ Moved(d, old, new) \in Tree
           /\ \A q \in Path : ~IsUnder(q, old) /\ ~IsUnder(q, new) => Moved(d, old, new)[q] = d[q]
BY DEF Tree, Moved

\* Missing parents become directories, and nothing else changes.
LEMMA ParentsTree ==
    ASSUME NEW d \in Tree, NEW p \in Path
    PROVE  /\ WithParents(d, p) \in Tree
           /\ \A q \in Path : WithParents(d, p)[q] # d[q]
                  => q # p /\ IsUnder(p, q) /\ WithParents(d, p)[q] = Dir
BY DEF Tree, WithParents

-----------------------------------------------------------------------------
(***************************************************************************)
(* Lists of provider calls.                                                *)
(***************************************************************************)
\* A list of calls that stores nothing but what the tree d holds.
Proper(calls, d) ==
    /\ calls \in Seq(ProviderCall)
    /\ \A i \in 1..Len(calls) :
           calls[i].do = "fill" => calls[i].value = Content(d, calls[i].key)

\* What a list of two parts covers, and what each of one call covers.
LEMMA JoinedCalls ==
    ASSUME NEW d, NEW s, NEW t, Proper(s, d), Proper(t, d)
    PROVE  /\ Proper(s \o t, d)
           /\ s # <<>> => s \o t # <<>>
           /\ \A key \in Key : Covered(s \o t, key) <=> Covered(s, key) \/ Covered(t, key)
<1>1. s \in Seq(ProviderCall) /\ t \in Seq(ProviderCall) BY DEF Proper
<1>2. /\ s \o t \in Seq(ProviderCall)
      /\ Len(s) \in Nat /\ Len(t) \in Nat /\ Len(s \o t) = Len(s) + Len(t)
      /\ \A i \in 1..Len(s) : (s \o t)[i] = s[i]
      /\ \A i \in 1..Len(t) : (s \o t)[Len(s) + i] = t[i]
  BY <1>1
<1>3. \A i \in 1..Len(s \o t) : i \in 1..Len(s) \/ (i - Len(s) \in 1..Len(t) /\ i = Len(s) + (i - Len(s)))
  BY <1>2
<1>4. ASSUME NEW i \in 1..Len(s \o t)
      PROVE  (\E j \in 1..Len(s) : (s \o t)[i] = s[j]) \/ (\E j \in 1..Len(t) : (s \o t)[i] = t[j])
  <2>1. CASE i \in 1..Len(s) BY <2>1, <1>2
  <2>2. CASE i - Len(s) \in 1..Len(t) /\ i = Len(s) + (i - Len(s)) BY <2>2, <1>2
  <2> QED BY <2>1, <2>2, <1>3
<1>5. Proper(s \o t, d)
  <2>1. ASSUME NEW i \in 1..Len(s \o t), (s \o t)[i].do = "fill"
        PROVE  (s \o t)[i].value = Content(d, (s \o t)[i].key)
    BY <1>4, <2>1 DEF Proper
  <2> QED BY <1>2, <2>1 DEF Proper
<1>6. s # <<>> => s \o t # <<>> BY <1>1, <1>2
<1>7. ASSUME NEW key \in Key
      PROVE  Covered(s \o t, key) <=> Covered(s, key) \/ Covered(t, key)
  <2>1. ASSUME Covered(s \o t, key) PROVE Covered(s, key) \/ Covered(t, key)
    BY <1>4, <2>1 DEF Covered
  <2>2. ASSUME Covered(s, key) PROVE Covered(s \o t, key)
    <3>1. PICK i \in 1..Len(s) : Covers(s[i], key) BY <2>2 DEF Covered
    <3>2. i \in 1..Len(s \o t) BY <1>2
    <3> QED BY <3>1, <3>2, <1>2 DEF Covered
  <2>3. ASSUME Covered(t, key) PROVE Covered(s \o t, key)
    <3>1. PICK i \in 1..Len(t) : Covers(t[i], key) BY <2>3 DEF Covered
    <3>2. Len(s) + i \in 1..Len(s \o t) BY <1>2
    <3>3. (s \o t)[Len(s) + i] = t[i] BY <1>2
    <3> QED BY <3>1, <3>2, <3>3 DEF Covered
  <2> QED BY <2>1, <2>2, <2>3
<1> QED BY <1>5, <1>6, <1>7

\* A list of one call.
LEMMA OneCall ==
    ASSUME NEW d, NEW call \in ProviderCall,
           call.do = "fill" => call.value = Content(d, call.key)
    PROVE  /\ Proper(<<call>>, d) /\ <<call>> # <<>>
           /\ \A key \in Key : Covered(<<call>>, key) <=> Covers(call, key)
BY DEF Proper, Covered

\* Calls that store nothing.
LEMMA PlainCall ==
    ASSUME NEW do \in {"bump", "delete"}, NEW kind \in {"file", "dir"}, NEW p \in Path
    PROVE  /\ Call(do, kind, p) \in ProviderCall
           /\ Call(do, kind, p).do = do /\ Call(do, kind, p).key = <<kind, p>>
BY DEF Call, ProviderCall, Key

\* A bump covers all objects below its path.
LEMMA bumpCalls ==
    ASSUME NEW d, NEW p \in Path
    PROVE  /\ Proper(bump_generation(p), d) /\ bump_generation(p) # <<>>
           /\ \A key \in Key : Covered(bump_generation(p), key) <=> IsUnder(key[2], p)
<1> DEFINE call == Call("bump", "dir", p)
<1>1. call \in ProviderCall /\ call.do = "bump" /\ call.key = <<"dir", p>> BY PlainCall
<1>2. \A key \in Key : Covers(call, key) <=> IsUnder(key[2], p) BY <1>1 DEF Covers
<1> HIDE DEF call
<1>3. bump_generation(p) = <<call>> BY DEF bump_generation, call
<1> QED BY <1>1, <1>2, <1>3, OneCall

\* A delete covers the object of its key.
LEMMA deleteCalls ==
    ASSUME NEW d, NEW kind \in {"file", "dir"}, NEW p \in Path
    PROVE  /\ Proper(cache_delete(kind, p), d) /\ cache_delete(kind, p) # <<>>
           /\ \A key \in Key : Covered(cache_delete(kind, p), key) <=> key = <<kind, p>>
<1> DEFINE call == Call("delete", kind, p)
<1>1. call \in ProviderCall /\ call.do = "delete" /\ call.key = <<kind, p>> BY PlainCall
<1>2. \A key \in Key : Covers(call, key) <=> key = <<kind, p>> BY <1>1 DEF Covers
<1> HIDE DEF call
<1>3. cache_delete(kind, p) = <<call>> BY DEF cache_delete, call
<1> QED BY <1>1, <1>2, <1>3, OneCall

\* invalidate_path_objects covers both objects of a path.
LEMMA pathCalls ==
    ASSUME NEW d, NEW p \in Path
    PROVE  /\ Proper(invalidate_path_objects(p), d) /\ invalidate_path_objects(p) # <<>>
           /\ \A key \in Key : Covered(invalidate_path_objects(p), key) <=> key[2] = p
<1>1. \A key \in Key : key[2] = p <=> key = <<"file", p>> \/ key = <<"dir", p>> BY DEF Key
<1>2. /\ Proper(cache_delete("file", p), d) /\ cache_delete("file", p) # <<>>
      /\ \A key \in Key : Covered(cache_delete("file", p), key) <=> key = <<"file", p>>
  BY deleteCalls
<1>3. /\ Proper(cache_delete("dir", p), d)
      /\ \A key \in Key : Covered(cache_delete("dir", p), key) <=> key = <<"dir", p>>
  BY deleteCalls
<1> QED BY <1>1, <1>2, <1>3, JoinedCalls DEF invalidate_path_objects

\* invalidate_parent_directory covers the listing of the directory above.
LEMMA parentCalls ==
    ASSUME NEW d, NEW p \in Path
    PROVE  /\ Proper(invalidate_parent_directory(p), d) /\ invalidate_parent_directory(p) # <<>>
           /\ \A key \in Key :
                  Covered(invalidate_parent_directory(p), key) <=> key = <<"dir", Parent(p)>>
BY deleteCalls, ParentIsPath DEF invalidate_parent_directory

\* Once the first call is made the others are left.
LEMMA RestOfCalls ==
    ASSUME NEW d, NEW calls, Proper(calls, d), calls # <<>>
    PROVE  /\ Head(calls) \in ProviderCall
           /\ Head(calls).do = "fill" => Head(calls).value = Content(d, Head(calls).key)
           /\ Len(calls) # 1 => Proper(Tail(calls), d) /\ Tail(calls) # <<>>
           /\ \A key \in Key :
                  Covered(calls, key) =>
                      Covers(Head(calls), key) \/ (Len(calls) # 1 /\ Covered(Tail(calls), key))
<1>1. calls \in Seq(ProviderCall) /\ Len(calls) \in Nat /\ Len(calls) >= 1 BY DEF Proper
<1>2. Head(calls) = calls[1] /\ 1 \in 1..Len(calls) /\ calls[1] \in ProviderCall BY <1>1
<1>3. /\ Tail(calls) \in Seq(ProviderCall) /\ Len(Tail(calls)) = Len(calls) - 1
      /\ \A i \in 1..(Len(calls) - 1) : Tail(calls)[i] = calls[i + 1]
  BY <1>1
<1>4. \A i \in 1..(Len(calls) - 1) : i + 1 \in 1..Len(calls) BY <1>1
<1>5. Len(calls) # 1 => Proper(Tail(calls), d) /\ Tail(calls) # <<>>
  <2>1. ASSUME NEW i \in 1..Len(Tail(calls)), Tail(calls)[i].do = "fill"
        PROVE  Tail(calls)[i].value = Content(d, Tail(calls)[i].key)
    BY <1>3, <1>4, <2>1 DEF Proper
  <2>2. ASSUME Len(calls) # 1 PROVE Tail(calls) # <<>>
    <3>1. Len(Tail(calls)) # 0 BY <1>1, <1>3, <2>2
    <3> QED BY <3>1
  <2> QED BY <1>3, <2>1, <2>2 DEF Proper
<1>6. ASSUME NEW key \in Key, Covered(calls, key), ~Covers(Head(calls), key)
      PROVE  Len(calls) # 1 /\ Covered(Tail(calls), key)
  <2>1. PICK i \in 1..Len(calls) : Covers(calls[i], key) BY <1>6 DEF Covered
  <2>2. i # 1 BY <2>1, <1>2, <1>6
  <2> DEFINE n == Len(calls)
  <2>3. i - 1 \in 1..(n - 1) /\ n # 1
    <3>1. n \in Nat /\ i \in 1..n BY <1>1
    <3> HIDE DEF n
    <3> QED BY <3>1, <2>2
  <2>4. Tail(calls)[i - 1] = calls[i]
    <3>1. Tail(calls)[i - 1] = calls[(i - 1) + 1] BY <1>3, <2>3
    <3>2. (i - 1) + 1 = i BY <1>1
    <3> QED BY <3>1, <3>2
  <2> QED BY <1>3, <2>1, <2>3, <2>4 DEF Covered
<1>7. Head(calls).do = "fill" => Head(calls).value = Content(d, Head(calls).key) BY <1>2 DEF Proper
<1> QED BY <1>2, <1>5, <1>6, <1>7

-----------------------------------------------------------------------------
(***************************************************************************)
(* What the steps do to the generations, to bypass and to the callers.     *)
(***************************************************************************)
\* Generations are at most remembered or put back.
OnlyRemembered ==
    /\ epoch' = epoch
    /\ gen' \in [Path -> {None} \cup Gen] /\ local' \in [Path -> {None} \cup Gen]
    /\ \A s \in Path : Generation(s)' = Generation(s)
    /\ \A s \in Path :
           \/ gen'[s] = gen[s] /\ local'[s] = local[s]
           \/ gen'[s] = Generation(s) /\ local'[s] = Generation(s)

\* Bypass is left only by a restart.
BypassGrows ==
    /\ bypass' \in SUBSET Path
    /\ \A p \in Path : is_runtime_bypassed(p) => is_runtime_bypassed(p)'

\* The caller c took a step, the others are where they were.
Moves(c) ==
    /\ client' = [d \in Client |-> client'[d]]
    /\ \A d \in Client : DOMAIN client'[d] = Fields
    /\ IsMemo(client'[c].memo)
    /\ \A d \in Client \ {c} : client'[d] = client[d]

\* The generation of a path is one, of this process or an earlier one.
LEMMA GenerationType ==
    ASSUME Types, GenerationsAgree, NEW s \in Path
    PROVE  /\ Generation(s) \in Gen /\ Generation(s) # None
           /\ Generation(s) = <<Generation(s)[1], Generation(s)[2]>>
           /\ Generation(s)[1] \in Nat /\ Generation(s)[2] \in Nat
           /\ Generation(s)[1] <= epoch
<1>1. gen[s] \in {None} \cup Gen /\ local[s] \in {None} \cup Gen /\ epoch \in Nat BY DEF Types
<1>2. <<epoch, 0>> \in Gen /\ <<epoch, 0>>[1] = epoch BY <1>1 DEF Gen
<1>3. Generation(s) \in Gen /\ Generation(s)[1] <= epoch
  <2>1. CASE gen[s] # None BY <1>1, <2>1 DEF Generation, GenerationsAgree
  <2>2. CASE gen[s] = None /\ local[s] # None BY <1>1, <2>2 DEF Generation, GenerationsAgree
  <2>3. CASE gen[s] = None /\ local[s] = None
    <3>1. Generation(s) = <<epoch, 0>> BY <2>3 DEF Generation
    <3> QED BY <1>1, <1>2, <3>1
  <2> QED BY <2>1, <2>2, <2>3
<1> QED BY <1>3, NoneAssumption DEF Gen

\* Nothing is remembered by steps that leave the generations alone.
LEMMA NothingRemembered ==
    ASSUME Types, UNCHANGED <<gen, local, epoch>>
    PROVE  OnlyRemembered
BY DEF Types, OnlyRemembered, Generation

\* current_generations changes no generation, and remembers those it read.
LEMMA LookedUp ==
    ASSUME Types, GenerationsAgree, epoch' = epoch, NEW scopes, current_generations(scopes)
    PROVE  OnlyRemembered /\ \A s \in Path \cap scopes : local'[s] = Generation(s) /\ local'[s] # None
<1>1. \A s \in Path : Generation(s) \in Gen /\ Generation(s) # None BY GenerationType
<1>2. /\ gen' = [p \in Path |-> IF p \in scopes THEN Generation(p) ELSE gen[p]]
      /\ local' = [p \in Path |-> IF p \in scopes THEN Generation(p) ELSE local[p]]
  BY DEF current_generations
<1>3. \A s \in Path : gen[s] \in {None} \cup Gen /\ local[s] \in {None} \cup Gen BY DEF Types
<1>4. gen' \in [Path -> {None} \cup Gen] /\ local' \in [Path -> {None} \cup Gen]
  BY <1>1, <1>2, <1>3
<1>5. ASSUME NEW s \in Path
      PROVE  \/ gen'[s] = gen[s] /\ local'[s] = local[s]
             \/ gen'[s] = Generation(s) /\ local'[s] = Generation(s)
  BY <1>2
<1>6. ASSUME NEW s \in Path PROVE Generation(s)' = Generation(s)
  <2>1. CASE s \in scopes
    <3>1. gen'[s] = Generation(s) /\ gen'[s] # None BY <1>1, <1>2, <2>1
    <3>2. Generation(s)' = gen'[s] BY <3>1 DEF Generation
    <3> QED BY <3>1, <3>2
  <2>2. CASE s \notin scopes
    <3>1. gen'[s] = gen[s] /\ local'[s] = local[s] BY <1>2, <2>2
    <3> QED BY <3>1 DEF Generation
  <2> QED BY <2>1, <2>2
<1>7. \A s \in Path \cap scopes : local'[s] = Generation(s) /\ local'[s] # None BY <1>1, <1>2
<1> QED BY <1>4, <1>5, <1>6, <1>7 DEF OnlyRemembered

\* Steps that leave bypass alone.
LEMMA BypassKept ==
    ASSUME Types, bypass' = bypass
    PROVE  BypassGrows
BY DEF Types, BypassGrows, is_runtime_bypassed

\* A path that was put into bypass is in it, with all below and all that was
\* there before.
LEMMA Marked ==
    ASSUME Types, NEW p \in Path, bypass' = mark_bypass(p)
    PROVE  BypassGrows /\ \A q \in Path : IsUnder(q, p) => is_runtime_bypassed(q)'
<1>1. bypass \in SUBSET Path BY DEF Types
<1>2. CASE is_runtime_bypassed(p)
  <2>1. bypass' = bypass BY <1>2 DEF mark_bypass
  <2>2. PICK b \in bypass : IsUnder(p, b) BY <1>2 DEF is_runtime_bypassed
  <2>3. ASSUME NEW q \in Path, IsUnder(q, p) PROVE is_runtime_bypassed(q)'
    <3>1. IsUnder(q, b) BY <1>1, <2>2, <2>3, UnderTransitive
    <3> QED BY <2>1, <3>1 DEF is_runtime_bypassed
  <2> QED BY <2>1, <2>3, BypassKept
<1>3. CASE ~is_runtime_bypassed(p)
  <2>1. bypass' = {s \in bypass : ~IsUnder(s, p)} \cup {p} BY <1>3 DEF mark_bypass
  <2>2. ASSUME NEW q \in Path, IsUnder(q, p) PROVE is_runtime_bypassed(q)'
    BY <2>1, <2>2 DEF is_runtime_bypassed
  <2>3. ASSUME NEW q \in Path, is_runtime_bypassed(q) PROVE is_runtime_bypassed(q)'
    <3>1. PICK b \in bypass : IsUnder(q, b) BY <2>3 DEF is_runtime_bypassed
    <3>2. CASE IsUnder(b, p)
      <4>1. IsUnder(q, p) BY <1>1, <3>1, <3>2, UnderTransitive
      <4> QED BY <2>2, <4>1
    <3>3. CASE ~IsUnder(b, p) BY <2>1, <3>1, <3>3 DEF is_runtime_bypassed
    <3> QED BY <3>2, <3>3
  <2> QED BY <1>1, <2>1, <2>2, <2>3 DEF BypassGrows
<1> QED BY <1>2, <1>3

\* A caller that returns.
LEMMA ReturnMoves ==
    ASSUME Types, NEW c \in Client, NEW memo, IsMemo(memo),
           client' = [client EXCEPT ![c] = [Idle EXCEPT !.memo = memo]]
    PROVE  Moves(c) /\ client'[c].at = "idle"
BY DEF Types, Moves, Fields, Idle

\* A reader that found nothing goes on with its key.
LEMMA MissedMoves ==
    ASSUME Types, NEW c \in Client, NEW memo, IsMemo(memo), Missed(c, memo)
    PROVE  Moves(c) /\ client'[c].at \in {"load", "lock"} /\ client'[c].key = client[c].key
<1> DEFINE leads == \A d \in Client : client[d].role # None => client[d].key # client[c].key
<1>1. client' = [client EXCEPT
            ![c].at = IF client[c].role = "follower" THEN "load" ELSE "lock",
            ![c].role = IF @ # None THEN @ ELSE IF leads THEN "leader" ELSE "follower",
            ![c].held = None,
            ![c].memo = memo]
  BY DEF Missed
<1> HIDE DEF leads
<1> QED BY <1>1 DEF Types, Moves, Fields

\* A writer that made its call goes on with the rest of its list.
LEMMA ProceedMoves ==
    ASSUME Types, NEW c \in Client, Proceed(c)
    PROVE  /\ Moves(c)
           /\ Len(client[c].todo) = 1 => client'[c].at = "idle"
           /\ Len(client[c].todo) # 1 => /\ client'[c].at = client[c].at
                                         /\ client'[c].todo = Tail(client[c].todo)
BY DEF Types, Proceed, Moves, Fields, Idle, IsMemo

-----------------------------------------------------------------------------
(***************************************************************************)
(* Soundness of an object.                                                 *)
(***************************************************************************)
LEMMA ReadingIsNotWriting ==
    ASSUME NEW c \in Readers
    PROVE  c \in Client /\ ~In(c, "invalidate") /\ ~In(c, "idle")
BY DEF Readers, Reading, In

\* A reader excludes writers: nothing is due while it is at work.
LEMMA NothingDue ==
    ASSUME Writers = {}
    PROVE  \A key \in Key : ~Due(key)
BY DEF Due

\* An object stays sound while the tree and the generations above it stay.
LEMMA SoundStays ==
    ASSUME NEW key \in Key, NEW env, Sound(env, key), Due(key) => Due(key)',
           disk' = disk, epoch' = epoch,
           is_runtime_bypassed(key[2]) => is_runtime_bypassed(key[2])',
           \A s \in Ancestors(key[2]) : /\ Generation(s)' = Generation(s)
                                        /\ local'[s] = None => local[s] = None
    PROVE  Sound(env, key)'
<1> DEFINE p == key[2]
<1>1. CASE is_runtime_bypassed(p) /\ Current(env, key)
  <2>1. Current(env, key)' BY <1>1 DEF Current, Content
  <2> QED BY <1>1, <2>1 DEF Sound
<1>2. CASE Behind(env, p) /\ (Matches(env, p) => Current(env, key) \/ Due(key))
  <2>1. Behind(env, p)' BY <1>2 DEF Behind
  <2>2. Matches(env, p)' => Matches(env, p) BY DEF Matches
  <2>3. Current(env, key) => Current(env, key)' BY DEF Current, Content
  <2> QED BY <1>2, <2>1, <2>2, <2>3 DEF Sound
<1> QED BY <1>1, <1>2 DEF Sound

\* Steps that only remember generations and leave the tree alone keep an object
\* sound.
LEMMA SoundKept ==
    ASSUME Types, GenerationsAgree, OnlyRemembered, BypassGrows, disk' = disk,
           NEW key \in Key, NEW env, Sound(env, key), Due(key) => Due(key)'
    PROVE  Sound(env, key)'
<1>1. key[2] \in Path BY DEF Key
<1>2. ASSUME NEW s \in Ancestors(key[2])
      PROVE  /\ Generation(s)' = Generation(s)
             /\ local'[s] = None => local[s] = None
  <2>1. s \in Path BY <1>1, AncestorsArePaths
  <2>2. Generation(s) # None BY <2>1, GenerationType
  <2> QED BY <2>1, <2>2 DEF OnlyRemembered
<1>3. epoch' = epoch BY DEF OnlyRemembered
<1>4. is_runtime_bypassed(key[2]) => is_runtime_bypassed(key[2])' BY <1>1 DEF BypassGrows
<1> QED BY <1>2, <1>3, <1>4, SoundStays

\* An object that carries the current generations and the current content is
\* sound, once the process remembers the generations.
LEMMA FreshIsSound ==
    ASSUME Types, GenerationsAgree, OnlyRemembered, disk' = disk,
           NEW key \in Key, NEW env,
           env = [value |-> Content(disk, key), gens |-> generation_snapshots(key[2])],
           \/ is_runtime_bypassed(key[2])'
           \/ \A s \in Ancestors(key[2]) : local'[s] # None
    PROVE  Sound(env, key)'
<1> DEFINE p == key[2]
<1>1. p \in Path BY DEF Key
<1>2. Ancestors(p) \subseteq Path BY <1>1, AncestorsArePaths
<1>3. env.value = Content(disk, key) /\ env.gens = [s \in Ancestors(p) |-> Generation(s)]
  BY DEF generation_snapshots
<1>4. \A s \in Ancestors(p) : env.gens[s] = Generation(s) /\ Generation(s)' = Generation(s)
  BY <1>2, <1>3 DEF OnlyRemembered
<1>5. Current(env, key)' BY <1>3 DEF Current, Content
<1>6. env.gens \in [Ancestors(p) -> Gen] BY <1>2, <1>3, GenerationType
<1>7. CASE is_runtime_bypassed(p)' BY <1>5, <1>6, <1>7 DEF Sound
<1>8. CASE \A s \in Ancestors(p) : local'[s] # None
  <2>1. ASSUME NEW s \in Ancestors(p)
        PROVE  /\ env.gens[s] = Generation(s)' /\ local'[s] # None
               /\ env.gens[s][1] <= epoch' /\ env.gens[s][2] <= Generation(s)[2]'
    <3>1. /\ env.gens[s] = Generation(s) /\ Generation(s)' = Generation(s) /\ local'[s] # None
          /\ Generation(s)[1] <= epoch /\ Generation(s)[2] \in Nat
      BY <1>2, <1>4, <1>8, GenerationType
    <3>2. Generation(s)[2]' = Generation(s)[2] BY <3>1
    <3>3. epoch' = epoch BY DEF OnlyRemembered
    <3> QED BY <3>1, <3>2, <3>3
  <2>2. Behind(env, p)' BY <2>1 DEF Behind
  <2> QED BY <1>5, <1>6, <2>2 DEF Sound
<1> QED BY <1>7, <1>8

\* Remembering keeps the two copies of a generation in agreement.
LEMMA Agreement ==
    ASSUME Types, GenerationsAgree, OnlyRemembered,
           \A s \in Path : Trusted(s)' => Trusted(s)
    PROVE  GenerationsAgree'
<1>1. ASSUME NEW s \in Path
      PROVE  /\ gen'[s] # None => gen'[s][1] <= epoch'
             /\ local'[s] # None => local'[s][1] <= epoch'
             /\ Trusted(s)' /\ gen'[s] # None /\ local'[s] # None => gen'[s] = local'[s]
  <2>1. epoch' = epoch BY DEF OnlyRemembered
  <2>2. CASE gen'[s] = gen[s] /\ local'[s] = local[s] BY <2>1, <2>2 DEF GenerationsAgree
  <2>3. CASE gen'[s] = Generation(s) /\ local'[s] = Generation(s) BY <2>1, <2>3, GenerationType
  <2> QED BY <2>2, <2>3 DEF OnlyRemembered
<1> QED BY <1>1 DEF GenerationsAgree

-----------------------------------------------------------------------------
(***************************************************************************)
(* Steps of a reader.                                                      *)
(***************************************************************************)
\* Where a reader may go: on with its key, or away.
ReaderMoves(c) ==
    /\ Moves(c)
    /\ \/ client'[c].at = "idle"
       \/ client'[c].at \in Reading /\ client'[c].key = client[c].key

\* After the step of a reader there is no writer and no other reader than before.
LEMMA ReadersAfter ==
    ASSUME Types, LockIsHeld, NEW c \in Readers, ReaderMoves(c)
    PROVE  /\ Writers = {} /\ Writers' = {}
           /\ Readers' \subseteq Readers
           /\ \A d \in Readers' : client'[d].key = client[d].key
           /\ LockIsHeld'
<1>1. Writers = {} BY DEF LockIsHeld
<1>2. c \in Client /\ client'[c].at # "invalidate" BY DEF Readers, Reading, ReaderMoves
<1>3. \A d \in Client \ {c} : client'[d] = client[d] BY DEF ReaderMoves, Moves
<1>4. Writers' = {} BY <1>1, <1>2, <1>3 DEF Writers
<1>5. Readers' \subseteq Readers BY <1>3 DEF Readers
<1>6. \A d \in Readers' : client'[d].key = client[d].key
  BY <1>2, <1>3 DEF Readers, ReaderMoves, Reading
<1>7. LockIsHeld' BY <1>4, <1>5, <1>6 DEF LockIsHeld
<1> QED BY <1>1, <1>4, <1>5, <1>6, <1>7

\* The step of a reader makes no path trusted that was not.
LEMMA TrustShrinks ==
    ASSUME Types, LockIsHeld, BypassGrows, NEW c \in Readers, ReaderMoves(c)
    PROVE  \A s \in Path : Trusted(s)' => Trusted(s)
<1>1. Readers' \subseteq Readers /\ \A d \in Readers' : client'[d].key = client[d].key
  BY ReadersAfter
<1>2. ASSUME NEW s \in Path, ~is_runtime_bypassed(s)' PROVE ~is_runtime_bypassed(s)
  BY <1>2 DEF BypassGrows
<1>3. ASSUME NEW s \in Path, \E d \in Readers' : IsUnder(client'[d].key[2], s)
      PROVE  \E d \in Readers : IsUnder(client[d].key[2], s)
  BY <1>1, <1>3
<1> QED BY <1>2, <1>3 DEF Trusted

\* What a reader may do without disturbing the cache: remember generations, put
\* paths into bypass, drop objects and store sound ones.
LEMMA ReaderKeeps ==
    ASSUME CacheInv, NEW c \in Readers, ReaderMoves(c), OnlyRemembered, BypassGrows,
           disk' = disk,
           object' = [key \in Key |-> object'[key]],
           \A key \in Key : \/ object'[key] = None
                            \/ object'[key] = object[key]
                            \/ Sound(object[key], key)',
           client'[c].at = "check" => Sound(client[c].held, client[c].key)',
           client'[c].at = "fill" => client'[c].held = Content(disk, client[c].key)
    PROVE  CacheInv'
<1>1. Types /\ LockIsHeld /\ GenerationsAgree /\ ObjectsAreSound /\ ReadersAreSound BY DEF CacheInv
<1>2. /\ Writers = {} /\ Writers' = {} /\ Readers' \subseteq Readers
      /\ \A d \in Readers' : client'[d].key = client[d].key
      /\ LockIsHeld'
  BY <1>1, ReadersAfter
<1>3. \A s \in Path : Trusted(s)' => Trusted(s) BY <1>1, TrustShrinks
<1>4. c \in Client /\ \A d \in Client \ {c} : client'[d] = client[d]
  BY DEF Readers, ReaderMoves, Moves
<1>5. Types'
  <2>1. disk' \in Tree BY <1>1 DEF Types
  <2>2. /\ gen' \in [Path -> {None} \cup Gen] /\ local' \in [Path -> {None} \cup Gen]
        /\ epoch' \in Nat
    BY <1>1 DEF Types, OnlyRemembered
  <2>3. bypass' \in SUBSET Path BY DEF BypassGrows
  <2>4. client' = [d \in Client |-> client'[d]] BY DEF ReaderMoves, Moves
  <2>5. ASSUME NEW d \in Client
        PROVE  /\ DOMAIN client'[d] = Fields /\ client'[d].at # "raw"
               /\ IsMemo(client'[d].memo)
    <3>1. DOMAIN client'[d] = Fields BY DEF ReaderMoves, Moves
    <3>2. CASE d = c BY <3>1, <3>2 DEF ReaderMoves, Moves, Reading
    <3>3. CASE d # c BY <1>1, <1>4, <3>1, <3>3 DEF Types, In
    <3> QED BY <3>2, <3>3
  <2> QED BY <2>1, <2>2, <2>3, <2>4, <2>5 DEF Types, In
<1>6. GenerationsAgree' BY <1>1, <1>3, Agreement
<1>7. ASSUME NEW key \in Key, NEW env, Sound(env, key) PROVE Sound(env, key)'
  BY <1>1, <1>2, <1>7, NothingDue, SoundKept
<1>8. ObjectsAreSound'
  <2>1. ASSUME NEW key \in Key, object'[key] # None, Trusted(key[2])' PROVE Sound(object[key], key)'
    <3>1. key[2] \in Path BY DEF Key
    <3>2. Trusted(key[2]) BY <1>3, <2>1, <3>1
    <3>3. CASE object'[key] = object[key]
      <4>1. Sound(object[key], key) BY <1>1, <2>1, <3>2, <3>3 DEF ObjectsAreSound
      <4>2. PICK env : env = object[key] OBVIOUS
      <4>3. Sound(env, key)' BY <1>7, <4>1, <4>2
      <4>4. env = object'[key] BY <3>3, <4>2
      <4> QED BY <4>3, <4>4
    <3> QED BY <2>1, <3>3
  <2> QED BY <2>1 DEF ObjectsAreSound
<1>9. ReadersAreSound'
  <2>1. ASSUME NEW d \in Readers'
        PROVE  /\ client'[d].at = "check" => Sound(client[d].held, client[d].key)'
               /\ client'[d].at = "fill" => client'[d].held = Content(disk', client'[d].key)
    <3>1. d \in Readers /\ client'[d].key = client[d].key BY <1>2
    <3>2. CASE d = c BY <3>1, <3>2
    <3>3. CASE d # c
      <4>1. client'[d] = client[d] BY <1>4, <3>1, <3>3 DEF Readers
      <4>2. /\ client[d].at = "check" => Sound(client[d].held, client[d].key)
            /\ client[d].at = "fill" => client[d].held = Content(disk, client[d].key)
        BY <1>1, <3>1 DEF ReadersAreSound, In
      <4>3. client[d].key \in Key BY <1>1, <3>1 DEF LockIsHeld
      <4>4. ASSUME client'[d].at = "check" PROVE Sound(client[d].held, client[d].key)'
        <5>1. PICK env : env = client[d].held OBVIOUS
        <5>2. PICK key \in Key : key = client[d].key BY <4>3
        <5>3. Sound(env, key) BY <4>1, <4>2, <4>4, <5>1, <5>2
        <5>4. Sound(env, key)' BY <1>7, <5>3
        <5>5. env = client'[d].held /\ key = client'[d].key BY <4>1, <5>1, <5>2
        <5> QED BY <5>4, <5>5
      <4> QED BY <4>1, <4>2, <4>4
    <3> QED BY <3>2, <3>3
  <2> QED BY <2>1 DEF ReadersAreSound, In
<1> QED BY <1>2, <1>5, <1>6, <1>8, <1>9 DEF CacheInv

\* An answer is what the backend holds.
Faithful ==
    \/ answer' = answer
    \/ \E key \in Key : answer' = Reply(key[1], key[2], Content(disk, key))

\* What a reader has to do with its key.
LEMMA ReaderHas ==
    ASSUME CacheInv, NEW c \in Readers
    PROVE  /\ c \in Client /\ Writers = {}
           /\ client[c].key \in Key /\ client[c].key[2] \in Path
           /\ Trusted(client[c].key[2])
           /\ In(c, "check") => Sound(client[c].held, client[c].key)
           /\ In(c, "fill") => client[c].held = Content(disk, client[c].key)
<1>1. client[c].key \in Key /\ Writers = {} BY DEF CacheInv, LockIsHeld
<1>2. client[c].key[2] \in Path BY <1>1 DEF Key
<1>3. IsUnder(client[c].key[2], client[c].key[2]) BY <1>2, UnderItself
<1>4. c \in Client BY DEF Readers
<1>5. Trusted(client[c].key[2]) BY <1>3 DEF Trusted
<1>6. ReadersAreSound BY DEF CacheInv
<1> QED BY <1>1, <1>2, <1>4, <1>5, <1>6 DEF ReadersAreSound

\* The labels of readers.
LEMMA AtReading ==
    ASSUME NEW c \in Client, client[c].at \in {"probe", "check", "lock", "load", "fill"}
    PROVE  c \in Readers
BY DEF Readers, Reading

\* probe: what is found may be outdated, but is sound.
LEMMA probeStep ==
    ASSUME CacheInv, NEW c \in Client, probe(c)
    PROVE  CacheInv' /\ disk' = disk /\ Faithful
<1>1. /\ client[c].at = "probe"
      /\ UNCHANGED <<disk, answer, object, gen, local, epoch, bypass>>
  BY DEF probe, In, cacheVars
<1>2. c \in Readers BY <1>1, AtReading
<1>3. Types /\ GenerationsAgree /\ ObjectsAreSound BY DEF CacheInv
<1>4. OnlyRemembered /\ BypassGrows BY <1>1, <1>3, NothingRemembered, BypassKept
<1>5. object' = [key \in Key |-> object'[key]] BY <1>1, <1>3 DEF Types
<1>6. PICK key : key = client[c].key OBVIOUS
<1>7. key \in Key /\ Trusted(key[2]) /\ Writers = {} BY <1>2, <1>6, ReaderHas
<1>8. CASE object[key] = None
  <2>1. Missed(c, client[c].memo) BY <1>6, <1>8 DEF probe
  <2>2. IsMemo(client[c].memo) BY <1>3 DEF Types
  <2>2a. /\ Moves(c) /\ client'[c].at \in {"load", "lock"} /\ client'[c].key = client[c].key
    BY <1>3, <2>1, <2>2, MissedMoves
  <2>3. ReaderMoves(c) BY <2>2a DEF ReaderMoves, Reading
  <2>4. CacheInv' BY <1>1, <1>2, <1>4, <1>5, <2>2a, <2>3, ReaderKeeps
  <2> QED BY <1>1, <2>4 DEF Faithful
<1>9. CASE object[key] # None
  <2>1. client' = [client EXCEPT ![c].at = "check", ![c].held = object[key]]
    BY <1>6, <1>9 DEF probe
  <2>2. /\ Moves(c) /\ client'[c].at = "check" /\ client'[c].key = client[c].key
        /\ client'[c].held = object[key]
    BY <1>3, <2>1 DEF Types, Moves, Fields
  <2>3. ReaderMoves(c) BY <2>2 DEF ReaderMoves, Reading
  <2>4. PICK env : env = object[key] OBVIOUS
  <2>5. Sound(env, key) BY <1>3, <1>7, <1>9, <2>4 DEF ObjectsAreSound
  <2>6. Sound(env, key)' BY <1>1, <1>3, <1>4, <1>7, <2>5, NothingDue, SoundKept
  <2>7. env = client'[c].held /\ key = client'[c].key BY <1>6, <2>2, <2>4
  <2>8. Sound(client[c].held, client[c].key)' BY <2>6, <2>7
  <2>9. CacheInv' BY <1>1, <1>2, <1>4, <1>5, <2>2, <2>3, <2>8, ReaderKeeps
  <2> QED BY <1>1, <2>9 DEF Faithful
<1> QED BY <1>8, <1>9

\* What a check finds to be of the current generations is current.
LEMMA MatchIsCurrent ==
    ASSUME CacheInv, NEW c \in Readers, In(c, "check"), client[c].memo = None,
           generations_match(client[c].held, Memoized(<<>>, DOMAIN client[c].held.gens))
    PROVE  client[c].held.value = Content(disk, client[c].key)
<1> DEFINE env == client[c].held
           p == client[c].key[2]
           scopes == DOMAIN env.gens
<1>1. Sound(env, client[c].key) /\ Writers = {} /\ client[c].key \in Key BY ReaderHas
<1>2. scopes = Ancestors(p) BY <1>1 DEF Sound
<1>3. Memoized(<<>>, scopes) = [s \in scopes |-> Generation(s)]
  <2>1. DOMAIN <<>> = {} OBVIOUS
  <2> QED BY <2>1 DEF Memoized
<1>4. Matches(env, p) BY <1>2, <1>3 DEF generations_match, Matches
<1>5. ~Due(client[c].key) BY <1>1, NothingDue
<1> HIDE DEF env, p
<1>6. Current(env, client[c].key) BY <1>1, <1>4, <1>5 DEF Sound, p
<1> QED BY <1>6 DEF Current, env

\* A grep begins with no generation; a memo that grows stays one.
LEMMA EmptyMemo == IsSnapshot(<<>>)
<1>1. <<>> \in [{} -> Gen] OBVIOUS
<1> QED BY <1>1 DEF IsSnapshot

\* A memo that grows stays one.
LEMMA MemoGrows ==
    ASSUME Types, GenerationsAgree, NEW memo, IsSnapshot(memo), NEW scopes \in SUBSET Path
    PROVE  IsSnapshot(Memoized(memo, scopes))
<1>1. PICK S \in SUBSET Path : memo \in [S -> Gen] BY DEF IsSnapshot
<1>2. \A s \in scopes : Generation(s) \in Gen BY GenerationType
<1>3. Memoized(memo, scopes) = [s \in scopes \cup S |-> IF s \in S THEN memo[s] ELSE Generation(s)]
  BY <1>1 DEF Memoized
<1>4. Memoized(memo, scopes) \in [scopes \cup S -> Gen] BY <1>1, <1>2, <1>3
<1> QED BY <1>4 DEF IsSnapshot

\* check: a hit is current, unless it is a grep's.
LEMMA checkStep ==
    ASSUME CacheInv, NEW c \in Client, check(c)
    PROVE  CacheInv' /\ disk' = disk /\ Faithful
<1> DEFINE me == client[c]
           memo == IF me.memo = None THEN <<>> ELSE me.memo
           scopes == DOMAIN me.held.gens
           view == Memoized(memo, scopes)
           kept == IF me.memo = None THEN None ELSE view
           hit == /\ generations_match(me.held, view)
                  /\ Return(c, me.key, me.held.value, kept)
                  /\ UNCHANGED object
           miss == /\ object' = [object EXCEPT ![me.key] = None]
                   /\ Missed(c, kept)
                   /\ UNCHANGED answer
<1>1. /\ client[c].at = "check" /\ In(c, "check")
      /\ current_generations(scopes \ DOMAIN memo)
      /\ hit \/ miss
      /\ UNCHANGED <<disk, epoch, bypass>>
  BY DEF check, In
<1>2. c \in Readers BY <1>1, AtReading
<1>3. Types /\ GenerationsAgree BY DEF CacheInv
<1>4. OnlyRemembered /\ BypassGrows BY <1>1, <1>3, LookedUp, BypassKept
<1>5. client[c].key \in Key BY <1>2, ReaderHas
<1>6. object = [key \in Key |-> object[key]] BY <1>3 DEF Types
<1>6a. IsMemo(kept) /\ (me.memo # None => kept # None)
  <2>1. IsMemo(me.memo) BY <1>3 DEF Types
  <2>2. scopes \in SUBSET Path
    <3>1. Sound(me.held, me.key) /\ me.key[2] \in Path BY <1>1, <1>2, ReaderHas
    <3>2. scopes = Ancestors(me.key[2]) BY <3>1 DEF Sound
    <3> QED BY <3>1, <3>2, AncestorsArePaths
  <2> QED BY <1>3, <2>1, <2>2, MemoGrows, EmptyMemo, NoneAssumption DEF IsMemo
<1> HIDE DEF kept
<1>7. CASE hit
  <2>1. Moves(c) /\ client'[c].at = "idle" BY <1>3, <1>6a, <1>7, ReturnMoves DEF Return
  <2>2. ReaderMoves(c) BY <2>1 DEF ReaderMoves
  <2>3. object' = object BY <1>7
  <2>4. CacheInv' BY <1>1, <1>2, <1>4, <1>6, <2>1, <2>2, <2>3, ReaderKeeps
  <2>5. CASE me.memo = None
    <3>1. me.held.value = Content(disk, me.key) BY <1>1, <1>2, <1>7, <2>5, MatchIsCurrent
    <3>2. answer' = Reply(me.key[1], me.key[2], me.held.value) BY <1>7, <2>5 DEF Return, kept
    <3> QED BY <1>1, <1>5, <2>4, <3>1, <3>2 DEF Faithful
  <2>6. CASE me.memo # None
    <3>1. answer' = answer BY <1>6a, <1>7, <2>6 DEF Return
    <3> QED BY <1>1, <2>4, <3>1 DEF Faithful
  <2> QED BY <2>5, <2>6
<1>8. CASE miss
  <2>1. /\ Moves(c) /\ client'[c].at \in {"load", "lock"} /\ client'[c].key = client[c].key
    BY <1>3, <1>6a, <1>8, MissedMoves
  <2>2. ReaderMoves(c) BY <2>1 DEF ReaderMoves, Reading
  <2>3. /\ object' = [key \in Key |-> object'[key]]
        /\ \A key \in Key : object'[key] = None \/ object'[key] = object[key]
    BY <1>6, <1>8
  <2>4. CacheInv' BY <1>1, <1>2, <1>4, <2>1, <2>2, <2>3, ReaderKeeps
  <2> QED BY <1>1, <1>8, <2>4 DEF Faithful
<1> QED BY <1>1, <1>7, <1>8

\* probe_fails: the path is bypassed, and sound objects stay so.
LEMMA probe_failsStep ==
    ASSUME CacheInv, NEW c \in Client, probe_fails(c)
    PROVE  CacheInv' /\ disk' = disk /\ Faithful
<1>1. /\ client[c].at \in {"probe", "check"}
      /\ bypass' = mark_bypass(client[c].key[2])
      /\ Missed(c, client[c].memo)
      /\ UNCHANGED <<disk, answer, object, gen, local, epoch>>
  BY DEF probe_fails, In
<1>2. c \in Readers BY <1>1, AtReading
<1>3. Types BY DEF CacheInv
<1>4. client[c].key[2] \in Path BY <1>2, ReaderHas
<1>5. OnlyRemembered /\ BypassGrows BY <1>1, <1>3, <1>4, NothingRemembered, Marked
<1>6. object' = [key \in Key |-> object'[key]] BY <1>1, <1>3 DEF Types
<1>7. IsMemo(client[c].memo) BY <1>3 DEF Types
<1>8. /\ Moves(c) /\ client'[c].at \in {"load", "lock"} /\ client'[c].key = client[c].key
  BY <1>1, <1>3, <1>7, MissedMoves
<1>9. ReaderMoves(c) BY <1>8 DEF ReaderMoves, Reading
<1>10. CacheInv' BY <1>1, <1>2, <1>5, <1>6, <1>8, <1>9, ReaderKeeps
<1> QED BY <1>1, <1>10 DEF Faithful

\* lock_inflight: nothing the cache depends on changes.
LEMMA lock_inflightStep ==
    ASSUME CacheInv, NEW c \in Client, lock_inflight(c)
    PROVE  CacheInv' /\ disk' = disk /\ Faithful
<1>1. /\ client[c].at = "lock"
      /\ client' = [client EXCEPT ![c].at = IF client[c].role = "leader" THEN "load" ELSE "probe"]
      /\ UNCHANGED <<disk, answer, object, gen, local, epoch, bypass>>
  BY DEF lock_inflight, In, Step, cacheVars
<1>2. c \in Readers BY <1>1, AtReading
<1>3. Types BY DEF CacheInv
<1>4. OnlyRemembered /\ BypassGrows BY <1>1, <1>3, NothingRemembered, BypassKept
<1>5. object' = [key \in Key |-> object'[key]] BY <1>1, <1>3 DEF Types
<1>6. /\ Moves(c) /\ client'[c].at \in {"load", "probe"} /\ client'[c].key = client[c].key
  BY <1>1, <1>3 DEF Types, Moves, Fields
<1>7. ReaderMoves(c) BY <1>6 DEF ReaderMoves, Reading
<1>8. CacheInv' BY <1>1, <1>2, <1>4, <1>5, <1>6, <1>7, ReaderKeeps
<1> QED BY <1>1, <1>8 DEF Faithful

\* load: what is about to be stored is what the backend holds.
LEMMA loadStep ==
    ASSUME CacheInv, NEW c \in Client, load(c)
    PROVE  CacheInv' /\ disk' = disk /\ Faithful
<1> DEFINE got == Content(disk, client[c].key)
<1>1. client[c].at = "load" /\ UNCHANGED <<disk, object, gen, local, epoch, bypass>>
  BY DEF load, In, cacheVars
<1>2. c \in Readers BY <1>1, AtReading
<1>3. Types BY DEF CacheInv
<1>4. OnlyRemembered /\ BypassGrows BY <1>1, <1>3, NothingRemembered, BypassKept
<1>5. object' = [key \in Key |-> object'[key]] BY <1>1, <1>3 DEF Types
<1>6. client[c].key \in Key /\ IsMemo(client[c].memo) BY <1>2, <1>3, ReaderHas DEF Types
<1>7. CASE got = Error
  <2>1. Return(c, client[c].key, Error, client[c].memo) BY <1>7 DEF load
  <2>2. Moves(c) /\ client'[c].at = "idle" BY <1>3, <1>6, <2>1, ReturnMoves DEF Return
  <2>3. ReaderMoves(c) BY <2>2 DEF ReaderMoves
  <2>4. CacheInv' BY <1>1, <1>2, <1>4, <1>5, <2>2, <2>3, ReaderKeeps
  <2>5. Faithful BY <1>6, <1>7, <2>1 DEF Return, Faithful
  <2> QED BY <1>1, <2>4, <2>5
<1>8. CASE got # Error
  <2>1. client' = [client EXCEPT ![c].at = "fill", ![c].held = got] /\ UNCHANGED answer
    BY <1>8 DEF load
  <2>2. /\ Moves(c) /\ client'[c].at = "fill" /\ client'[c].key = client[c].key
        /\ client'[c].held = got
    <3> HIDE DEF got
    <3> QED BY <1>3, <2>1 DEF Types, Moves, Fields
  <2>3. ReaderMoves(c) BY <2>2 DEF ReaderMoves, Reading
  <2>4. CacheInv' BY <1>1, <1>2, <1>4, <1>5, <2>2, <2>3, ReaderKeeps
  <2> QED BY <1>1, <2>1, <2>4 DEF Faithful
<1> QED BY <1>7, <1>8

\* fill: what is stored is of the generations of the moment.
LEMMA fillStep ==
    ASSUME CacheInv, NEW c \in Client, fill(c)
    PROVE  CacheInv' /\ disk' = disk /\ Faithful
<1> DEFINE me == client[c]
<1>1. /\ client[c].at = "fill" /\ In(c, "fill")
      /\ current_generations(Ancestors(me.key[2]))
      /\ object' = [object EXCEPT
             ![me.key] = [value |-> me.held, gens |-> generation_snapshots(me.key[2])]]
      /\ Return(c, me.key, me.held, me.memo)
      /\ UNCHANGED <<disk, epoch, bypass>>
  BY DEF fill, In
<1>2. c \in Readers BY <1>1, AtReading
<1>3. Types /\ GenerationsAgree BY DEF CacheInv
<1>4. PICK key : key = me.key OBVIOUS
<1>5. /\ key \in Key /\ key[2] \in Path /\ me.held = Content(disk, key) /\ IsMemo(me.memo)
  BY <1>1, <1>2, <1>3, <1>4, ReaderHas DEF Types
<1>6. /\ OnlyRemembered /\ BypassGrows
      /\ \A s \in Path \cap Ancestors(key[2]) : local'[s] # None
  BY <1>1, <1>3, <1>4, LookedUp, BypassKept
<1>7. PICK env : env = [value |-> Content(disk, key), gens |-> generation_snapshots(key[2])]
  OBVIOUS
<1>8. \A s \in Ancestors(key[2]) : local'[s] # None BY <1>5, <1>6, AncestorsArePaths
<1>9. Sound(env, key)' BY <1>1, <1>3, <1>5, <1>6, <1>7, <1>8, FreshIsSound
<1>10. /\ object' = [k \in Key |-> object'[k]]
       /\ \A k \in Key : object'[k] = object[k] \/ Sound(object[k], k)'
  <2>1. object' = [object EXCEPT ![key] = env] BY <1>1, <1>4, <1>5, <1>7
  <2>2. object = [k \in Key |-> object[k]] BY <1>3 DEF Types
  <2>3. object' = [k \in Key |-> object'[k]] /\ object'[key] = env BY <1>5, <2>1, <2>2
  <2>4. ASSUME NEW k \in Key, object'[k] # object[k] PROVE Sound(object[k], k)'
    <3>1. k = key BY <2>1, <2>2, <2>4
    <3> QED BY <1>9, <2>3, <3>1
  <2> QED BY <2>3, <2>4
<1>11. Moves(c) /\ client'[c].at = "idle" BY <1>1, <1>3, <1>5, ReturnMoves DEF Return
<1>12. ReaderMoves(c) BY <1>11 DEF ReaderMoves
<1>13. CacheInv' BY <1>1, <1>2, <1>6, <1>10, <1>11, <1>12, ReaderKeeps
<1>14. Faithful BY <1>1, <1>4, <1>5 DEF Return, Faithful
<1> QED BY <1>1, <1>13, <1>14

\* fill_fails: a put that arrived all the same is of a path in bypass.
LEMMA fill_failsStep ==
    ASSUME CacheInv, NEW c \in Client, fill_fails(c)
    PROVE  CacheInv' /\ disk' = disk /\ Faithful
<1> DEFINE me == client[c]
           put == [value |-> me.held, gens |-> generation_snapshots(me.key[2])]
<1>1. /\ client[c].at = "fill" /\ In(c, "fill")
      /\ \/ UNCHANGED <<object, bypass>>
         \/ /\ bypass' = mark_bypass(me.key[2])
            /\ object' \in {object, [object EXCEPT ![me.key] = put]}
      /\ Return(c, me.key, me.held, me.memo)
      /\ UNCHANGED <<disk, gen, local, epoch>>
  BY DEF fill_fails, In
<1>2. c \in Readers BY <1>1, AtReading
<1>3. Types /\ GenerationsAgree BY DEF CacheInv
<1>4. PICK key : key = me.key OBVIOUS
<1>5. /\ key \in Key /\ key[2] \in Path /\ me.held = Content(disk, key) /\ IsMemo(me.memo)
  BY <1>1, <1>2, <1>3, <1>4, ReaderHas DEF Types
<1>6. OnlyRemembered BY <1>1, <1>3, NothingRemembered
<1>7. Moves(c) /\ client'[c].at = "idle" BY <1>1, <1>3, <1>5, ReturnMoves DEF Return
<1>8. ReaderMoves(c) BY <1>7 DEF ReaderMoves
<1>9. object = [k \in Key |-> object[k]] BY <1>3 DEF Types
<1>10. Faithful BY <1>1, <1>4, <1>5 DEF Return, Faithful
<1>11. CASE UNCHANGED <<object, bypass>>
  <2>1. BypassGrows BY <1>3, <1>11, BypassKept
  <2>2. CacheInv' BY <1>1, <1>2, <1>6, <1>7, <1>8, <1>9, <1>11, <2>1, ReaderKeeps
  <2> QED BY <1>1, <1>10, <2>2
<1>12. CASE /\ bypass' = mark_bypass(me.key[2])
            /\ object' \in {object, [object EXCEPT ![me.key] = put]}
  <2>1. BypassGrows /\ is_runtime_bypassed(key[2])'
    BY <1>3, <1>4, <1>5, <1>12, Marked, UnderItself
  <2>2. PICK env : env = [value |-> Content(disk, key), gens |-> generation_snapshots(key[2])]
    OBVIOUS
  <2>3. Sound(env, key)' BY <1>1, <1>3, <1>5, <1>6, <2>1, <2>2, FreshIsSound
  <2>4. object' = object \/ object' = [object EXCEPT ![key] = env] BY <1>4, <1>5, <1>12, <2>2
  <2>5. object' = [k \in Key |-> object'[k]] BY <1>9, <2>4
  <2>6. ASSUME NEW k \in Key, object'[k] # object[k] PROVE Sound(object[k], k)'
    <3>1. object' = [object EXCEPT ![key] = env] BY <2>4, <2>6
    <3>2. k = key /\ object'[key] = env BY <1>5, <1>9, <2>6, <3>1
    <3> QED BY <2>3, <3>2
  <2>7. CacheInv' BY <1>1, <1>2, <1>6, <1>7, <1>8, <2>1, <2>5, <2>6, ReaderKeeps
  <2> QED BY <1>1, <1>10, <2>7
<1> QED BY <1>1, <1>11, <1>12

-----------------------------------------------------------------------------
(***************************************************************************)
(* The beginning of a read.                                                *)
(***************************************************************************)
LEMMA StartStep ==
    ASSUME CacheInv, NEW c \in Client, NEW key \in Key, NEW memo, IsMemo(memo), NEW history,
           Start(c, key, memo, history)
    PROVE  CacheInv' /\ disk' = disk /\ Faithful
<1>1. /\ client[c].at = "idle"
      /\ UNCHANGED <<disk, object, gen, local, epoch, bypass>>
  BY DEF Start, In, cacheVars
<1>2. Types /\ LockIsHeld /\ GenerationsAgree /\ ObjectsAreSound /\ ReadersAreSound BY DEF CacheInv
<1>3. OnlyRemembered /\ BypassGrows BY <1>1, <1>2, NothingRemembered, BypassKept
<1>4. c \notin Readers /\ c \notin Writers BY <1>1 DEF Readers, Writers, Reading
<1>5. key[2] \in Path BY DEF Key
<1> DEFINE cached == Policy(key[2]) /\ ~is_runtime_bypassed(key[2])
<1>6. /\ Moves(c) /\ Faithful
      /\ \/ client'[c].at = "idle" /\ ~cached
         \/ /\ client'[c].at = "probe" /\ client'[c].key = key
            /\ cached /\ Writers = {}
  <2>1. CASE cached
    <3>1. /\ Writers = {}
          /\ client' = [client EXCEPT ![c] = [Idle EXCEPT !.at = "probe", !.key = key, !.memo = memo]]
          /\ UNCHANGED answer
      BY <2>1 DEF Start
    <3>2. Moves(c) /\ client'[c].at = "probe" /\ client'[c].key = key
      BY <1>2, <3>1 DEF Types, Moves, Fields, Idle
    <3> QED BY <2>1, <3>1, <3>2 DEF Faithful
  <2>2. CASE ~cached
    <3>1. Return(c, key, Content(disk, key), memo) BY <2>2 DEF Start
    <3>2. Moves(c) /\ client'[c].at = "idle" BY <1>2, <3>1, ReturnMoves DEF Return
    <3>3. Faithful BY <3>1 DEF Return, Faithful
    <3> QED BY <2>2, <3>2, <3>3
  <2> QED BY <2>1, <2>2
<1>7. \A d \in Client \ {c} : client'[d] = client[d] BY <1>6 DEF Moves
<1>8. Writers' = Writers /\ Readers' \subseteq Readers \cup {c} /\ Readers \subseteq Readers'
  <2>1. Writers' = Writers BY <1>4, <1>6, <1>7 DEF Writers
  <2>2. Readers' \subseteq Readers \cup {c} BY <1>7 DEF Readers
  <2>3. Readers \subseteq Readers' BY <1>4, <1>7 DEF Readers
  <2> QED BY <2>1, <2>2, <2>3
<1>9. c \in Readers' => /\ client'[c].at = "probe" /\ client'[c].key = key
                        /\ ~is_runtime_bypassed(key[2]) /\ Writers = {}
  BY <1>6 DEF Readers, Reading
<1>10. \A d \in Readers : d # c /\ client'[d] = client[d] BY <1>4, <1>7 DEF Readers
<1>11. \A d \in Writers : d # c /\ client'[d] = client[d] BY <1>4, <1>7 DEF Writers
<1>12. LockIsHeld'
  <2>1. Writers' = {} \/ Readers' = {} BY <1>2, <1>8, <1>9 DEF LockIsHeld
  <2>2. \A d \in Readers' : client'[d].key \in Key BY <1>2, <1>8, <1>9, <1>10 DEF LockIsHeld
  <2>3. \A d \in Writers : client'[d] = client[d] BY <1>11
  <2> QED BY <1>1, <1>2, <1>8, <2>1, <2>2, <2>3 DEF LockIsHeld
<1>13. ASSUME NEW s \in Path, Trusted(s)' PROVE Trusted(s)
  <2>1. CASE ~is_runtime_bypassed(s)' BY <1>1, <2>1 DEF Trusted, is_runtime_bypassed
  <2>2. CASE \E d \in Readers' : IsUnder(client'[d].key[2], s)
    <3>1. PICK d \in Readers' : IsUnder(client'[d].key[2], s) BY <2>2
    <3>2. CASE d \in Readers BY <1>10, <3>1, <3>2 DEF Trusted
    <3>3. CASE d = c
      <4>1. s \in Ancestors(key[2]) /\ ~is_runtime_bypassed(key[2])
        BY <1>5, <1>9, <3>1, <3>3, UnderIsAncestor
      <4>2. bypass \in SUBSET Path BY <1>2 DEF Types
      <4>3. ~is_runtime_bypassed(s) BY <1>5, <4>1, <4>2, BypassIsInherited
      <4> QED BY <4>3 DEF Trusted
    <3> QED BY <1>8, <3>2, <3>3
  <2> QED BY <1>13, <2>1, <2>2 DEF Trusted
<1>14. ASSUME NEW k \in Key PROVE Due(k) => Due(k)' BY <1>8, <1>11 DEF Due
<1>15. ASSUME NEW k \in Key, NEW env, Sound(env, k) PROVE Sound(env, k)'
  BY <1>1, <1>2, <1>3, <1>14, <1>15, SoundKept
<1>16. Types'
  <2>1. client' = [d \in Client |-> client'[d]] BY <1>6 DEF Moves
  <2>2. ASSUME NEW d \in Client
        PROVE  DOMAIN client'[d] = Fields /\ client'[d].at # "raw" /\ IsMemo(client'[d].memo)
    <3>1. CASE d = c BY <1>6, <3>1 DEF Moves
    <3>2. CASE d # c BY <1>2, <1>7, <3>2 DEF Types, In
    <3> QED BY <3>1, <3>2
  <2> QED BY <1>1, <1>2, <2>1, <2>2 DEF Types, In
<1>17. GenerationsAgree' BY <1>2, <1>3, <1>13, Agreement
<1>18. ObjectsAreSound'
  <2>1. ASSUME NEW k \in Key, object'[k] # None, Trusted(k[2])' PROVE Sound(object[k], k)'
    <3>1. k[2] \in Path BY DEF Key
    <3>2. PICK env : env = object[k] OBVIOUS
    <3>3. Sound(env, k) BY <1>1, <1>2, <1>13, <2>1, <3>1, <3>2 DEF ObjectsAreSound
    <3>4. Sound(env, k)' /\ env = object'[k] BY <1>1, <1>15, <3>2, <3>3
    <3> QED BY <3>4
  <2> QED BY <2>1 DEF ObjectsAreSound
<1>19. ReadersAreSound'
  <2>1. ASSUME NEW d \in Readers'
        PROVE  /\ client'[d].at = "check" => Sound(client[d].held, client[d].key)'
               /\ client'[d].at = "fill" => client'[d].held = Content(disk', client'[d].key)
    <3>1. CASE d = c BY <1>9, <3>1
    <3>2. CASE d # c
      <4>1. d \in Readers /\ client'[d] = client[d] BY <1>8, <1>10, <3>2
      <4>2. /\ client[d].key \in Key
            /\ client[d].at = "check" => Sound(client[d].held, client[d].key)
            /\ client[d].at = "fill" => client[d].held = Content(disk, client[d].key)
        BY <1>2, <4>1 DEF ReadersAreSound, LockIsHeld, In
      <4>3. ASSUME client'[d].at = "check" PROVE Sound(client[d].held, client[d].key)'
        <5>1. PICK env : env = client[d].held OBVIOUS
        <5>2. PICK k \in Key : k = client[d].key BY <4>2
        <5>3. Sound(env, k)' BY <1>15, <4>1, <4>2, <4>3, <5>1, <5>2
        <5>4. env = client'[d].held /\ k = client'[d].key BY <4>1, <5>1, <5>2
        <5> QED BY <5>3, <5>4
      <4> QED BY <1>1, <4>1, <4>2, <4>3
    <3> QED BY <3>1, <3>2
  <2> QED BY <2>1 DEF ReadersAreSound, In
<1>20. CacheInv' BY <1>12, <1>16, <1>17, <1>18, <1>19 DEF CacheInv
<1> QED BY <1>1, <1>6, <1>20

-----------------------------------------------------------------------------
(***************************************************************************)
(* Changes of the tree.                                                    *)
(***************************************************************************)
\* Without readers only bypass keeps a path from the cache.
LEMMA TrustAlone ==
    ASSUME Readers = {}
    PROVE  \A s \in Path : Trusted(s) <=> ~is_runtime_bypassed(s)
BY DEF Trusted

\* A change keeps the invariant if the calls it is to make cover every object whose
\* content it changes.
LEMMA MutateKeeps ==
    ASSUME CacheInv, NEW c \in Client, NEW d \in Tree, NEW calls, Mutate(c, d, calls),
           Proper(calls, d), calls # <<>>,
           \A key \in Key : Content(disk, key) # Content(d, key) => Covered(calls, key)
    PROVE  CacheInv'
<1>1. /\ client[c].at = "idle" /\ Writers = {} /\ Readers = {}
      /\ disk' = d
      /\ client' = [client EXCEPT ![c] = [Idle EXCEPT !.at = "invalidate", !.todo = calls]]
      /\ UNCHANGED <<object, gen, local, epoch, bypass>>
  BY DEF Mutate, Change, In, cacheVars
<1>2. Types /\ GenerationsAgree /\ ObjectsAreSound BY DEF CacheInv
<1>3. /\ Moves(c) /\ client'[c].at = "invalidate" /\ client'[c].todo = calls
  BY <1>1, <1>2 DEF Types, Moves, Fields, Idle, IsMemo
<1>4. \A e \in Client \ {c} : client'[e] = client[e] BY <1>3 DEF Moves
<1>5. Writers' = {c} /\ Readers' = {}
  <2>1. Writers' = {c} BY <1>1, <1>3, <1>4 DEF Writers
  <2>2. Readers' = {} BY <1>1, <1>3, <1>4 DEF Readers, Reading
  <2> QED BY <2>1, <2>2
<1>6. Types'
  <2>1. client' = [e \in Client |-> client'[e]] BY <1>3 DEF Moves
  <2>2. ASSUME NEW e \in Client
        PROVE  DOMAIN client'[e] = Fields /\ client'[e].at # "raw" /\ IsMemo(client'[e].memo)
    <3>1. CASE e = c BY <1>3, <3>1 DEF Moves
    <3>2. CASE e # c BY <1>2, <1>4, <3>2 DEF Types, In
    <3> QED BY <3>1, <3>2
  <2> QED BY <1>1, <1>2, <2>1, <2>2 DEF Types, In
<1>7. LockIsHeld' BY <1>1, <1>3, <1>5 DEF LockIsHeld, Proper
<1>9. \A s \in Path : Trusted(s)' => Trusted(s) BY <1>1, <1>5 DEF Trusted, is_runtime_bypassed
<1>10. GenerationsAgree' BY <1>1, <1>2, <1>9, NothingRemembered, Agreement
<1>11. ASSUME NEW key \in Key, object'[key] # None, Trusted(key[2])' PROVE Sound(object[key], key)'
  <2>1. key[2] \in Path BY DEF Key
  <2>2. PICK env : env = object[key] /\ env = object'[key] BY <1>1
  <2>3. Trusted(key[2]) BY <1>9, <1>11, <2>1
  <2>4. ~is_runtime_bypassed(key[2]) BY <1>1, <2>1, <2>3, TrustAlone
  <2>5. Sound(env, key) BY <1>2, <1>11, <2>2, <2>3 DEF ObjectsAreSound
  <2>6. /\ env.gens \in [Ancestors(key[2]) -> Gen] /\ Behind(env, key[2])
        /\ Matches(env, key[2]) => Current(env, key)
    BY <1>1, <2>4, <2>5, NothingDue DEF Sound
  <2>7. Behind(env, key[2])' BY <1>1, <2>6 DEF Behind, Generation
  <2>8. Matches(env, key[2])' => Matches(env, key[2]) BY <1>1 DEF Matches, Generation
  <2>9. Current(env, key) => Current(env, key)' \/ Due(key)'
    <3>1. CASE Content(disk, key) = Content(d, key)
      <4>1. Content(disk', key) = Content(d, key) BY <1>1
      <4> QED BY <3>1, <4>1 DEF Current, Content
    <3>2. CASE Content(disk, key) # Content(d, key)
      <4>1. Covered(calls, key) BY <3>2
      <4>2. Due(key)' BY <1>3, <1>5, <4>1 DEF Due, Covered
      <4> QED BY <4>2
    <3> QED BY <3>1, <3>2
  <2>10. Sound(env, key)' BY <2>6, <2>7, <2>8, <2>9 DEF Sound
  <2> QED BY <2>2, <2>10
<1>12. ObjectsAreSound' BY <1>11 DEF ObjectsAreSound
<1>13. ReadersAreSound' BY <1>5 DEF ReadersAreSound
<1> QED BY <1>6, <1>7, <1>10, <1>12, <1>13 DEF CacheInv

\* create covers the objects of the path and the listing above.
LEMMA createStep ==
    ASSUME CacheInv, NEW c \in Client, NEW p \in Path, create(c, p)
    PROVE  CacheInv'
<1>1. disk \in Tree BY DEF CacheInv, Types
<1>2. PICK v \in Data :
          Mutate(c, [disk EXCEPT ![p] = IF disk[p] = Absent THEN v ELSE disk[p]],
                 invalidate_path_objects(p) \o invalidate_parent_directory(p))
  BY DEF create
<1> DEFINE w == IF disk[p] = Absent THEN v ELSE disk[p]
           d == [disk EXCEPT ![p] = w]
           calls == invalidate_path_objects(p) \o invalidate_parent_directory(p)
<1>3. w \in Data \cup {Absent, Dir} BY <1>1 DEF Tree
<1> HIDE DEF w
<1>4. d \in Tree /\ \A q \in Path : q # p => disk[q] = d[q] BY <1>1, <1>3, EntryTree
<1> HIDE DEF d
<1>5. /\ Proper(calls, d) /\ calls # <<>>
      /\ \A key \in Key : Covered(calls, key) <=> key[2] = p \/ key = <<"dir", Parent(p)>>
  BY pathCalls, parentCalls, JoinedCalls
<1>6. \A key \in Key : Content(disk, key) # Content(d, key) => Covered(calls, key)
  BY <1>1, <1>4, <1>5, EntryShows
<1>7. Mutate(c, d, calls) BY <1>2 DEF d, w
<1> HIDE DEF calls
<1> QED BY <1>4, <1>5, <1>6, <1>7, MutateKeeps

\* write covers the file and the listing above; what it stores is what it wrote.
LEMMA writeStep ==
    ASSUME CacheInv, NEW c \in Client, NEW p \in Path, write(c, p)
    PROVE  CacheInv'
<1>1. disk \in Tree /\ disk[p] # Dir BY DEF CacheInv, Types, write
<1>2. PICK v \in Data, whole \in BOOLEAN :
          Mutate(c, [disk EXCEPT ![p] = v],
                 cache_delete("file", p)
                 \o (IF whole /\ Policy(p)
                     THEN <<[Call("fill", "file", p) EXCEPT !.value = v]>> ELSE <<>>)
                 \o invalidate_parent_directory(p))
  BY DEF write
<1> DEFINE d == [disk EXCEPT ![p] = v]
           stores == IF whole /\ Policy(p)
                     THEN <<[Call("fill", "file", p) EXCEPT !.value = v]>> ELSE <<>>
           first == cache_delete("file", p) \o stores
           calls == first \o invalidate_parent_directory(p)
<1>3. /\ d \in Tree /\ d[p] = v /\ \A q \in Path : q # p => disk[q] = d[q]
  BY <1>1, EntryTree
<1> HIDE DEF d
<1>4. Proper(stores, d)
  <2> DEFINE call == [Call("fill", "file", p) EXCEPT !.value = v]
  <2>1. call \in ProviderCall /\ call.value = v /\ call.key = <<"file", p>>
    BY DEF Call, ProviderCall, Key
  <2>2. Content(d, <<"file", p>>) = v BY <1>3 DEF Content, Contents
  <2> HIDE DEF call
  <2>3. Proper(<<call>>, d) BY <2>1, <2>2, OneCall
  <2>4. Proper(<<>>, d) BY DEF Proper
  <2>5. stores = <<call>> \/ stores = <<>> BY DEF call
  <2> QED BY <2>3, <2>4, <2>5
<1> HIDE DEF stores
<1>5. /\ Proper(first, d) /\ first # <<>>
      /\ \A key \in Key : key = <<"file", p>> => Covered(first, key)
  BY <1>4, deleteCalls, JoinedCalls
<1> HIDE DEF first
<1>6. /\ Proper(calls, d) /\ calls # <<>>
      /\ \A key \in Key : key = <<"file", p>> \/ key = <<"dir", Parent(p)>> => Covered(calls, key)
  BY <1>5, parentCalls, JoinedCalls
<1>7. d[p] # Dir BY <1>3, EntryAssumption
<1>8. \A key \in Key : Content(disk, key) # Content(d, key) => Covered(calls, key)
  BY <1>1, <1>3, <1>6, <1>7, EntryShows
<1>9. Mutate(c, d, calls) BY <1>2 DEF d, first, stores
<1> HIDE DEF calls
<1> QED BY <1>3, <1>6, <1>8, <1>9, MutateKeeps

\* mkdir covers what lies below and the listing above.
LEMMA mkdirStep ==
    ASSUME CacheInv, NEW c \in Client, NEW p \in Path, mkdir(c, p)
    PROVE  CacheInv'
<1>1. disk \in Tree BY DEF CacheInv, Types
<1> DEFINE d == [disk EXCEPT ![p] = Dir]
           first == bump_generation(p) \o cache_delete("dir", p)
           calls == first \o invalidate_parent_directory(p)
<1>2. Mutate(c, d, calls) BY DEF mkdir
<1>3. d \in Tree /\ \A q \in Path : q # p => disk[q] = d[q] BY <1>1, EntryTree
<1> HIDE DEF d
<1>4. /\ Proper(first, d) /\ first # <<>>
      /\ \A key \in Key : IsUnder(key[2], p) => Covered(first, key)
  BY bumpCalls, deleteCalls, JoinedCalls
<1> HIDE DEF first
<1>5. /\ Proper(calls, d) /\ calls # <<>>
      /\ \A key \in Key : IsUnder(key[2], p) \/ key = <<"dir", Parent(p)>> => Covered(calls, key)
  BY <1>4, parentCalls, JoinedCalls
<1>6. \A q \in Path : ~IsUnder(q, p) => disk[q] = d[q] BY <1>3, UnderItself
<1>7. \A key \in Key : Content(disk, key) # Content(d, key) => Covered(calls, key)
  BY <1>1, <1>3, <1>5, <1>6, SubtreeShows
<1> HIDE DEF calls
<1> QED BY <1>2, <1>3, <1>5, <1>7, MutateKeeps

\* The calls of a removal cover what lies below and the directory above.
LEMMA removalCalls ==
    ASSUME NEW d, NEW p \in Path
    PROVE  LET calls == bump_generation(p) \o invalidate_path_objects(p)
                        \o invalidate_parent_directory(p)
           IN  /\ Proper(calls, d) /\ calls # <<>>
               /\ \A key \in Key : IsUnder(key[2], p) \/ key = <<"dir", Parent(p)>>
                                       => Covered(calls, key)
<1> DEFINE first == bump_generation(p) \o invalidate_path_objects(p)
<1>1. /\ Proper(first, d) /\ first # <<>>
      /\ \A key \in Key : IsUnder(key[2], p) => Covered(first, key)
  BY bumpCalls, pathCalls, JoinedCalls
<1> HIDE DEF first
<1>2. LET calls == first \o invalidate_parent_directory(p)
      IN  /\ Proper(calls, d) /\ calls # <<>>
          /\ \A key \in Key : IsUnder(key[2], p) \/ key = <<"dir", Parent(p)>>
                                  => Covered(calls, key)
  BY <1>1, parentCalls, JoinedCalls
<1> QED BY <1>2 DEF first

\* remove covers what lies below and the listing above.
LEMMA removeStep ==
    ASSUME CacheInv, NEW c \in Client, NEW p \in Path, remove(c, p)
    PROVE  CacheInv'
<1>1. disk \in Tree BY DEF CacheInv, Types
<1> DEFINE d == Without(disk, p)
           calls == bump_generation(p) \o invalidate_path_objects(p)
                    \o invalidate_parent_directory(p)
<1>2. Mutate(c, d, calls) BY DEF remove
<1>3. d \in Tree /\ \A q \in Path : ~IsUnder(q, p) => disk[q] = d[q] BY <1>1, WithoutTree
<1> HIDE DEF d
<1>4. /\ Proper(calls, d) /\ calls # <<>>
      /\ \A key \in Key : IsUnder(key[2], p) \/ key = <<"dir", Parent(p)>> => Covered(calls, key)
  BY removalCalls
<1> HIDE DEF calls
<1>5. \A key \in Key : Content(disk, key) # Content(d, key) => Covered(calls, key)
  BY <1>1, <1>3, <1>4, SubtreeShows
<1> QED BY <1>2, <1>3, <1>4, <1>5, MutateKeeps

\* So does remove_all, whatever part it removed.
LEMMA remove_allStep ==
    ASSUME CacheInv, NEW c \in Client, NEW p \in Path, remove_all(c, p)
    PROVE  CacheInv'
<1>1. disk \in Tree BY DEF CacheInv, Types
<1> DEFINE calls == bump_generation(p) \o invalidate_path_objects(p)
                    \o invalidate_parent_directory(p)
<1>2. PICK d \in RemovedParts(disk, p) : Mutate(c, d, calls) BY DEF remove_all
<1>3. d \in Tree /\ \A q \in Path : ~IsUnder(q, p) => disk[q] = d[q] BY <1>1, RemovedTree
<1>4. /\ Proper(calls, d) /\ calls # <<>>
      /\ \A key \in Key : IsUnder(key[2], p) \/ key = <<"dir", Parent(p)>> => Covered(calls, key)
  BY removalCalls
<1> HIDE DEF calls
<1>5. \A key \in Key : Content(disk, key) # Content(d, key) => Covered(calls, key)
  BY <1>1, <1>3, <1>4, SubtreeShows
<1> QED BY <1>2, <1>3, <1>4, <1>5, MutateKeeps

\* rename covers both subtrees and both listings above them.
LEMMA renameStep ==
    ASSUME CacheInv, NEW c \in Client, NEW old \in Path, NEW new \in Path, rename(c, old, new)
    PROVE  CacheInv'
<1>1. disk \in Tree BY DEF CacheInv, Types
<1> DEFINE d == Moved(disk, old, new)
           c1 == bump_generation(old) \o bump_generation(new)
           c2 == c1 \o invalidate_path_objects(old)
           c3 == c2 \o invalidate_path_objects(new)
           c4 == c3 \o invalidate_parent_directory(old)
           calls == c4 \o invalidate_parent_directory(new)
<1>2. Mutate(c, d, calls) BY DEF rename
<1>3. /\ d \in Tree
      /\ \A q \in Path : ~IsUnder(q, old) /\ ~IsUnder(q, new) => d[q] = disk[q]
  BY <1>1, MovedTree
<1> HIDE DEF d
<1>4. /\ Proper(c1, d) /\ c1 # <<>>
      /\ \A key \in Key : IsUnder(key[2], old) \/ IsUnder(key[2], new) => Covered(c1, key)
  BY bumpCalls, JoinedCalls
<1> HIDE DEF c1
<1>5. Proper(c2, d) /\ c2 # <<>> /\ \A key \in Key : Covered(c1, key) => Covered(c2, key)
  BY <1>4, pathCalls, JoinedCalls
<1> HIDE DEF c2
<1>6. Proper(c3, d) /\ c3 # <<>> /\ \A key \in Key : Covered(c2, key) => Covered(c3, key)
  BY <1>5, pathCalls, JoinedCalls
<1> HIDE DEF c3
<1>7. /\ Proper(c4, d) /\ c4 # <<>>
      /\ \A key \in Key : Covered(c3, key) \/ key = <<"dir", Parent(old)>> => Covered(c4, key)
  BY <1>6, parentCalls, JoinedCalls
<1> HIDE DEF c4
<1>8. /\ Proper(calls, d) /\ calls # <<>>
      /\ \A key \in Key : Covered(c4, key) \/ key = <<"dir", Parent(new)>> => Covered(calls, key)
  BY <1>7, parentCalls, JoinedCalls
<1> HIDE DEF calls
<1>9. ASSUME NEW key \in Key, Content(disk, key) # Content(d, key) PROVE Covered(calls, key)
  <2> DEFINE e == [q \in Path |-> IF IsUnder(q, old) THEN d[q] ELSE disk[q]]
  <2>1. /\ e \in Tree
        /\ \A q \in Path : ~IsUnder(q, old) => disk[q] = e[q]
        /\ \A q \in Path : ~IsUnder(q, new) => e[q] = d[q]
    BY <1>1, <1>3 DEF Tree
  <2> HIDE DEF e
  <2>2. CASE Content(disk, key) # Content(e, key)
    <3>1. IsUnder(key[2], old) \/ key = <<"dir", Parent(old)>>
      BY <1>1, <2>1, <2>2, SubtreeShows
    <3> QED BY <1>4, <1>5, <1>6, <1>7, <1>8, <3>1
  <2>3. CASE Content(e, key) # Content(d, key)
    <3>1. IsUnder(key[2], new) \/ key = <<"dir", Parent(new)>>
      BY <1>3, <2>1, <2>3, SubtreeShows
    <3> QED BY <1>4, <1>5, <1>6, <1>7, <1>8, <3>1
  <2> QED BY <1>9, <2>2, <2>3
<1> QED BY <1>2, <1>3, <1>8, <1>9, MutateKeeps

\* The ancestors of a path but itself, and what lies above each of them.
LEMMA ProperAncestor ==
    ASSUME NEW p \in Path, NEW q \in Path, q # p, IsUnder(p, q)
    PROVE  /\ p # <<>>
           /\ \E n \in 1..(Len(Parent(p)) + 1) : q = SubSeq(p, 1, n - 1)
           /\ IsUnder(p, Parent(q)) /\ Parent(q) # p
<1>1. p \in Seq(Name) /\ q \in Seq(Name) BY PathAssumption
<1>2. Len(p) \in Nat /\ Len(q) \in Nat /\ Len(q) <= Len(p) BY <1>1 DEF IsUnder
<1>3. q \in Ancestors(p) BY UnderIsAncestor
<1>4. PICK m \in 0..Len(p) : q = SubSeq(p, 1, m) BY <1>3 DEF Ancestors
<1>5. Len(q) = m BY <1>4, PrefixIsPath
<1>6. m # Len(p)
  <2>1. SubSeq(p, 1, Len(p)) = p BY <1>1
  <2> QED BY <1>4, <2>1
<1>7. p # <<>> BY <1>1, <1>2, <1>4, <1>6
<1>8. Len(Parent(p)) = Len(p) - 1
  <2>1. Len(p) - 1 \in 0..Len(p) BY <1>2, <1>4, <1>6
  <2> QED BY <1>7, <2>1, PrefixIsPath DEF Parent
<1>9. m + 1 \in 1..(Len(Parent(p)) + 1) /\ (m + 1) - 1 = m BY <1>2, <1>4, <1>6, <1>8
<1>10. q = SubSeq(p, 1, (m + 1) - 1) BY <1>4, <1>9
<1>11. IsUnder(p, Parent(q)) /\ Parent(q) # p
  <2>1. CASE q = <<>> BY <2>1 DEF Parent
  <2>2. CASE q # <<>>
    <3>1. Len(q) # 0 BY <1>1, <2>2
    <3>2. m - 1 \in 0..Len(p) /\ m - 1 \in 0..Len(q) BY <1>2, <1>4, <1>5, <3>1
    <3>3. Parent(q) = SubSeq(q, 1, m - 1) BY <1>5, <2>2 DEF Parent
    <3>4. /\ Len(Parent(q)) = m - 1
          /\ \A i \in 1..(m - 1) : Parent(q)[i] = q[i]
      BY <3>2, <3>3, PrefixIsPath
    <3>5. \A i \in 1..(m - 1) : i \in 1..Len(q) BY <1>5, <3>2
    <3>6. \A i \in 1..(m - 1) : p[i] = Parent(q)[i] BY <3>4, <3>5 DEF IsUnder
    <3>7. Len(Parent(q)) <= Len(p) /\ Len(Parent(q)) # Len(p) BY <1>2, <1>4, <1>6, <3>2, <3>4
    <3> QED BY <3>4, <3>6, <3>7 DEF IsUnder
  <2> QED BY <2>1, <2>2
<1> QED BY <1>7, <1>9, <1>10, <1>11

\* ensure_parent_dirs covers every listing it may have changed.
LEMMA ensure_parent_dirsStep ==
    ASSUME CacheInv, NEW c \in Client, NEW p \in Path, ensure_parent_dirs(c, p)
    PROVE  CacheInv'
<1>1. disk \in Tree BY DEF CacheInv, Types
<1> DEFINE d == WithParents(disk, p)
           size == Len(Parent(p)) + 1
           calls == [n \in 1..size |-> Call("delete", "dir", SubSeq(p, 1, n - 1))]
<1>2. Mutate(c, d, calls) BY DEF ensure_parent_dirs
<1>3. /\ d \in Tree
      /\ \A q \in Path : d[q] # disk[q] => q # p /\ IsUnder(p, q) /\ d[q] = Dir
  BY <1>1, ParentsTree
<1>4. \A q \in Path : q # p /\ IsUnder(p, q) => ~IsFile(disk, q)
  BY UnderIsAncestor DEF ensure_parent_dirs
<1> HIDE DEF d
<1>5. p \in Seq(Name) /\ Len(p) \in Nat BY PathAssumption
<1>6. size \in Nat /\ size >= 1 /\ \A n \in 1..size : n - 1 \in 0..Len(p)
  <2>1. CASE p = <<>> BY <2>1 DEF Parent
  <2>2. CASE p # <<>>
    <3>1. Len(p) # 0 BY <1>5, <2>2
    <3>2. Len(p) - 1 \in 0..Len(p) BY <1>5, <3>1
    <3>3. Len(Parent(p)) = Len(p) - 1 BY <2>2, <3>2, PrefixIsPath DEF Parent
    <3> QED BY <1>5, <3>1, <3>3
  <2> QED BY <2>1, <2>2
<1> HIDE DEF size
<1>7. \A n \in 1..size : /\ calls[n] \in ProviderCall /\ calls[n].do = "delete"
                         /\ calls[n].key = <<"dir", SubSeq(p, 1, n - 1)>>
  BY <1>6, PrefixIsPath, PlainCall
<1>8. calls \in Seq(ProviderCall) /\ Len(calls) = size
  <2>1. calls \in [1..size -> ProviderCall] BY <1>7
  <2> HIDE DEF calls
  <2> QED BY <1>6, <2>1
<1> HIDE DEF calls
<1>9. Proper(calls, d) /\ calls # <<>>
  <2>1. Proper(calls, d) BY <1>7, <1>8 DEF Proper
  <2>2. calls # <<>> BY <1>6, <1>8
  <2> QED BY <2>1, <2>2
<1>10. ASSUME NEW q \in Path, q # p, IsUnder(p, q) PROVE Covered(calls, <<"dir", q>>)
  <2>1. PICK n \in 1..size : q = SubSeq(p, 1, n - 1) BY <1>10, ProperAncestor DEF size
  <2> QED BY <1>7, <1>8, <2>1 DEF Covered, Covers
<1>11. ASSUME NEW key \in Key, Content(disk, key) # Content(d, key) PROVE Covered(calls, key)
  <2>1. key[2] \in Path /\ key = <<key[1], key[2]>> BY DEF Key
  <2>2. \/ /\ key[1] = "file" /\ disk[key[2]] # d[key[2]]
           /\ IsFile(disk, key[2]) \/ IsFile(d, key[2])
        \/ key[1] = "dir" /\ disk[key[2]] # d[key[2]]
        \/ /\ key[1] = "dir"
           /\ \E r \in Path : r # key[2] /\ Parent(r) = key[2] /\ disk[r] # d[r]
    BY <1>1, <1>3, <1>11, ContentDiffers
  <2>3. CASE /\ disk[key[2]] # d[key[2]]
             /\ IsFile(disk, key[2]) \/ IsFile(d, key[2])
    BY <1>3, <1>4, <2>1, <2>3, EntryAssumption DEF IsFile
  <2>4. CASE key[1] = "dir" /\ disk[key[2]] # d[key[2]]
    BY <1>3, <1>10, <2>1, <2>4
  <2>5. CASE /\ key[1] = "dir"
             /\ \E r \in Path : r # key[2] /\ Parent(r) = key[2] /\ disk[r] # d[r]
    <3>1. PICK r \in Path : Parent(r) = key[2] /\ disk[r] # d[r] BY <2>5
    <3>2. IsUnder(p, key[2]) /\ key[2] # p BY <1>3, <3>1, ProperAncestor
    <3> QED BY <1>10, <2>1, <2>5, <3>2
  <2> QED BY <2>2, <2>3, <2>4, <2>5
<1> QED BY <1>2, <1>3, <1>9, <1>11, MutateKeeps

-----------------------------------------------------------------------------
(***************************************************************************)
(* Provider calls of a change.                                             *)
(***************************************************************************)
\* A writer is alone, with a list of proper calls.
LEMMA WriterHas ==
    ASSUME CacheInv, NEW c \in Client, Pending(c)
    PROVE  /\ client[c].at = "invalidate" /\ Writers = {c} /\ Readers = {}
           /\ Proper(client[c].todo, disk) /\ client[c].todo # <<>>
           /\ Head(client[c].todo) \in ProviderCall
           /\ Head(client[c].todo).key \in Key /\ Head(client[c].todo).key[2] \in Path
           /\ Head(client[c].todo).do = "fill" =>
                  Head(client[c].todo).value = Content(disk, Head(client[c].todo).key)
<1>1. client[c].at = "invalidate" BY DEF Pending, CacheInv, Types, In
<1>2. c \in Writers BY <1>1 DEF Writers
<1>3. Writers = {c} /\ Readers = {} BY <1>2 DEF CacheInv, LockIsHeld
<1>4. Proper(client[c].todo, disk) /\ client[c].todo # <<>>
  BY <1>2 DEF CacheInv, LockIsHeld, Proper
<1>5. /\ Head(client[c].todo) \in ProviderCall
      /\ Head(client[c].todo).do = "fill" =>
             Head(client[c].todo).value = Content(disk, Head(client[c].todo).key)
  BY <1>4, RestOfCalls
<1>6. Head(client[c].todo).key \in Key BY <1>5 DEF ProviderCall
<1>7. Head(client[c].todo).key[2] \in Path BY <1>6 DEF Key
<1> QED BY <1>1, <1>3, <1>4, <1>5, <1>6, <1>7

\* The next call, or the end: what was due and is not covered by the call made is
\* due still.
LEMMA ProceedKeeps ==
    ASSUME CacheInv, NEW c \in Client, Pending(c), Proceed(c), disk' = disk
    PROVE  /\ Readers' = {} /\ LockIsHeld' /\ ReadersAreSound'
           /\ client' = [d \in Client |-> client'[d]]
           /\ \A d \in Client : /\ DOMAIN client'[d] = Fields /\ client'[d].at # "raw"
                                /\ IsMemo(client'[d].memo)
           /\ \A key \in Key : Due(key) /\ ~Covers(Head(client[c].todo), key) => Due(key)'
<1> DEFINE todo == client[c].todo
<1>1. /\ client[c].at = "invalidate" /\ Writers = {c} /\ Readers = {}
      /\ Proper(todo, disk) /\ todo # <<>>
  BY WriterHas
<1>2. Types BY DEF CacheInv
<1>3. /\ Moves(c)
      /\ Len(todo) = 1 => client'[c].at = "idle"
      /\ Len(todo) # 1 => client'[c].at = client[c].at /\ client'[c].todo = Tail(todo)
  BY <1>2, ProceedMoves
<1>4. \A d \in Client \ {c} : client'[d] = client[d] BY <1>3 DEF Moves
<1>5. /\ Len(todo) # 1 => Proper(Tail(todo), disk) /\ Tail(todo) # <<>>
      /\ \A key \in Key : Covered(todo, key) =>
             Covers(Head(todo), key) \/ (Len(todo) # 1 /\ Covered(Tail(todo), key))
  BY <1>1, RestOfCalls
<1>6. client'[c].at = "idle" \/ client'[c].at = "invalidate" BY <1>1, <1>3
<1>7. Readers' = {} BY <1>1, <1>4, <1>6 DEF Readers, Reading
<1>8. Writers' \subseteq {c} /\ (c \in Writers' => Len(todo) # 1) /\ (Len(todo) # 1 => c \in Writers')
  <2>1. Writers' \subseteq {c} BY <1>1, <1>4 DEF Writers
  <2>2. c \in Writers' => Len(todo) # 1 BY <1>3 DEF Writers
  <2>3. Len(todo) # 1 => c \in Writers' BY <1>1, <1>3 DEF Writers
  <2> QED BY <2>1, <2>2, <2>3
<1>9. LockIsHeld'
  <2>1. ASSUME NEW d \in Writers'
        PROVE  Proper(client'[d].todo, disk') /\ client'[d].todo # <<>>
    BY <1>3, <1>5, <1>8
  <2> QED BY <1>7, <1>8, <2>1 DEF LockIsHeld, Proper
<1>10. ReadersAreSound' BY <1>7 DEF ReadersAreSound
<1>11. ASSUME NEW d \in Client
       PROVE  DOMAIN client'[d] = Fields /\ client'[d].at # "raw" /\ IsMemo(client'[d].memo)
  <2>1. CASE d = c BY <1>3, <1>6, <2>1 DEF Moves
  <2>2. CASE d # c BY <1>2, <1>4, <2>2 DEF Types, In
  <2> QED BY <2>1, <2>2
<1>12. ASSUME NEW key \in Key, Due(key), ~Covers(Head(todo), key) PROVE Due(key)'
  <2>1. Covered(todo, key) BY <1>1, <1>12 DEF Due
  <2>2. Len(todo) # 1 /\ Covered(Tail(todo), key) BY <1>5, <1>12, <2>1
  <2>3. c \in Writers' /\ client'[c].todo = Tail(todo) BY <1>3, <1>8, <2>2
  <2> QED BY <2>2, <2>3 DEF Due, Covered
<1> QED BY <1>3, <1>7, <1>9, <1>10, <1>11, <1>12 DEF Moves

\* A call keeps the invariant if what stays in the provider, and out of bypass, is
\* sound.
LEMMA WriterKeeps ==
    ASSUME CacheInv, NEW c \in Client, Pending(c), Proceed(c), disk' = disk, epoch' = epoch,
           BypassGrows,
           gen' \in [Path -> {None} \cup Gen], local' \in [Path -> {None} \cup Gen],
           object' = [key \in Key |-> object'[key]],
           GenerationsAgree',
           \A key \in Key : object'[key] # None /\ ~is_runtime_bypassed(key[2])'
                                => Sound(object[key], key)'
    PROVE  CacheInv'
<1>1. /\ Readers' = {} /\ LockIsHeld' /\ ReadersAreSound'
      /\ client' = [d \in Client |-> client'[d]]
      /\ \A d \in Client : /\ DOMAIN client'[d] = Fields /\ client'[d].at # "raw"
                           /\ IsMemo(client'[d].memo)
  BY ProceedKeeps
<1>2. Types' BY <1>1 DEF Types, CacheInv, BypassGrows, In
<1>3. ObjectsAreSound' BY <1>1 DEF ObjectsAreSound, Trusted
<1> QED BY <1>1, <1>2, <1>3 DEF CacheInv

\* Calls that only remember generations, with the objects they leave or store.
LEMMA QuietCall ==
    ASSUME CacheInv, NEW c \in Client, Pending(c), Proceed(c), disk' = disk,
           BypassGrows, OnlyRemembered,
           object' = [key \in Key |-> object'[key]],
           \A key \in Key : \/ object'[key] = None
                            \/ Sound(object[key], key)'
                            \/ is_runtime_bypassed(key[2])'
                            \/ object'[key] = object[key] /\ ~Covers(Head(client[c].todo), key)
    PROVE  CacheInv'
<1>1. Types /\ GenerationsAgree /\ ObjectsAreSound BY DEF CacheInv
<1>2. Readers = {} BY WriterHas
<1>3. Readers' = {} /\ \A key \in Key : Due(key) /\ ~Covers(Head(client[c].todo), key) => Due(key)'
  BY ProceedKeeps
<1>4. ASSUME NEW s \in Path, Trusted(s)' PROVE Trusted(s)
  BY <1>2, <1>3, <1>4 DEF Trusted, BypassGrows
<1>5. GenerationsAgree' BY <1>1, <1>4, Agreement
<1>6. ASSUME NEW key \in Key, object'[key] # None, ~is_runtime_bypassed(key[2])'
      PROVE  Sound(object[key], key)'
  <2>1. CASE object'[key] = object[key] /\ ~Covers(Head(client[c].todo), key)
    <3>1. PICK env : env = object[key] /\ env = object'[key] BY <2>1
    <3>2. key[2] \in Path BY DEF Key
    <3>3. ~is_runtime_bypassed(key[2]) BY <1>6, <3>2 DEF BypassGrows
    <3>4. Sound(env, key) BY <1>1, <1>2, <1>6, <2>1, <3>1, <3>2, <3>3, TrustAlone DEF ObjectsAreSound
    <3>5. Sound(env, key)' BY <1>1, <1>3, <2>1, <3>4, SoundKept
    <3> QED BY <3>1, <3>5
  <2> QED BY <1>6, <2>1
<1>7. epoch' = epoch /\ gen' \in [Path -> {None} \cup Gen] /\ local' \in [Path -> {None} \cup Gen]
  BY DEF OnlyRemembered
<1> QED BY <1>5, <1>6, <1>7, WriterKeeps

\* A bump that reaches the provider outdates every object below; one that reaches
\* only the process needs bypass for that.
LEMMA BumpCall ==
    ASSUME CacheInv, NEW c \in Client, Pending(c), Proceed(c), disk' = disk, epoch' = epoch,
           BypassGrows, object' = object,
           NEW p \in Path, p = Head(client[c].todo).key[2],
           Head(client[c].todo).do = "bump",
           local' = [local EXCEPT ![p] = Bumped(p)],
           \/ gen' = [gen EXCEPT ![p] = Bumped(p)]
           \/ gen' = gen /\ \A q \in Path : IsUnder(q, p) => is_runtime_bypassed(q)'
    PROVE  CacheInv'
<1>1. Types /\ GenerationsAgree /\ ObjectsAreSound BY DEF CacheInv
<1>2. Readers = {} BY WriterHas
<1>3. Readers' = {} /\ \A key \in Key : Due(key) /\ ~Covers(Head(client[c].todo), key) => Due(key)'
  BY ProceedKeeps
<1>4. /\ Generation(p)[1] \in Nat /\ Generation(p)[2] \in Nat /\ Generation(p)[1] <= epoch
  BY <1>1, GenerationType
<1>5. PICK g : g = Bumped(p) OBVIOUS
<1>5a. PICK a \in Nat, b \in Nat : a = Generation(p)[1] /\ b = Generation(p)[2] BY <1>4
<1>5b. g = <<a, b + 1>> BY <1>5, <1>5a DEF Bumped
<1>5c. b + 1 \in Nat /\ a <= epoch BY <1>4, <1>5a
<1>6. g \in Gen /\ g # None /\ g[1] = a /\ g[2] = b + 1
  <2>1. g \in Gen BY <1>5b, <1>5c DEF Gen
  <2> QED BY <1>5b, <2>1, NoneAssumption
<1>7. /\ local \in [Path -> {None} \cup Gen] /\ gen \in [Path -> {None} \cup Gen]
      /\ object = [key \in Key |-> object[key]]
  BY <1>1 DEF Types
<1>8. /\ local' = [local EXCEPT ![p] = g]
      /\ \/ gen' = [gen EXCEPT ![p] = g]
         \/ gen' = gen /\ \A q \in Path : IsUnder(q, p) => is_runtime_bypassed(q)'
  BY <1>5
<1>9. local' \in [Path -> {None} \cup Gen] /\ gen' \in [Path -> {None} \cup Gen]
  <2>1. local' \in [Path -> {None} \cup Gen] BY <1>6, <1>7, <1>8
  <2>2. CASE gen' = [gen EXCEPT ![p] = g]
    <3>1. gen' \in [Path -> {None} \cup Gen] BY <1>6, <1>7, <2>2
    <3> QED BY <2>1, <3>1
  <2>3. CASE gen' = gen BY <1>7, <2>1, <2>3
  <2> QED BY <1>8, <2>2, <2>3
<1>10. \A s \in Path : s # p => local'[s] = local[s] /\ gen'[s] = gen[s]
  BY <1>7, <1>8
<1>11. local'[p] = g /\ (gen'[p] = g \/ (gen'[p] = gen[p] /\ is_runtime_bypassed(p)'))
  BY <1>7, <1>8, UnderItself
<1>12. ASSUME NEW s \in Path, Trusted(s)' PROVE Trusted(s)
  BY <1>2, <1>3, <1>12 DEF Trusted, BypassGrows
<1>13. GenerationsAgree'
  <2>1. ASSUME NEW s \in Path
        PROVE  /\ gen'[s] # None => gen'[s][1] <= epoch'
               /\ local'[s] # None => local'[s][1] <= epoch'
               /\ Trusted(s)' /\ gen'[s] # None /\ local'[s] # None => gen'[s] = local'[s]
    <3>1. CASE s # p BY <1>1, <1>10, <1>12, <3>1 DEF GenerationsAgree
    <3>2. CASE s = p /\ gen'[p] = g BY <1>5c, <1>6, <1>11, <3>2
    <3>3. CASE s = p /\ gen'[p] = gen[p] /\ is_runtime_bypassed(p)'
      <4>1. ~Trusted(s)' BY <1>3, <3>3 DEF Trusted
      <4>2. gen[p] # None => gen[p][1] <= epoch BY <1>1 DEF GenerationsAgree
      <4> QED BY <1>5c, <1>6, <1>11, <3>3, <4>1, <4>2
    <3> QED BY <1>11, <3>1, <3>2, <3>3
  <2> QED BY <2>1 DEF GenerationsAgree
<1>14. ASSUME NEW key \in Key, object'[key] # None, ~is_runtime_bypassed(key[2])'
       PROVE  Sound(object[key], key)'
  <2>1. key[2] \in Path BY DEF Key
  <2>2. Ancestors(key[2]) \subseteq Path BY <2>1, AncestorsArePaths
  <2>3. PICK env : env = object[key] /\ env = object'[key] OBVIOUS
  <2>4. ~is_runtime_bypassed(key[2]) BY <1>14, <2>1 DEF BypassGrows
  <2>5. Sound(env, key) BY <1>1, <1>2, <1>14, <2>1, <2>3, <2>4, TrustAlone DEF ObjectsAreSound
  <2>6. CASE IsUnder(key[2], p)
    <3>1. gen' = [gen EXCEPT ![p] = g] BY <1>8, <1>14, <2>1, <2>6
    <3>2. Generation(p)' = g BY <1>6, <1>7, <3>1 DEF Generation
    <3>3. p \in Ancestors(key[2]) BY <2>1, <2>6, UnderIsAncestor
    <3>4. env.gens \in [Ancestors(key[2]) -> Gen] /\ Behind(env, key[2]) BY <2>4, <2>5 DEF Sound
    <3>5. PICK e \in Gen : e = env.gens[p] BY <3>3, <3>4
    <3>5a. PICK x \in Nat, y \in Nat : e = <<x, y>> /\ e[1] = x /\ e[2] = y BY DEF Gen
    <3>6. /\ env.gens[p][1] = Generation(p)[1] => env.gens[p][2] <= Generation(p)[2]
          /\ env.gens[p][1] <= epoch
      BY <3>3, <3>4 DEF Behind
    <3>6a. (x = a => y <= b) /\ x <= epoch BY <1>5a, <3>5, <3>5a, <3>6
    <3>7. x = a => y <= b + 1 /\ y # b + 1 BY <3>6a
    <3>8. ~Matches(env, key[2])'
      <4>1. env.gens[p] # g BY <1>5b, <3>5, <3>5a, <3>7
      <4> QED BY <3>2, <3>3, <4>1 DEF Matches
    <3>9. Behind(env, key[2])'
      <4>1. ASSUME NEW s \in Ancestors(key[2])
            PROVE  /\ env.gens[s][1] = Generation(s)'[1] => env.gens[s][2] <= Generation(s)'[2]
                   /\ env.gens[s][1] <= epoch'
                   /\ local'[s] = None => env.gens[s][1] < epoch'
        <5>1. CASE s = p
          <6>1. Generation(s)'[1] = a /\ Generation(s)'[2] = b + 1 /\ local'[s] # None
            BY <1>6, <1>11, <3>2, <5>1
          <6>2. env.gens[s][1] = x /\ env.gens[s][2] = y BY <3>5, <3>5a, <5>1
          <6> QED BY <3>6a, <3>7, <6>1, <6>2
        <5>2. CASE s # p
          <6>1. Generation(s)' = Generation(s) /\ local'[s] = local[s]
            BY <1>10, <2>2, <5>2 DEF Generation
          <6> QED BY <3>4, <6>1 DEF Behind
        <5> QED BY <5>1, <5>2
      <4> QED BY <4>1 DEF Behind
    <3>10. Sound(env, key)' BY <3>4, <3>8, <3>9 DEF Sound
    <3> QED BY <2>3, <3>10
  <2>7. CASE ~IsUnder(key[2], p)
    <3>1. p \notin Ancestors(key[2]) BY <2>1, <2>7, UnderIsAncestor
    <3>2. \A s \in Ancestors(key[2]) : Generation(s)' = Generation(s) /\ local'[s] = local[s]
      BY <1>10, <2>2, <3>1 DEF Generation
    <3>3. ~Covers(Head(client[c].todo), key) BY <2>7 DEF Covers
    <3>4. Sound(env, key)' BY <1>3, <2>4, <2>5, <3>2, <3>3, SoundStays
    <3> QED BY <2>3, <3>4
  <2> QED BY <2>6, <2>7
<1>15. object' = [key \in Key |-> object'[key]] BY <1>7
<1> QED BY <1>9, <1>13, <1>14, <1>15, WriterKeeps

\* A call that reached the provider.
LEMMA ApplyKeeps ==
    ASSUME CacheInv, NEW c \in Client, Pending(c), Proceed(c), disk' = disk, epoch' = epoch,
           BypassGrows, Apply(Head(client[c].todo))
    PROVE  CacheInv'
<1>1. Types /\ GenerationsAgree BY DEF CacheInv
<1>2. PICK call \in ProviderCall : call = Head(client[c].todo) BY WriterHas
<1>3. /\ call.key \in Key /\ call.key[2] \in Path
      /\ call.do = "fill" => call.value = Content(disk, call.key)
  BY <1>2, WriterHas
<1>4. call.do \in {"bump", "delete", "fill"} BY DEF ProviderCall
<1>5. object = [key \in Key |-> object[key]] BY <1>1 DEF Types
<1>6. CASE call.do = "delete"
  <2>1. object' = [object EXCEPT ![call.key] = None] /\ UNCHANGED <<gen, local>>
    BY <1>2, <1>6 DEF Apply
  <2>2. OnlyRemembered BY <1>1, <2>1, NothingRemembered
  <2>3. object' = [key \in Key |-> object'[key]] BY <1>5, <2>1
  <2>4. ASSUME NEW key \in Key, object'[key] # None
        PROVE  object'[key] = object[key] /\ ~Covers(Head(client[c].todo), key)
    <3>1. key # call.key BY <1>3, <1>5, <2>1, <2>4
    <3>2. object'[key] = object[key] BY <1>5, <2>1, <3>1
    <3>3. ~Covers(call, key) BY <1>6, <3>1 DEF Covers
    <3> QED BY <1>2, <3>2, <3>3
  <2> QED BY <2>2, <2>3, <2>4, QuietCall
<1>7. CASE call.do = "bump"
  <2>1. PICK p \in Path : p = call.key[2] BY <1>3
  <2>2. /\ local' = [local EXCEPT ![p] = Bumped(p)]
        /\ gen' = [gen EXCEPT ![p] = Bumped(p)]
        /\ object' = object
    BY <1>2, <1>7, <2>1 DEF Apply
  <2>3. Head(client[c].todo).do = "bump" /\ p = Head(client[c].todo).key[2] BY <1>2, <1>7, <2>1
  <2> QED BY <2>2, <2>3, BumpCall
<1>8. CASE call.do = "fill"
  <2>1. PICK key \in Key : key = call.key BY <1>3
  <2>2. PICK env : env = [value |-> Content(disk, key), gens |-> generation_snapshots(key[2])]
    OBVIOUS
  <2>3. /\ current_generations(Ancestors(key[2]))
        /\ object' = [object EXCEPT ![key] = [value |-> call.value, gens |-> generation_snapshots(key[2])]]
    BY <1>2, <1>8, <2>1 DEF Apply
  <2>4. object' = [object EXCEPT ![key] = env] BY <1>3, <1>8, <2>1, <2>2, <2>3
  <2>5. key[2] \in Path BY <1>3, <2>1
  <2>6. /\ OnlyRemembered
        /\ \A s \in Path \cap Ancestors(key[2]) : local'[s] # None
    BY <1>1, <2>3, LookedUp
  <2>7. \A s \in Ancestors(key[2]) : local'[s] # None BY <2>5, <2>6, AncestorsArePaths
  <2>8. Sound(env, key)' BY <1>1, <2>2, <2>6, <2>7, FreshIsSound
  <2>9. object' = [k \in Key |-> object'[k]] /\ object'[key] = env BY <1>5, <2>4
  <2>10. ASSUME NEW k \in Key
         PROVE  \/ Sound(object[k], k)'
                \/ object'[k] = object[k] /\ ~Covers(Head(client[c].todo), k)
    <3>1. CASE k = key BY <2>8, <2>9, <3>1
    <3>2. CASE k # key
      <4>1. object'[k] = object[k] BY <1>5, <2>4, <3>2
      <4>2. ~Covers(call, k) BY <1>8 DEF Covers
      <4> QED BY <1>2, <4>1, <4>2
    <3> QED BY <3>1, <3>2
  <2> QED BY <2>6, <2>9, <2>10, QuietCall
<1> QED BY <1>4, <1>6, <1>7, <1>8

\* invalidate: the call is made, or is a fill that bypass has made pointless.
LEMMA invalidateStep ==
    ASSUME CacheInv, NEW c \in Client, invalidate(c)
    PROVE  CacheInv' /\ disk' = disk /\ Faithful
<1>1. /\ Pending(c) /\ Proceed(c)
      /\ UNCHANGED <<disk, answer, epoch, bypass>>
      /\ IF Skipped(Head(client[c].todo)) THEN UNCHANGED <<object, gen, local>>
         ELSE Apply(Head(client[c].todo))
  BY DEF invalidate
<1>2. Types BY DEF CacheInv
<1>3. BypassGrows BY <1>1, <1>2, BypassKept
<1>4. CASE Skipped(Head(client[c].todo))
  <2>1. UNCHANGED <<object, gen, local>> BY <1>1, <1>4
  <2>2. OnlyRemembered BY <1>1, <1>2, <2>1, NothingRemembered
  <2>3. object' = [key \in Key |-> object'[key]] BY <1>2, <2>1 DEF Types
  <2>4. Head(client[c].todo).do = "fill" BY <1>4 DEF Skipped
  <2>5. \A key \in Key : object'[key] = object[key] /\ ~Covers(Head(client[c].todo), key)
    BY <2>1, <2>4 DEF Covers
  <2>6. CacheInv' BY <1>1, <1>3, <2>2, <2>3, <2>5, QuietCall
  <2> QED BY <1>1, <2>6 DEF Faithful
<1>5. CASE ~Skipped(Head(client[c].todo))
  <2>1. Apply(Head(client[c].todo)) BY <1>1, <1>5
  <2>2. CacheInv' BY <1>1, <1>3, <2>1, ApplyKeeps
  <2> QED BY <1>1, <2>2 DEF Faithful
<1> QED BY <1>4, <1>5

\* invalidate_fails: what the call would have covered is bypassed.
LEMMA invalidate_failsStep ==
    ASSUME CacheInv, NEW c \in Client, invalidate_fails(c)
    PROVE  CacheInv' /\ disk' = disk /\ Faithful
<1> DEFINE call == Head(client[c].todo)
           lost == /\ local' \in {local, [local EXCEPT ![call.key[2]] =
                                     IF call.do = "bump" THEN Bumped(call.key[2]) ELSE @]}
                   /\ UNCHANGED <<object, gen>>
<1>1. /\ Pending(c) /\ Proceed(c)
      /\ bypass' = mark_bypass(call.key[2])
      /\ Apply(call) \/ lost
      /\ UNCHANGED <<disk, answer, epoch>>
  BY DEF invalidate_fails
<1>2. Types BY DEF CacheInv
<1>3. call \in ProviderCall /\ call.key \in Key /\ call.key[2] \in Path BY <1>1, WriterHas
<1>4. BypassGrows /\ \A q \in Path : IsUnder(q, call.key[2]) => is_runtime_bypassed(q)'
  BY <1>1, <1>2, <1>3, Marked
<1>5. CacheInv'
  <2>1. CASE Apply(call) BY <1>1, <1>4, <2>1, ApplyKeeps
  <2>2. CASE UNCHANGED <<object, gen, local>>
    <3>1. OnlyRemembered BY <1>1, <1>2, <2>2, NothingRemembered
    <3>2. object' = [key \in Key |-> object'[key]] BY <1>2, <2>2 DEF Types
    <3>3. ASSUME NEW key \in Key, ~is_runtime_bypassed(key[2])'
          PROVE  object'[key] = object[key] /\ ~Covers(Head(client[c].todo), key)
      <4>1. key[2] \in Path BY DEF Key
      <4>2. ~IsUnder(key[2], call.key[2]) BY <1>4, <3>3, <4>1
      <4>3. key # call.key BY <4>1, <4>2, UnderItself
      <4> QED BY <2>2, <4>2, <4>3 DEF Covers
    <3> QED BY <1>1, <1>4, <3>1, <3>2, <3>3, QuietCall
  <2>3. CASE lost /\ local' # local
    <3>1. PICK p \in Path : p = call.key[2] BY <1>3
    <3>2. local \in [Path -> {None} \cup Gen] BY <1>2 DEF Types
    <3>3. call.do = "bump" BY <2>3, <3>1, <3>2
    <3>4. local' = [local EXCEPT ![p] = Bumped(p)] /\ gen' = gen /\ object' = object
      BY <2>3, <3>1, <3>3
    <3>5. \A q \in Path : IsUnder(q, p) => is_runtime_bypassed(q)' BY <1>4, <3>1
    <3> QED BY <1>1, <1>4, <3>1, <3>3, <3>4, <3>5, BumpCall
  <2> QED BY <1>1, <2>1, <2>2, <2>3
<1> QED BY <1>1, <1>5 DEF Faithful

-----------------------------------------------------------------------------
(***************************************************************************)
(* Lost keys and restarts.                                                 *)
(***************************************************************************)
\* What reads can meet has above it only what reads can meet.
LEMMA TrustedAbove ==
    ASSUME Types, LockIsHeld, NEW p \in Path, NEW s \in Ancestors(p), Trusted(p)
    PROVE  Trusted(s)
<1>1. s \in Path /\ IsUnder(p, s) BY AncestorsArePaths, UnderIsAncestor
<1>2. bypass \in SUBSET Path BY DEF Types
<1>3. CASE ~is_runtime_bypassed(p) BY <1>2, <1>3, BypassIsInherited DEF Trusted
<1>4. CASE \E c \in Readers : IsUnder(client[c].key[2], p)
  <2>1. PICK c \in Readers : IsUnder(client[c].key[2], p) BY <1>4
  <2>2. client[c].key[2] \in Path BY DEF LockIsHeld, Key
  <2>3. IsUnder(client[c].key[2], s) BY <1>1, <2>1, <2>2, UnderTransitive
  <2> QED BY <2>3 DEF Trusted
<1> QED BY <1>3, <1>4 DEF Trusted

\* A generation the provider loses is remembered, or is of a process that is gone:
\* what carries it is not believed any more.
LEMMA LostGeneration ==
    ASSUME CacheInv, NEW p \in Path, gen' = [gen EXCEPT ![p] = None],
           UNCHANGED <<disk, local, epoch, bypass, client>>,
           NEW key \in Key, NEW env, Sound(env, key), Trusted(key[2])
    PROVE  Sound(env, key)'
<1>1. Types /\ LockIsHeld /\ GenerationsAgree BY DEF CacheInv
<1>2. key[2] \in Path BY DEF Key
<1>3. Ancestors(key[2]) \subseteq Path BY <1>2, AncestorsArePaths
<1>4. gen \in [Path -> {None} \cup Gen] BY <1>1 DEF Types
<1>5. Due(key)' <=> Due(key) BY DEF Due, Writers
<1>6. is_runtime_bypassed(key[2])' <=> is_runtime_bypassed(key[2]) BY DEF is_runtime_bypassed
<1>7. \A s \in Path : s # p => Generation(s)' = Generation(s) BY <1>4 DEF Generation
<1>8. CASE p \notin Ancestors(key[2])
  BY <1>3, <1>5, <1>6, <1>7, <1>8, SoundStays
<1>9. CASE p \in Ancestors(key[2]) /\ (local[p] # None \/ gen[p] = None)
  <2>1. Trusted(p) BY <1>1, <1>2, <1>9, TrustedAbove
  <2>2. Generation(p)' = Generation(p) BY <1>1, <1>4, <1>9, <2>1 DEF Generation, GenerationsAgree
  <2> QED BY <1>3, <1>5, <1>6, <1>7, <2>2, SoundStays
<1>10. CASE p \in Ancestors(key[2]) /\ local[p] = None /\ gen[p] # None
  <2>1. Generation(p)' = <<epoch, 0>> BY <1>4, <1>10 DEF Generation
  <2>2. CASE is_runtime_bypassed(key[2]) /\ Current(env, key)
    <3>1. Current(env, key)' BY <2>2 DEF Current, Content
    <3>2. env.gens \in [Ancestors(key[2]) -> Gen] BY DEF Sound
    <3> QED BY <1>6, <2>2, <3>1, <3>2 DEF Sound
  <2>3. CASE Behind(env, key[2])
    <3>1. env.gens \in [Ancestors(key[2]) -> Gen] BY DEF Sound
    <3>2. PICK e \in Gen : e = env.gens[p] BY <1>10, <3>1
    <3>3. PICK x \in Nat, y \in Nat : e = <<x, y>> /\ e[1] = x /\ e[2] = y BY DEF Gen
    <3>4. epoch \in Nat BY <1>1 DEF Types
    <3>5. x < epoch BY <1>10, <2>3, <3>2, <3>3 DEF Behind
    <3>6. x # epoch BY <3>4, <3>5
    <3>7. ~Matches(env, key[2])'
      <4>1. e # <<epoch, 0>> BY <3>3, <3>6
      <4> QED BY <1>10, <2>1, <3>2, <4>1 DEF Matches
    <3>8. Behind(env, key[2])'
      <4>1. ASSUME NEW s \in Ancestors(key[2])
            PROVE  /\ env.gens[s][1] = Generation(s)'[1] => env.gens[s][2] <= Generation(s)'[2]
                   /\ env.gens[s][1] <= epoch'
                   /\ local'[s] = None => env.gens[s][1] < epoch'
        <5>1. CASE s = p
          <6>0. <<epoch, 0>>[1] = epoch OBVIOUS
          <6>1. env.gens[s][1] = x /\ Generation(s)'[1] = epoch
            BY <2>1, <3>2, <3>3, <5>1, <6>0
          <6> QED BY <3>4, <3>5, <3>6, <6>1
        <5>2. CASE s # p
          <6>1. Generation(s)' = Generation(s) BY <1>3, <1>7, <5>2
          <6> QED BY <2>3, <6>1 DEF Behind
        <5> QED BY <5>1, <5>2
      <4> QED BY <4>1 DEF Behind
    <3> QED BY <3>1, <3>7, <3>8 DEF Sound
  <2> QED BY <2>2, <2>3 DEF Sound
<1> QED BY <1>8, <1>9, <1>10

\* Evict: lost objects do no harm, lost generations neither.
LEMMA EvictStep ==
    ASSUME CacheInv, Evict
    PROVE  CacheInv' /\ disk' = disk /\ Faithful
<1>1. UNCHANGED <<disk, answer, local, epoch, bypass, client>> BY DEF Evict
<1>2. Types /\ LockIsHeld /\ GenerationsAgree /\ ObjectsAreSound /\ ReadersAreSound BY DEF CacheInv
<1>3. Readers' = Readers /\ Writers' = Writers BY <1>1 DEF Readers, Writers
<1>4. \A s \in Path : Trusted(s)' <=> Trusted(s) BY <1>1, <1>3 DEF Trusted, is_runtime_bypassed
<1>5. LockIsHeld' BY <1>1, <1>2, <1>3 DEF LockIsHeld
<1>6. CASE /\ \E key \in Key : object' = [object EXCEPT ![key] = None]
           /\ UNCHANGED gen
  <2>1. object = [key \in Key |-> object[key]] BY <1>2 DEF Types
  <2>2. /\ object' = [key \in Key |-> object'[key]]
        /\ \A key \in Key : object'[key] = None \/ object'[key] = object[key]
    BY <1>6, <2>1
  <2>3. Types' BY <1>1, <1>2, <1>6, <2>2 DEF Types, In
  <2>4. OnlyRemembered BY <1>1, <1>2, <1>6, NothingRemembered
  <2>5. GenerationsAgree' BY <1>2, <1>4, <2>4, Agreement
  <2>6. BypassGrows BY <1>1, <1>2, BypassKept
  <2>7. ASSUME NEW key \in Key, NEW env, Sound(env, key) PROVE Sound(env, key)'
    <3>1. Due(key)' <=> Due(key) BY <1>1, <1>3 DEF Due
    <3> QED BY <1>1, <1>2, <2>4, <2>6, <2>7, <3>1, SoundKept
  <2>8. ObjectsAreSound'
    <3>1. ASSUME NEW key \in Key, object'[key] # None, Trusted(key[2])' PROVE Sound(object[key], key)'
      <4>1. key[2] \in Path BY DEF Key
      <4>2. PICK env : env = object[key] /\ env = object'[key] BY <2>2, <3>1
      <4>3. Sound(env, key) BY <1>2, <1>4, <3>1, <4>1, <4>2 DEF ObjectsAreSound
      <4>4. Sound(env, key)' BY <2>7, <4>3
      <4> QED BY <4>2, <4>4
    <3> QED BY <3>1 DEF ObjectsAreSound
  <2>9. ReadersAreSound'
    <3>1. ASSUME NEW d \in Readers, client[d].at = "check" PROVE Sound(client[d].held, client[d].key)'
      <4>1. PICK env : env = client[d].held OBVIOUS
      <4>2. PICK k \in Key : k = client[d].key BY <1>2 DEF LockIsHeld
      <4>3. Sound(env, k)' BY <1>2, <2>7, <3>1, <4>1, <4>2 DEF ReadersAreSound, In
      <4>4. env = client'[d].held /\ k = client'[d].key BY <1>1, <4>1, <4>2
      <4> QED BY <4>3, <4>4
    <3> QED BY <1>1, <1>2, <1>3, <3>1 DEF ReadersAreSound, In
  <2>10. CacheInv' BY <1>5, <2>3, <2>5, <2>8, <2>9 DEF CacheInv
  <2> QED BY <1>1, <2>10 DEF Faithful
<1>7. CASE /\ \E p \in Path : gen' = [gen EXCEPT ![p] = None]
           /\ UNCHANGED object
  <2>1. PICK p \in Path : gen' = [gen EXCEPT ![p] = None] BY <1>7
  <2>2. gen \in [Path -> {None} \cup Gen] BY <1>2 DEF Types
  <2>3. gen' \in [Path -> {None} \cup Gen] BY <2>1, <2>2
  <2>4. Types' BY <1>1, <1>2, <1>7, <2>3 DEF Types, In
  <2>5. GenerationsAgree'
    <3>1. \A s \in Path : gen'[s] # None => gen'[s] = gen[s] BY <2>1, <2>2
    <3> QED BY <1>1, <1>2, <1>4, <3>1 DEF GenerationsAgree
  <2>6. ObjectsAreSound'
    <3>1. ASSUME NEW key \in Key, object'[key] # None, Trusted(key[2])' PROVE Sound(object[key], key)'
      <4>1. key[2] \in Path BY DEF Key
      <4>2. PICK env : env = object[key] /\ env = object'[key] BY <1>7
      <4>3. Sound(env, key) /\ Trusted(key[2])
        BY <1>2, <1>4, <1>7, <3>1, <4>1, <4>2 DEF ObjectsAreSound
      <4>4. Sound(env, key)' BY <1>1, <2>1, <4>3, LostGeneration
      <4> QED BY <4>2, <4>4
    <3> QED BY <3>1 DEF ObjectsAreSound
  <2>7. ReadersAreSound'
    <3>1. ASSUME NEW d \in Readers, client[d].at = "check" PROVE Sound(client[d].held, client[d].key)'
      <4>1. PICK env : env = client[d].held OBVIOUS
      <4>2. PICK k \in Key : k = client[d].key BY <1>2 DEF LockIsHeld
      <4>3. Sound(env, k) /\ Trusted(k[2])
        BY <1>2, <3>1, <4>1, <4>2, ReaderHas DEF ReadersAreSound, In
      <4>4. Sound(env, k)' BY <1>1, <2>1, <4>3, LostGeneration
      <4>5. env = client'[d].held /\ k = client'[d].key BY <1>1, <4>1, <4>2
      <4> QED BY <4>4, <4>5
    <3> QED BY <1>1, <1>2, <1>3, <3>1 DEF ReadersAreSound, In
  <2>8. CacheInv' BY <1>5, <2>4, <2>5, <2>6, <2>7 DEF CacheInv
  <2> QED BY <1>1, <2>8 DEF Faithful
<1> QED BY <1>6, <1>7 DEF Evict

\* A process that stopped cleanly leaves no bypass to forget; a generation that the
\* provider lost meanwhile begins anew with the new epoch, which no object carries.
LEMMA RestartStep ==
    ASSUME CacheInv, CleanRestarts, Restart
    PROVE  CacheInv' /\ disk' = disk /\ Faithful
<1>1. /\ bypass = {} /\ Readers = {} /\ \A c \in Client : ~Pending(c)
      /\ epoch' = epoch + 1
      /\ local' = [p \in Path |-> None]
      /\ bypass' = {}
      /\ gen' \in {gen, [p \in Path |-> None]}
      /\ client' = [c \in Client |-> Idle]
      /\ UNCHANGED <<disk, answer, object>>
  BY DEF Restart
<1>2. Types /\ GenerationsAgree /\ ObjectsAreSound BY DEF CacheInv
<1>3. /\ epoch \in Nat /\ gen \in [Path -> {None} \cup Gen]
      /\ object = [key \in Key |-> object[key]]
  BY <1>2 DEF Types
<1>4. Writers = {} BY <1>1 DEF Writers, Pending
<1>5. \A c \in Client : client'[c] = Idle BY <1>1
<1>6. Writers' = {} /\ Readers' = {} BY <1>5 DEF Writers, Readers, Reading, Idle
<1>7. LockIsHeld' BY <1>6 DEF LockIsHeld
<1>8. ReadersAreSound' BY <1>6 DEF ReadersAreSound
<1>9. gen' \in [Path -> {None} \cup Gen] /\ local' \in [Path -> {None} \cup Gen] /\ epoch' \in Nat
  BY <1>1, <1>3
<1>10. Types'
  <2>1. \A c \in Client : /\ DOMAIN client'[c] = Fields /\ client'[c].at # "raw"
                          /\ IsMemo(client'[c].memo)
    BY <1>5 DEF Idle, Fields, IsMemo
  <2>2. client' = [c \in Client |-> client'[c]] BY <1>1, <1>5
  <2>3. bypass' \in SUBSET Path BY <1>1
  <2> QED BY <1>1, <1>2, <1>9, <2>1, <2>2, <2>3 DEF Types, In
<1>11. \A s \in Path : local'[s] = None /\ (gen'[s] = gen[s] \/ gen'[s] = None) BY <1>1
<1>12. GenerationsAgree'
  <2>1. ASSUME NEW s \in Path, gen'[s] # None PROVE gen'[s][1] <= epoch'
    <3>1. gen'[s] = gen[s] /\ gen[s][1] <= epoch BY <1>2, <1>11, <2>1 DEF GenerationsAgree
    <3>2. gen[s] \in Gen BY <1>3, <2>1, <3>1
    <3>3. gen[s][1] \in Nat BY <3>2 DEF Gen
    <3> QED BY <1>1, <1>3, <3>1, <3>3
  <2> QED BY <1>11, <2>1 DEF GenerationsAgree
<1>13. ASSUME NEW key \in Key, object'[key] # None PROVE Sound(object[key], key)'
  <2>1. key[2] \in Path BY DEF Key
  <2>2. Ancestors(key[2]) \subseteq Path BY <2>1, AncestorsArePaths
  <2>3. PICK env : env = object[key] /\ env = object'[key] BY <1>1
  <2>4. ~is_runtime_bypassed(key[2]) BY <1>1 DEF is_runtime_bypassed
  <2>5. Trusted(key[2]) BY <2>4 DEF Trusted
  <2>6. Sound(env, key) BY <1>1, <1>2, <1>13, <2>3, <2>5 DEF ObjectsAreSound
  <2>7. /\ env.gens \in [Ancestors(key[2]) -> Gen] /\ Behind(env, key[2])
        /\ Matches(env, key[2]) => Current(env, key)
    BY <1>4, <2>4, <2>6, NothingDue DEF Sound
  <2>8. ASSUME NEW s \in Ancestors(key[2])
        PROVE  /\ env.gens[s][1] = Generation(s)'[1] => env.gens[s][2] <= Generation(s)'[2]
               /\ env.gens[s][1] < epoch' /\ env.gens[s][1] <= epoch'
               /\ env.gens[s] = Generation(s)' => env.gens[s] = Generation(s)
    <3>1. s \in Path BY <2>2
    <3>2. PICK e \in Gen : e = env.gens[s] BY <2>7
    <3>3. PICK x \in Nat, y \in Nat : e = <<x, y>> /\ e[1] = x /\ e[2] = y BY DEF Gen
    <3>4. x <= epoch BY <2>7, <3>2, <3>3 DEF Behind
    <3>5. x < epoch' /\ x <= epoch' /\ x # epoch' BY <1>1, <1>3, <3>4
    <3>6. CASE gen'[s] # None
      <4>1. Generation(s)' = gen'[s] /\ gen'[s] = gen[s] BY <1>11, <3>1, <3>6 DEF Generation
      <4>2. Generation(s) = gen[s] BY <3>6, <4>1 DEF Generation
      <4>3. env.gens[s][1] = Generation(s)[1] => env.gens[s][2] <= Generation(s)[2]
        BY <2>7 DEF Behind
      <4> QED BY <3>2, <3>3, <3>5, <4>1, <4>2, <4>3
    <3>7. CASE gen'[s] = None
      <4>1. Generation(s)' = <<epoch', 0>> BY <1>11, <3>1, <3>7 DEF Generation
      <4>2. Generation(s)'[1] = epoch'
        <5>1. <<epoch', 0>>[1] = epoch' OBVIOUS
        <5> QED BY <4>1, <5>1
      <4> QED BY <3>2, <3>3, <3>5, <4>2
    <3> QED BY <3>6, <3>7
  <2>9. Behind(env, key[2])' BY <2>8 DEF Behind
  <2>10. Matches(env, key[2])' => Matches(env, key[2]) BY <2>8 DEF Matches
  <2>11. Current(env, key) => Current(env, key)' BY <1>1 DEF Current, Content
  <2>12. Sound(env, key)' BY <2>7, <2>9, <2>10, <2>11 DEF Sound
  <2> QED BY <2>3, <2>12
<1>14. ObjectsAreSound' BY <1>13 DEF ObjectsAreSound
<1>15. CacheInv' BY <1>7, <1>8, <1>10, <1>12, <1>14 DEF CacheInv
<1> QED BY <1>1, <1>15 DEF Faithful

-----------------------------------------------------------------------------
(***************************************************************************)
(* The theorems.                                                           *)
(***************************************************************************)
LEMMA InitHolds ==
    ASSUME Init
    PROVE  CacheInv
<1>1. /\ disk \in Tree /\ object = [key \in Key |-> None]
      /\ gen = [p \in Path |-> None] /\ local = [p \in Path |-> None]
      /\ epoch = 1 /\ bypass = {} /\ client = [c \in Client |-> Idle]
  BY MountedAssumption DEF Init
<1>2. \A c \in Client : client[c] = Idle BY <1>1
<1>3. Writers = {} /\ Readers = {} BY <1>2 DEF Writers, Readers, Reading, Idle
<1>4. Types
  <2>1. \A c \in Client : DOMAIN client[c] = Fields /\ client[c].at # "raw" /\ IsMemo(client[c].memo)
    BY <1>2 DEF Idle, Fields, IsMemo
  <2>2. client = [c \in Client |-> client[c]] BY <1>1, <1>2
  <2>3. gen \in [Path -> {None} \cup Gen] /\ local \in [Path -> {None} \cup Gen] BY <1>1
  <2>4. object = [key \in Key |-> object[key]] BY <1>1
  <2> QED BY <1>1, <2>1, <2>2, <2>3, <2>4 DEF Types, In
<1>5. LockIsHeld BY <1>3 DEF LockIsHeld
<1>6. GenerationsAgree BY <1>1 DEF GenerationsAgree
<1>7. ObjectsAreSound BY <1>1 DEF ObjectsAreSound
<1>8. ReadersAreSound BY <1>3 DEF ReadersAreSound
<1> QED BY <1>4, <1>5, <1>6, <1>7, <1>8 DEF CacheInv

\* What a step does to the tree and to the answer: a read answers with what the
\* backend holds, a change is one a plain file system makes.
Acts == (disk' = disk /\ Faithful) \/ Plain!Change

\* A write is one of the plain file system.
LEMMA PlainWrite ==
    ASSUME NEW p \in Path, CanHold(disk, p), disk[p] # Dir, NEW v \in Data
    PROVE  [disk EXCEPT ![p] = v] \in Plain!Writes(disk)
<1>1. p \in {q \in Path : Plain!CanHold(disk, q) /\ disk[q] # Dir}
  BY DEF Plain!CanHold, CanHold, Plain!Parent, Parent
<1> QED BY <1>1 DEF Plain!Writes

\* The changes of the tree are changes of the plain file system, or none.
LEMMA ChangeActs ==
    ASSUME CacheInv, NEW c \in Client, NEW p \in Path,
           \/ create(c, p) \/ write(c, p) \/ mkdir(c, p)
           \/ remove(c, p) \/ remove_all(c, p) \/ ensure_parent_dirs(c, p)
    PROVE  Acts
<1>1. disk \in Tree BY DEF CacheInv, Types
<1>2. CASE create(c, p)
  <2>1. /\ CanHold(disk, p) /\ disk[p] # Dir
        /\ \E v \in Data : disk' = [disk EXCEPT ![p] = IF disk[p] = Absent THEN v ELSE disk[p]]
        /\ answer' = answer
    BY <1>2 DEF create, Mutate, Change
  <2>2. CASE disk[p] = Absent
    <3>1. disk' \in Plain!Writes(disk) BY <2>1, <2>2, PlainWrite
    <3> QED BY <2>1, <3>1 DEF Plain!Change, Acts
  <2>3. CASE disk[p] # Absent
    <3>1. disk' = disk BY <1>1, <2>1, <2>3 DEF Tree
    <3> QED BY <2>1, <3>1 DEF Acts, Faithful
  <2> QED BY <2>2, <2>3
<1>3. CASE write(c, p)
  <2>1. /\ CanHold(disk, p) /\ disk[p] # Dir
        /\ \E v \in Data : disk' = [disk EXCEPT ![p] = v]
        /\ answer' = answer
    BY <1>3 DEF write, Mutate, Change
  <2>2. disk' \in Plain!Writes(disk) BY <2>1, PlainWrite
  <2> QED BY <2>1, <2>2 DEF Plain!Change, Acts
<1>4. CASE mkdir(c, p)
  <2>1. /\ CanHold(disk, p) /\ disk[p] = Absent
        /\ disk' = [disk EXCEPT ![p] = Dir] /\ answer' = answer
    BY <1>4 DEF mkdir, Mutate, Change
  <2>2. disk' \in Plain!Mkdirs(disk)
    BY <2>1 DEF Plain!Mkdirs, Plain!CanHold, CanHold, Plain!Parent, Parent
  <2> QED BY <2>1, <2>2 DEF Plain!Change, Acts
<1>5. CASE remove(c, p)
  <2>1. /\ p # <<>> /\ Children(disk, p) = {}
        /\ disk' = Without(disk, p) /\ answer' = answer
    BY <1>5 DEF remove, Mutate, Change
  <2>2. Plain!Without(disk, p) = Without(disk, p) /\ Plain!Children(disk, p) = Children(disk, p)
    BY DEF Plain!Without, Without, Plain!IsUnder, IsUnder, Plain!Children, Children, Plain!Parent, Parent
  <2>3. disk' \in Plain!Removes(disk) BY <2>1, <2>2 DEF Plain!Removes
  <2> QED BY <2>1, <2>3 DEF Plain!Change, Acts
<1>6. CASE remove_all(c, p)
  <2>1. /\ p # <<>> /\ disk[p] # Absent
        /\ disk' \in RemovedParts(disk, p) /\ answer' = answer
    BY <1>6 DEF remove_all, Mutate, Change
  <2>2. Plain!RemovedParts(disk, p) = RemovedParts(disk, p)
    BY DEF Plain!RemovedParts, RemovedParts, Plain!IsUnder, IsUnder
  <2>3. disk' \in Plain!RemoveAlls(disk) BY <2>1, <2>2 DEF Plain!RemoveAlls
  <2> QED BY <2>1, <2>3 DEF Plain!Change, Acts
<1>7. CASE ensure_parent_dirs(c, p)
  <2>1. /\ \A a \in Ancestors(p) \ {p} : ~IsFile(disk, a)
        /\ disk' = WithParents(disk, p) /\ answer' = answer
    BY <1>7 DEF ensure_parent_dirs, Mutate, Change
  <2>2. /\ Plain!WithParents(disk, p) = WithParents(disk, p)
        /\ Plain!Ancestors(p) = Ancestors(p)
        /\ \A a : Plain!IsFile(disk, a) = IsFile(disk, a)
    BY DEF Plain!WithParents, WithParents, Plain!IsUnder, IsUnder, Plain!Ancestors, Ancestors,
           Plain!IsFile, IsFile
  <2>3. disk' \in Plain!Ensures(disk) BY <2>1, <2>2 DEF Plain!Ensures
  <2> QED BY <2>1, <2>3 DEF Plain!Change, Acts
<1> QED BY <1>2, <1>3, <1>4, <1>5, <1>6, <1>7

\* So is a rename.
LEMMA RenameActs ==
    ASSUME NEW c \in Client, NEW old \in Path, NEW new \in Path, rename(c, old, new)
    PROVE  Acts
<1>1. Movable(disk, old, new) /\ disk' = Moved(disk, old, new) /\ answer' = answer
  BY DEF rename, Mutate, Change
<1>2. Plain!Moved(disk, old, new) = Moved(disk, old, new)
  BY DEF Plain!Moved, Moved, Plain!IsUnder, IsUnder
<1>3. Plain!Movable(disk, old, new)
  BY <1>1 DEF Plain!Movable, Movable, Plain!IsUnder, IsUnder, Plain!CanHold, CanHold,
              Plain!Parent, Parent, Plain!IsFile, IsFile
<1>4. disk' \in Plain!Renames(disk)
  <2>1. <<old, new>> \in Path \X Path /\ <<old, new>>[1] = old /\ <<old, new>>[2] = new OBVIOUS
  <2> QED BY <1>1, <1>2, <1>3, <2>1 DEF Plain!Renames
<1> QED BY <1>1, <1>4 DEF Plain!Change, Acts

\* Every step keeps the invariant and acts as one of a plain file system.
LEMMA StepKeeps ==
    ASSUME CleanRestarts, CacheInv, Next
    PROVE  CacheInv' /\ Acts
<1>1. CASE \E c \in Client : ReadStep(c)
  <2>1. PICK c \in Client : ReadStep(c) BY <1>1
  <2>2. CacheInv' /\ disk' = disk /\ Faithful
    BY <2>1, probeStep, checkStep, probe_failsStep, lock_inflightStep, loadStep, fillStep,
       fill_failsStep DEF ReadStep
  <2> QED BY <2>2 DEF Acts
<1>2. CASE \E c \in Client, key \in Asked : read(c, key) \/ grep(c, key) \/ grep_goes_on(c, key)
  <2>1. PICK c \in Client, key \in Asked : read(c, key) \/ grep(c, key) \/ grep_goes_on(c, key)
    BY <1>2
  <2>2. key \in Key BY BoundsAssumption
  <2>3. CASE read(c, key)
    <3>1. Start(c, key, None, None) /\ IsMemo(None) BY <2>3 DEF read, IsMemo
    <3> QED BY <2>2, <3>1, StartStep DEF Acts
  <2>4. CASE grep(c, key)
    <3>1. PICK h : Start(c, key, <<>>, h) BY <2>4 DEF grep
    <3>2. IsMemo(<<>>) BY EmptyMemo DEF IsMemo
    <3> QED BY <2>2, <3>1, <3>2, StartStep DEF Acts
  <2>5. CASE grep_goes_on(c, key)
    <3>1. Start(c, key, client[c].memo, since[c]) BY <2>5 DEF grep_goes_on
    <3>2. IsMemo(client[c].memo) BY DEF CacheInv, Types
    <3> QED BY <2>2, <3>1, <3>2, StartStep DEF Acts
  <2> QED BY <2>1, <2>3, <2>4, <2>5
<1>3. CASE \E c \in Client, p \in Path :
              \/ create(c, p) \/ write(c, p) \/ mkdir(c, p)
              \/ remove(c, p) \/ remove_all(c, p) \/ ensure_parent_dirs(c, p)
  BY <1>3, createStep, writeStep, mkdirStep, removeStep, remove_allStep,
     ensure_parent_dirsStep, ChangeActs
<1>4. CASE \E c \in Client, old, new \in Path : rename(c, old, new)
  BY <1>4, renameStep, RenameActs
<1>5. CASE \E c \in Client : invalidate(c) \/ invalidate_fails(c)
  BY <1>5, invalidateStep, invalidate_failsStep DEF Acts
<1>6. CASE Evict \/ Restart BY <1>6, EvictStep, RestartStep DEF Acts
<1>7. ASSUME NEW c \in Client, Operation(c)
      PROVE  \/ \E key \in Asked : read(c, key) \/ grep(c, key) \/ grep_goes_on(c, key)
             \/ \E p \in Path :
                   \/ create(c, p) \/ write(c, p) \/ mkdir(c, p)
                   \/ remove(c, p) \/ remove_all(c, p) \/ ensure_parent_dirs(c, p)
             \/ \E old, new \in Path : rename(c, old, new)
  BY <1>7 DEF Operation
<1> QED BY <1>1, <1>2, <1>3, <1>4, <1>5, <1>6, <1>7 DEF Next

\* Steps that change nothing keep the invariant.
LEMMA StutterKeeps ==
    ASSUME CacheInv, UNCHANGED vars
    PROVE  CacheInv'
<1>1. UNCHANGED <<disk, object, gen, local, epoch, bypass, client>> BY DEF vars, cacheVars
<1>2. Readers' = Readers /\ Writers' = Writers BY <1>1 DEF Readers, Writers
<1>3. Types' BY <1>1 DEF CacheInv, Types, In
<1>4. LockIsHeld' BY <1>1, <1>2 DEF CacheInv, LockIsHeld
<1>5. \A s \in Path : Trusted(s)' <=> Trusted(s) BY <1>1, <1>2 DEF Trusted, is_runtime_bypassed
<1>6. OnlyRemembered /\ BypassGrows BY <1>1, NothingRemembered, BypassKept DEF CacheInv
<1>7. GenerationsAgree' BY <1>5, <1>6, Agreement DEF CacheInv
<1>8. ASSUME NEW key \in Key, NEW env, Sound(env, key) PROVE Sound(env, key)'
  <2>1. Due(key)' <=> Due(key) BY <1>1, <1>2 DEF Due
  <2> QED BY <1>1, <1>6, <1>8, <2>1, SoundKept DEF CacheInv
<1>9. ObjectsAreSound'
  <2>1. ASSUME NEW key \in Key, object'[key] # None, Trusted(key[2])' PROVE Sound(object[key], key)'
    <3>1. key[2] \in Path BY DEF Key
    <3>2. PICK env : env = object[key] /\ env = object'[key] BY <1>1
    <3>3. Sound(env, key) BY <1>1, <1>5, <2>1, <3>1, <3>2 DEF CacheInv, ObjectsAreSound
    <3>4. Sound(env, key)' BY <1>8, <3>3
    <3> QED BY <3>2, <3>4
  <2> QED BY <2>1 DEF ObjectsAreSound
<1>10. ReadersAreSound'
  <2>1. ASSUME NEW d \in Readers, client[d].at = "check" PROVE Sound(client[d].held, client[d].key)'
    <3>1. PICK env : env = client[d].held OBVIOUS
    <3>2. PICK k \in Key : k = client[d].key BY DEF CacheInv, LockIsHeld
    <3>3. Sound(env, k)' BY <1>8, <2>1, <3>1, <3>2 DEF CacheInv, ReadersAreSound, In
    <3>4. env = client'[d].held /\ k = client'[d].key BY <1>1, <3>1, <3>2
    <3> QED BY <3>3, <3>4
  <2> QED BY <1>1, <1>2, <2>1 DEF CacheInv, ReadersAreSound, In
<1> QED BY <1>3, <1>4, <1>7, <1>9, <1>10 DEF CacheInv

\* The invariant of the cache holds in every state, however often provider calls
\* fail, keys are lost and the process is restarted cleanly.
THEOREM CacheInvariance ==
    ASSUME CleanRestarts
    PROVE  Spec => []CacheInv
<1>1. Init => CacheInv BY InitHolds
<1>2. CacheInv /\ [Next]_vars => CacheInv' BY StepKeeps, StutterKeeps
<1> QED BY <1>1, <1>2, PTL DEF Spec

\* BelievedIsCurrent: while no change holds operation_lock, whatever a read would
\* believe, by its path and its generations, is what the backend holds.
THEOREM Belief ==
    ASSUME CleanRestarts
    PROVE  Spec => []BelievedIsCurrent
<1>1. CacheInv => BelievedIsCurrent
  <2>1. SUFFICES ASSUME CacheInv, Writers = {}, NEW key \in Key, object[key] # None,
                        ~is_runtime_bypassed(key[2]),
                        \A s \in Ancestors(key[2]) : object[key].gens[s] = Generation(s)
                 PROVE  object[key].value = Content(disk, key)
    BY DEF BelievedIsCurrent, BelieveOnlyCurrent
  <2>2. Trusted(key[2]) BY <2>1 DEF Trusted
  <2>3. Sound(object[key], key) BY <2>1, <2>2 DEF CacheInv, ObjectsAreSound
  <2>4. Matches(object[key], key[2]) BY <2>1 DEF Matches
  <2>5. ~Due(key) BY <2>1, NothingDue
  <2>6. Current(object[key], key) BY <2>1, <2>3, <2>4, <2>5 DEF Sound
  <2> QED BY <2>6 DEF Current
<1> QED BY <1>1, CacheInvariance, PTL

\* ActsAsPlainFs: the cached file system implements the plain one.  Every change is
\* one atomic change of the tree, and every read that is not a grep's returns what
\* the tree holds when it returns, from the cache or not.
THEOREM Transparent ==
    ASSUME CleanRestarts
    PROVE  Spec => ActsAsPlainFs
<1>1. Init => Plain!Init
  <2>1. SUFFICES ASSUME Init PROVE Plain!Init OBVIOUS
  <2>2. /\ disk \in Tree /\ disk[<<>>] = Dir
        /\ \A p \in Path \ {<<>>} : disk[p] # Absent => CanHold(disk, p)
        /\ answer = Reply("file", <<>>, Error)
    BY <2>1, MountedAssumption DEF Init
  <2> QED BY <2>2 DEF Plain!Init, Plain!Tree, Tree, Plain!CanHold, CanHold, Plain!Parent, Parent,
                      Plain!Reply, Reply
<1>2. CacheInv /\ [Next]_vars => [Plain!Next]_(Plain!vars)
  <2>1. SUFFICES ASSUME CacheInv, [Next]_vars PROVE [Plain!Next]_(Plain!vars) OBVIOUS
  <2>2. CASE UNCHANGED vars BY <2>2 DEF vars, Plain!vars
  <2>3. CASE Next
    <3>1. Acts BY <2>1, <2>3, StepKeeps
    <3>2. CASE Plain!Change BY <3>2 DEF Plain!Next
    <3>3. CASE disk' = disk /\ answer' = answer BY <3>3 DEF Plain!vars
    <3>4. CASE disk' = disk /\ \E key \in Key : answer' = Reply(key[1], key[2], Content(disk, key))
      <4>1. PICK key \in Key : answer' = Reply(key[1], key[2], Content(disk, key)) BY <3>4
      <4>2. PICK kind \in {"file", "dir"}, p \in Path : kind = key[1] /\ p = key[2] BY DEF Key
      <4>3. Content(disk, key) = Contents(disk, kind, p) BY <4>2 DEF Content
      <4>4. Plain!Contents(disk, kind, p) = Contents(disk, kind, p)
        BY DEF Plain!Contents, Contents, Plain!Listing, Listing, Plain!Children, Children,
               Plain!Parent, Parent
      <4>5. answer' = Plain!Reply(kind, p, Plain!Contents(disk, kind, p))
        BY <4>1, <4>2, <4>3, <4>4 DEF Plain!Reply, Reply
      <4> QED BY <3>4, <4>5 DEF Plain!Read, Plain!Next
    <3> QED BY <3>1, <3>2, <3>3, <3>4 DEF Acts, Faithful
  <2> QED BY <2>1, <2>2, <2>3
<1> QED BY <1>1, <1>2, CacheInvariance, PTL DEF Spec, ActsAsPlainFs, Plain!Spec

=============================================================================
