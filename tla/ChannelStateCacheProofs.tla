---------------------- MODULE ChannelStateCacheProofs ----------------------
(***************************************************************************)
(* Theorems about the retained states of a channel.  For any number of      *)
(* processes, crashes and versions: the lease is held exactly where an      *)
(* installation works under it, and the generations it links grow.  For a   *)
(* process that shares the cache with nobody, wherever it crashes and       *)
(* however often it starts again: the retained states survive its pruning   *)
(* and its eviction.  ChannelStateCache_lost is the run that shows why the  *)
(* latter needs the hypothesis.                                             *)
(***************************************************************************)
EXTENDS ChannelStateCache, CollectionTheorems

-----------------------------------------------------------------------------
(* What is left of a sequence.                                              *)

\* The recursion that Without unfolds.
WithoutStep(seq, S, iter) ==
  [s \in SUBSET (DOMAIN seq) |->
     IF s = {} THEN <<>>
     ELSE IF seq[Max(s)] \in S THEN iter[s \ {Max(s)}]
                               ELSE Append(iter[s \ {Max(s)}], seq[Max(s)])]

\* That recursion is the fold of its definition.
LEMMA WithoutUnfolds ==
  ASSUME NEW seq, NEW S
  PROVE  Without(seq, S) = (CHOOSE iter : iter = WithoutStep(seq, S, iter))[DOMAIN seq]
BY DEF Without, FoldLeft, MapThenFoldSet, WithoutStep

\* What is left when the elements of S go, each as often as it was there.
LEMMA WithoutElements ==
  ASSUME NEW T, NEW seq \in Seq(T), NEW S
  PROVE  /\ Without(seq, S) \in Seq(T) /\ ToSet(Without(seq, S)) = ToSet(seq) \ S
         /\ IsInjective(seq) => IsInjective(Without(seq, S))
<1> DEFINE D == DOMAIN seq
           V == Seq(T)
           c == [s \in SUBSET D |-> Max(s)]
           op == [i \in D |-> [q \in V |-> IF seq[i] \in S THEN q ELSE Append(q, seq[i])]]
           iter == CHOOSE f : f = WithoutStep(seq, S, f)
<1>1. /\ D = 1..Len(seq) /\ Len(seq) \in Nat /\ D \subseteq Nat
      /\ \A i \in D : seq[i] \in T
  OBVIOUS
<1>2. IsFiniteSet(D)
  BY <1>1, FS_Interval
<1>3. ASSUME NEW s \in SUBSET D, s # {}
      PROVE  Max(s) \in s /\ Max(s) \in D /\ s \ {Max(s)} \in SUBSET D
  <2>1. s \in SUBSET Nat /\ IsFiniteSet(s)
    BY <1>1, <1>2, FS_Subset
  <2> QED BY <1>3, <2>1, GreatestElement
<1>4. \A s \in SUBSET D : s # {} => c[s] \in s
  BY <1>3
<1>5. op \in [D -> [V -> V]]
  BY <1>1
<1>6. <<>> \in V
  OBVIOUS
<1>7. \E g : IsFold(g, D, V, <<>>, op, c)
  <2> HIDE DEF D, V, c, op, iter
  <2> QED BY ONLY <1>2, <1>4, <1>5, <1>6, FoldExists
<1>8. PICK g \in [SUBSET D -> V] : \A s \in SUBSET D :
        g[s] = IF s = {} THEN <<>> ELSE op[c[s]][g[s \ {c[s]}]]
  BY <1>7 DEF IsFold
<1>9. ASSUME NEW s \in SUBSET D
      PROVE  g[s] = IF s = {} THEN <<>>
                    ELSE IF seq[Max(s)] \in S THEN g[s \ {Max(s)}]
                         ELSE Append(g[s \ {Max(s)}], seq[Max(s)])
  <2>1. CASE s = {}
    BY <1>8, <2>1
  <2>2. CASE s # {}
    <3>1. c[s] = Max(s) /\ Max(s) \in D /\ g[s \ {Max(s)}] \in V
      BY <1>3, <2>2
    <3>2. g[s] = op[Max(s)][g[s \ {Max(s)}]]
      BY <1>8, <2>2, <3>1
    <3>3. \A i \in D : \A q \in V :
            op[i][q] = IF seq[i] \in S THEN q ELSE Append(q, seq[i])
      OBVIOUS
    <3> HIDE DEF D, V, op, c
    <3> QED BY <2>2, <3>1, <3>2, <3>3
  <2> QED BY <2>1, <2>2
<1>10. g = WithoutStep(seq, S, g)
  <2>1. g = [s \in SUBSET D |-> g[s]]
    BY <1>8
  <2> HIDE DEF V, op, c
  <2> QED BY <1>9, <2>1 DEF WithoutStep
<1>11. iter = WithoutStep(seq, S, iter)
  BY <1>10
<1> HIDE DEF iter
<1>12. \A s \in SUBSET D :
         iter[s] = IF s = {} THEN <<>>
                   ELSE IF seq[Max(s)] \in S THEN iter[s \ {Max(s)}]
                        ELSE Append(iter[s \ {Max(s)}], seq[Max(s)])
  <2> SUFFICES ASSUME NEW s \in SUBSET D
               PROVE  iter[s] = IF s = {} THEN <<>>
                                ELSE IF seq[Max(s)] \in S THEN iter[s \ {Max(s)}]
                                     ELSE Append(iter[s \ {Max(s)}], seq[Max(s)])
    OBVIOUS
  <2>1. iter[s] = WithoutStep(seq, S, iter)[s]
    BY <1>11
  <2> QED BY <2>1 DEF WithoutStep
<1> DEFINE At(s) == {seq[i] : i \in s}
           Good(s) == /\ iter[s] \in Seq(T) /\ ToSet(iter[s]) = At(s) \ S
                      /\ IsInjective(seq) => IsInjective(iter[s])
           B == {n \in Nat : n <= Len(seq) /\ ~Good(1..n)}
<1>13. B = {}
  <2>1. SUFFICES ASSUME B # {} PROVE FALSE
    OBVIOUS
  <2>2. B \in SUBSET Nat
    OBVIOUS
  <2>3. PICK n \in B : \A k \in B : n <= k
    BY <2>1, <2>2, LeastElement
  <2>4. n \in Nat /\ n <= Len(seq) /\ ~Good(1..n)
    BY <2>3
  <2>5. n # 0
    <3>1. 1..0 = {} /\ {} \in SUBSET D /\ At({}) = {}
      OBVIOUS
    <3>2. iter[{}] = <<>>
      BY <1>12, <3>1
    <3>3. Good({})
      BY <3>1, <3>2, ElementsEmpty
    <3> QED BY <2>4, <3>1, <3>3
  <2>6. n - 1 \in Nat /\ n - 1 <= Len(seq) /\ ~(n - 1 \in B) /\ n \in D
    BY <1>1, <2>3, <2>4, <2>5
  <2>7. Good(1..(n - 1))
    BY <2>6
  <2>8. /\ 1..n \in SUBSET D /\ 1..n # {} /\ (1..n) \ {n} = 1..(n - 1) /\ n \in 1..n
        /\ 1..n = (1..(n - 1)) \cup {n} /\ n \notin 1..(n - 1)
    BY <1>1, <2>4, <2>5
  <2>9. Max(1..n) = n
    <3>1. /\ 1..n \in SUBSET Nat /\ 1..n # {}
      BY <2>4, <2>8
    <3>3. IsFiniteSet(1..n)
      BY <2>4, FS_Interval
    <3>2. Max(1..n) \in 1..n /\ n <= Max(1..n)
      BY <2>8, <3>1, <3>3, GreatestElement
    <3> QED BY <2>4, <3>2
  <2> DEFINE q == iter[1..(n - 1)]
  <2>10. iter[1..n] = IF seq[n] \in S THEN q ELSE Append(q, seq[n])
    BY <1>12, <2>8, <2>9
  <2>11. /\ q \in Seq(T) /\ ToSet(q) = At(1..(n - 1)) \ S
         /\ IsInjective(seq) => IsInjective(q)
    BY <2>7
  <2> HIDE DEF q
  <2>12. At(1..n) = At(1..(n - 1)) \cup {seq[n]} /\ seq[n] \in T
    BY <1>1, <2>6, <2>8
  <2>13. IsInjective(seq) => seq[n] \notin At(1..(n - 1))
    BY <1>1, <2>6, <2>8 DEF IsInjective
  <2>14. CASE seq[n] \in S
    BY <2>4, <2>10, <2>11, <2>12, <2>14
  <2>15. CASE seq[n] \notin S
    <3>1. /\ Append(q, seq[n]) \in Seq(T)
          /\ ToSet(Append(q, seq[n])) = ToSet(q) \cup {seq[n]}
          /\ IsInjective(q) /\ seq[n] \notin ToSet(q) => IsInjective(Append(q, seq[n]))
      BY <2>11, <2>12, AppendElements
    <3> QED BY <2>4, <2>10, <2>11, <2>12, <2>13, <2>15, <3>1
  <2> QED BY <2>14, <2>15
<1>14. Good(1..Len(seq)) /\ Without(seq, S) = iter[1..Len(seq)]
  <2>1. Len(seq) \in Nat /\ Len(seq) <= Len(seq) /\ Len(seq) \notin B
    <3>1. Len(seq) <= Len(seq)
      BY <1>1
    <3> QED BY <1>1, <1>13, <3>1
  <2>2. Good(1..Len(seq))
    BY <2>1
  <2> QED BY <1>1, <2>2, WithoutUnfolds DEF iter
<1>15. At(1..Len(seq)) = ToSet(seq)
  BY <1>1 DEF ToSet
<1> QED BY <1>14, <1>15

-----------------------------------------------------------------------------
(* What the processes know of the files.                                    *)

\* Where a process may be, and what it may be listing the generations for.
Places == {"off", "crashed", "readdir", "lstat", "visit", "snapshot", "fetch", "catalog",
           "manifest", "assert", "lock", "revalidate", "link", "unlink", "lstatArtifacts",
           "evict", "ready", "unavailable", "unsafe"}
Purposes == {"read", "number", "prune", "protect"}
\* The versions an origin may serve, the artifacts there may be, and the local variables.
Served == 1..Versions
Files == {"manifest", "catalog"} \X Nat
Fields == DOMAIN NoMemory

\* The files: no artifact is there twice.
FilesTyped ==
  /\ artifacts \in Seq(Files) /\ IsInjective(artifacts)
  /\ IsFiniteSet(DOMAIN gens) /\ DOMAIN gens \in SUBSET (Nat \ {0})
  /\ gens \in [DOMAIN gens -> Served] /\ published \in Served
\* The processes.
ProcessesTyped ==
  /\ pc \in [Processes -> Places] /\ purpose \in [Processes -> Purposes]
  /\ retained \in [Processes -> Served \cup {None}]
  /\ fetched \in [Processes -> Served \cup {None}]
  /\ mem = [p \in Processes |-> mem[p]] /\ \A p \in Processes : DOMAIN mem[p] = Fields

\* An installation works under the lease from its second check to the last unlink.
Critical(p) ==
  \/ pc[p] \in {"revalidate", "link", "unlink"}
  \/ pc[p] \in {"readdir", "lstat", "visit"} /\ purpose[p] \in {"number", "prune"}

\* It has the lease then and only then, knows the manifest it installs, and the number it
\* has found is newer than every generation.
Sound(p) ==
  /\ Critical(p) <=> lease = p
  /\ pc[p] \in {"catalog", "manifest", "assert", "lock"} \/ Critical(p)
       => fetched[p] \in Served
  /\ mem[p].kept \in 0..2
  /\ pc[p] = "snapshot" => retained[p] \in Served
  /\ pc[p] = "lstat" /\ purpose[p] = "number" => mem[p].todo = DOMAIN gens
  /\ pc[p] = "link" => /\ purpose[p] = "number" /\ mem[p].number \in Nat \ {0}
                       /\ \A g \in DOMAIN gens : g < mem[p].number

\* The invariant of any number of processes.
CacheInv == /\ FilesTyped /\ ProcessesTyped /\ \A p \in Processes : Sound(p)
            /\ lease \in Processes \cup {None, "abandoned"}

-----------------------------------------------------------------------------
(* Every step keeps it.                                                     *)

\* A step of p: the others stay where they are and know what they knew.
Moved(p) ==
  /\ pc' = [pc EXCEPT ![p] = pc'[p]] /\ purpose' = [purpose EXCEPT ![p] = purpose'[p]]
  /\ retained' = [retained EXCEPT ![p] = retained'[p]]
  /\ fetched' = [fetched EXCEPT ![p] = fetched'[p]]
  /\ mem' = [q \in Processes |-> mem'[q]] /\ \A q \in Processes : DOMAIN mem'[q] = Fields
  /\ \A q \in Processes \ {p} : /\ mem'[q].todo = mem[q].todo
                               /\ mem'[q].number = mem[q].number
                               /\ mem'[q].kept = mem[q].kept

\* The lease is taken when it is free, given up by its holder, or reclaimed.
LeaseMoves(p) ==
  \/ lease' = lease
  \/ lease = None /\ lease' = p
  \/ lease \in {p, "abandoned"} /\ lease' \in {None, "abandoned"}

\* Only the holder of the lease changes the generations, so a step of p is sound for all
\* if it is for p.
LEMMA MovedKeeps ==
  ASSUME CacheInv, NEW p \in Processes, Moved(p), LeaseMoves(p), FilesTyped', Sound(p)',
         gens' = gens \/ lease = p,
         pc'[p] \in Places, purpose'[p] \in Purposes,
         retained'[p] \in Served \cup {None}, fetched'[p] \in Served \cup {None}
  PROVE  CacheInv'
<1>1. ProcessesTyped /\ \A q \in Processes : Sound(q)
  BY DEF CacheInv
<1>2. ProcessesTyped'
  <2>1. pc' \in [Processes -> Places]
    BY <1>1 DEF ProcessesTyped, Moved
  <2>2. purpose' \in [Processes -> Purposes]
    BY <1>1 DEF ProcessesTyped, Moved
  <2>3. retained' \in [Processes -> Served \cup {None}]
    BY <1>1 DEF ProcessesTyped, Moved
  <2>4. fetched' \in [Processes -> Served \cup {None}]
    BY <1>1 DEF ProcessesTyped, Moved
  <2> QED BY <2>1, <2>2, <2>3, <2>4 DEF ProcessesTyped, Moved
<1>3. ASSUME NEW q \in Processes, q # p PROVE Sound(q)'
  <2>1. /\ pc'[q] = pc[q] /\ purpose'[q] = purpose[q] /\ retained'[q] = retained[q]
        /\ fetched'[q] = fetched[q] /\ mem'[q].todo = mem[q].todo
        /\ mem'[q].number = mem[q].number /\ mem'[q].kept = mem[q].kept
    BY <1>1, <1>3 DEF ProcessesTyped, Moved
  <2>2. (lease' = q <=> lease = q) /\ (lease = q => gens' = gens)
    BY <1>3, CacheAssumption DEF LeaseMoves
  <2>3. (Critical(q)' <=> Critical(q)) /\ (Critical(q) <=> lease = q)
    BY <1>1, <2>1 DEF Critical, Sound
  <2>4. pc[q] = "lstat" /\ purpose[q] = "number" => Critical(q)
    BY DEF Critical
  <2>5. pc[q] = "link" => Critical(q)
    BY DEF Critical
  <2> QED BY <1>1, <2>1, <2>2, <2>3, <2>4, <2>5 DEF Sound
<1>4. lease' \in Processes \cup {None, "abandoned"}
  BY DEF CacheInv, LeaseMoves
<1> QED BY <1>2, <1>3, <1>4 DEF CacheInv

\* What the processes read and install are files.
LEMMA ArtifactsTyped ==
  ASSUME FilesTyped, NEW v \in Served
  PROVE  /\ ReadBoth(v) \in Seq(Files) /\ IsInjective(ReadBoth(v))
         /\ ToSet(ReadBoth(v)) = Present
         /\ \A a \in {Manifest(v), Catalog(v)} :
              /\ Installed(a) \in Seq(Files) /\ IsInjective(Installed(a))
              /\ ToSet(Installed(a)) = Present \cup {a}
<1>1. v \in Nat /\ References(v) \subseteq Files
  BY CacheAssumption DEF Served, References, Manifest, Catalog, Files
<1> DEFINE both == <<Manifest(v), Catalog(v)>>
<1>2. both \in Seq(Files) /\ ToSet(both) = References(v) /\ IsInjective(both)
  <2>1. /\ Manifest(v) \in Files /\ Catalog(v) \in Files /\ Manifest(v) # Catalog(v)
    BY <1>1 DEF References, Manifest, Catalog
  <2> HIDE DEF Manifest, Catalog
  <2>2. /\ both \in Seq(Files) /\ DOMAIN both = {1, 2}
        /\ both[1] = Manifest(v) /\ both[2] = Catalog(v)
    BY <2>1
  <2> QED BY <2>1, <2>2 DEF ToSet, IsInjective, References
<1> HIDE DEF both
<1> DEFINE rest == Without(artifacts, References(v))
           back == Without(both, References(v) \ Present)
<1>3. /\ rest \in Seq(Files) /\ ToSet(rest) = Present \ References(v) /\ IsInjective(rest)
  BY WithoutElements DEF FilesTyped, Present
<1>4. /\ back \in Seq(Files) /\ IsInjective(back)
      /\ ToSet(back) = References(v) \ (References(v) \ Present)
  BY <1>2, WithoutElements
<1>5. ReadBoth(v) = rest \o back
  BY DEF ReadBoth, both
<1> HIDE DEF rest, back
<1>6. /\ ReadBoth(v) \in Seq(Files) /\ IsInjective(ReadBoth(v))
      /\ ToSet(ReadBoth(v)) = ToSet(rest) \cup ToSet(back)
  <2>1. ToSet(rest) \cap ToSet(back) = {}
    BY <1>3, <1>4
  <2> QED BY <1>3, <1>4, <1>5, <2>1, ConcatElements
<1>7. ASSUME NEW a \in {Manifest(v), Catalog(v)}
      PROVE  /\ Installed(a) \in Seq(Files) /\ IsInjective(Installed(a))
             /\ ToSet(Installed(a)) = Present \cup {a}
  <2> DEFINE others == Without(artifacts, {a})
  <2>1. /\ others \in Seq(Files) /\ ToSet(others) = Present \ {a} /\ IsInjective(others)
    BY WithoutElements DEF FilesTyped, Present
  <2>2. a \in Files
    BY <1>1 DEF References
  <2>3. Installed(a) = Append(others, a)
    BY DEF Installed
  <2> HIDE DEF others
  <2>4. a \notin ToSet(others)
    BY <2>1
  <2> QED BY <2>1, <2>2, <2>3, <2>4, AppendElements
<1> QED BY <1>3, <1>4, <1>6, <1>7

\* How the local variables of p change.
LEMMA MemoryChanges ==
  ASSUME ProcessesTyped, NEW p \in Processes, NEW m, DOMAIN m = Fields,
         mem' = [mem EXCEPT ![p] = m]
  PROVE  /\ mem' = [q \in Processes |-> mem'[q]]
         /\ \A q \in Processes : DOMAIN mem'[q] = Fields
         /\ mem'[p] = m
         /\ \A q \in Processes \ {p} : /\ mem'[q].todo = mem[q].todo
                                      /\ mem'[q].number = mem[q].number
                                      /\ mem'[q].kept = mem[q].kept
BY DEF ProcessesTyped

\* The files stay as they are, but for the order of the artifacts.
LEMMA FilesStay ==
  ASSUME FilesTyped, UNCHANGED <<gens, published>>,
         artifacts' = artifacts \/ \E v \in Served : artifacts' = ReadBoth(v)
  PROVE  FilesTyped' /\ Present' = Present
BY ArtifactsTyped DEF FilesTyped, Present

\* The end of an initialization.
LEMMA EndKeeps ==
  ASSUME CacheInv, NEW p \in Processes, NEW from, NEW how \in Ended, End(p, from, how),
         FilesTyped'
  PROVE  CacheInv'
<1>1. ProcessesTyped
  BY DEF CacheInv
<1>2. /\ pc' = [pc EXCEPT ![p] = how] /\ mem' = [mem EXCEPT ![p] = NoMemory]
      /\ retained' = [retained EXCEPT ![p] = None] /\ fetched' = [fetched EXCEPT ![p] = None]
      /\ lease' = (IF lease = p THEN None ELSE lease)
      /\ purpose' = purpose /\ gens' = gens
  BY DEF End, Goto, Released
<1>3. Moved(p)
  <2>1. DOMAIN NoMemory = Fields
    BY DEF Fields
  <2> QED BY <1>1, <1>2, <2>1, MemoryChanges DEF ProcessesTyped, Moved
<1>4. /\ pc'[p] = how /\ purpose'[p] \in Purposes /\ retained'[p] = None
      /\ fetched'[p] = None
  BY <1>1, <1>2 DEF ProcessesTyped
<1>5. LeaseMoves(p)
  BY <1>2 DEF LeaseMoves
<1>6. Sound(p)'
  <2>1. lease' # p /\ mem'[p].kept = 0
    BY <1>1, <1>2, CacheAssumption DEF ProcessesTyped, NoMemory
  <2> QED BY <1>4, <2>1 DEF Sound, Critical, Ended
<1>7. how \in Places
  BY DEF Ended, Places
<1> QED BY <1>2, <1>3, <1>4, <1>5, <1>6, <1>7, MovedKeeps

\* A step that changes nothing but where p is, what it lists for and its own variables.
LEMMA GotoKeeps ==
  ASSUME CacheInv, NEW p \in Processes, NEW to \in Places, pc' = [pc EXCEPT ![p] = to],
         NEW why \in Purposes, purpose' = [purpose EXCEPT ![p] = why],
         NEW m, DOMAIN m = Fields, mem' = [mem EXCEPT ![p] = m],
         UNCHANGED <<retained, fetched, gens>>, LeaseMoves(p), FilesTyped', Sound(p)'
  PROVE  CacheInv'
<1>1. ProcessesTyped
  BY DEF CacheInv
<1>2. Moved(p) /\ pc'[p] = to /\ purpose'[p] = why
  BY <1>1, MemoryChanges DEF ProcessesTyped, Moved
<1>3. retained'[p] \in Served \cup {None} /\ fetched'[p] \in Served \cup {None}
  BY <1>1 DEF ProcessesTyped
<1> QED BY <1>2, <1>3, MovedKeeps

\* What p is, lists for and remembers is typed.
LEMMA SelfTyped ==
  ASSUME CacheInv, NEW p \in Processes
  PROVE  /\ pc[p] \in Places /\ purpose[p] \in Purposes /\ DOMAIN mem[p] = Fields
         /\ pc = [pc EXCEPT ![p] = pc[p]] /\ purpose = [purpose EXCEPT ![p] = purpose[p]]
         /\ mem = [mem EXCEPT ![p] = mem[p]]
         /\ Fields = {"todo", "number", "kept", "doomed", "guarded", "names", "victims",
                      "excess", "changed"}
         /\ Sound(p) /\ FilesTyped /\ ProcessesTyped
BY DEF CacheInv, ProcessesTyped, Fields, NoMemory

\* What is known of p.
LEMMA SelfSound ==
  ASSUME CacheInv, NEW p \in Processes
  PROVE  /\ Critical(p) <=> lease = p
         /\ mem[p].kept \in 0..2
         /\ Critical(p) => fetched[p] \in Served
         /\ pc[p] \in {"catalog", "manifest", "assert", "lock"} => fetched[p] \in Served
         /\ pc[p] = "lstat" /\ purpose[p] = "number" => mem[p].todo = DOMAIN gens
         /\ pc[p] = "snapshot" => retained[p] \in Served
BY DEF CacheInv, Sound

\* The steps of readLastKnownGoodChannelState and of every other listing.
LEMMA RetainKeeps ==
  ASSUME CacheInv, NEW p \in Processes, Retain(p) PROVE CacheInv'
<1>1. CASE ReadDirectory(p)
  <2>1. /\ pc[p] = "readdir" /\ pc' = [pc EXCEPT ![p] = "lstat"]
        /\ mem' = [mem EXCEPT ![p] = [mem[p] EXCEPT !.todo = DOMAIN gens]]
        /\ UNCHANGED <<purpose, retained, fetched, artifacts, gens, lease, published>>
    BY <1>1 DEF ReadDirectory, Goto, files, run
  <2>2. pc'[p] = "lstat" /\ mem'[p].todo = DOMAIN gens
    BY <2>1, SelfTyped DEF ProcessesTyped
  <2>3. Sound(p)'
    <3>1. mem'[p].kept = mem[p].kept
      BY <2>1, SelfTyped DEF ProcessesTyped
    <3> QED BY <2>1, <2>2, <3>1, SelfSound DEF Sound, Critical
  <2>4. FilesTyped' /\ LeaseMoves(p) /\ "lstat" \in Places
    BY <2>1, SelfTyped, FilesStay DEF LeaseMoves, Places
  <2>5. DOMAIN [mem[p] EXCEPT !.todo = DOMAIN gens] = Fields
    BY SelfTyped
  <2>6. purpose' = [purpose EXCEPT ![p] = purpose[p]] /\ purpose[p] \in Purposes
    BY <2>1, SelfTyped
  <2> QED BY <2>1, <2>3, <2>4, <2>5, <2>6, GotoKeeps
<1>2. CASE StatEntries(p)
  <2> DEFINE n == Max(mem[p].todo \cup {0}) + 1
             to == IF purpose[p] = "number" THEN "link" ELSE "visit"
  <2>1. /\ pc[p] = "lstat" /\ pc' = [pc EXCEPT ![p] = to]
        /\ mem' = [mem EXCEPT ![p] = [mem[p] EXCEPT !.number = n]]
        /\ UNCHANGED <<purpose, retained, fetched, artifacts, gens, lease, published>>
    BY <1>2 DEF StatEntries, Goto, files, run
  <2>2. /\ pc'[p] = to /\ mem'[p].number = n /\ purpose'[p] = purpose[p]
        /\ fetched'[p] = fetched[p]
    BY <2>1, SelfTyped DEF ProcessesTyped
  <2>3. purpose[p] = "number" => n \in Nat \ {0} /\ \A g \in DOMAIN gens : g < n
    <3> SUFFICES ASSUME purpose[p] = "number"
                 PROVE  n \in Nat \ {0} /\ \A g \in DOMAIN gens : g < n
      OBVIOUS
    <3>1. mem[p].todo = DOMAIN gens
      BY <2>1, SelfTyped DEF Sound
    <3>2. /\ DOMAIN gens \cup {0} \in SUBSET Nat /\ IsFiniteSet(DOMAIN gens \cup {0})
          /\ DOMAIN gens \cup {0} # {}
      BY SelfTyped, FS_AddElement DEF FilesTyped
    <3>3. /\ Max(DOMAIN gens \cup {0}) \in Nat
          /\ \A g \in DOMAIN gens : g <= Max(DOMAIN gens \cup {0}) /\ g \in Nat
      BY <3>2, GreatestElement
    <3>4. n = Max(DOMAIN gens \cup {0}) + 1
      BY <3>1
    <3> HIDE DEF n
    <3> QED BY <3>3, <3>4
  <2> HIDE DEF n
  <2>4. Sound(p)'
    <3>1. mem'[p].kept = mem[p].kept /\ lease' = lease
      BY <2>1, SelfTyped DEF ProcessesTyped
    <3>2. Critical(p)' <=> Critical(p)
      BY <2>1, <2>2 DEF Critical
    <3> QED BY <2>1, <2>2, <2>3, <3>1, <3>2, SelfSound DEF Sound
  <2>5. FilesTyped' /\ LeaseMoves(p) /\ to \in Places
    BY <2>1, SelfTyped, FilesStay DEF LeaseMoves, Places
  <2>6. DOMAIN [mem[p] EXCEPT !.number = n] = Fields
    BY SelfTyped
  <2>7. purpose' = [purpose EXCEPT ![p] = purpose[p]] /\ purpose[p] \in Purposes
    BY <2>1, SelfTyped
  <2> HIDE DEF to
  <2> QED BY <2>1, <2>4, <2>5, <2>6, <2>7, GotoKeeps
<1>3. CASE StatEntryMissing(p)
  <2>1. FilesTyped'
    BY <1>3, SelfTyped, FilesStay DEF StatEntryMissing, End
  <2> QED BY <1>3, <2>1, EndKeeps DEF StatEntryMissing, Ended
<1>4. ASSUME NEW g \in mem[p].todo, ReadState(p, g) PROVE CacheInv'
  <2>1. /\ pc[p] = "visit" /\ purpose[p] = "read" /\ purpose' = purpose /\ fetched' = fetched
        /\ gens' = gens /\ lease' = lease /\ published' = published
        /\ artifacts' = IF g \in DOMAIN gens THEN ReadBoth(gens[g]) ELSE artifacts
    BY <1>4 DEF ReadState, Visiting, VisitReads, run
  <2>2. FilesTyped'
    <3>1. g \in DOMAIN gens => gens[g] \in Served
      BY SelfTyped DEF FilesTyped
    <3> QED BY <2>1, <3>1, SelfTyped, FilesStay
  <2>3. LeaseMoves(p)
    BY <2>1 DEF LeaseMoves
  <2>4. CASE Complete(g)
    <3>1. /\ pc' = [pc EXCEPT ![p] = "snapshot"] /\ mem' = [mem EXCEPT ![p] = NoMemory]
          /\ retained' = [retained EXCEPT ![p] = gens[g]] /\ gens[g] \in Served
      BY <1>4, <2>4, SelfTyped DEF ReadState, Complete, FilesTyped
    <3>2. DOMAIN NoMemory = Fields
      BY DEF Fields
    <3>3. Moved(p) /\ pc'[p] = "snapshot" /\ retained'[p] = gens[g]
      BY <2>1, <3>1, <3>2, SelfTyped, MemoryChanges DEF ProcessesTyped, Moved
    <3>4. Sound(p)'
      <4>1. mem'[p].kept = 0 /\ lease' # p
        BY <2>1, <3>1, SelfSound, SelfTyped DEF ProcessesTyped, Critical, NoMemory
      <4> QED BY <3>1, <3>3, <4>1 DEF Sound, Critical
    <3>5. /\ "snapshot" \in Places /\ purpose'[p] \in Purposes
          /\ fetched'[p] \in Served \cup {None}
      BY <2>1, SelfTyped DEF Places, ProcessesTyped
    <3> QED BY <2>1, <2>2, <2>3, <3>1, <3>3, <3>4, <3>5, MovedKeeps
  <2>5. CASE ~Complete(g)
    <3> DEFINE m == [mem[p] EXCEPT !.todo = @ \ {g}]
    <3>1. mem' = [mem EXCEPT ![p] = m] /\ pc' = pc /\ retained' = retained
      BY <1>4, <2>5 DEF ReadState
    <3>2. DOMAIN m = Fields
      BY SelfTyped
    <3>3. Sound(p)'
      <4>1. mem'[p].kept = mem[p].kept
        BY <3>1, SelfTyped DEF ProcessesTyped
      <4> QED BY <2>1, <3>1, <4>1, SelfSound DEF Sound, Critical
    <3> HIDE DEF m
    <3>4. "visit" \in Places /\ pc' = [pc EXCEPT ![p] = "visit"]
          /\ purpose' = [purpose EXCEPT ![p] = "read"] /\ "read" \in Purposes
      BY <2>1, <3>1, SelfTyped DEF Purposes
    <3> QED BY <2>1, <2>2, <2>3, <3>1, <3>2, <3>3, <3>4, GotoKeeps
  <2> QED BY <2>4, <2>5
<1>5. ASSUME NEW g \in mem[p].todo, VisitToPrune(p, g) \/ Protect(p, g) PROVE CacheInv'
  <2>1. /\ pc[p] = "visit" /\ purpose[p] \in {"prune", "protect"}
        /\ UNCHANGED <<pc, purpose, retained, fetched, gens, lease, published>>
        /\ \/ artifacts' = IF g \in DOMAIN gens THEN ReadBoth(gens[g]) ELSE artifacts
           \/ artifacts' = artifacts
    BY <1>5 DEF VisitToPrune, Protect, Visiting, VisitReads, run, files
  <2>2. FilesTyped'
    <3>1. g \in DOMAIN gens => gens[g] \in Served
      BY SelfTyped DEF FilesTyped
    <3> QED BY <2>1, <3>1, SelfTyped, FilesStay
  <2>3. \E m : DOMAIN m = Fields /\ m.kept \in 0..2 /\ mem' = [mem EXCEPT ![p] = m]
    <3>1. CASE VisitToPrune(p, g)
      <4> DEFINE keep == Retains(g, mem[p].kept)
                 m == [mem[p] EXCEPT !.todo = @ \ {g}, !.kept = IF keep THEN @ + 1 ELSE @,
                                     !.doomed = IF keep THEN @ ELSE @ \cup {g}]
      <4>1. mem' = [mem EXCEPT ![p] = m]
        BY <3>1 DEF VisitToPrune
      <4>2. DOMAIN m = Fields
        BY SelfTyped
      <4>3. m.kept = IF keep THEN mem[p].kept + 1 ELSE mem[p].kept
        BY SelfTyped
      <4>4. mem[p].kept \in 0..2 /\ (keep => mem[p].kept < 2)
        BY SelfSound DEF Retains
      <4> HIDE DEF m, keep
      <4>5. m.kept \in 0..2
        BY <4>3, <4>4
      <4> QED BY <4>1, <4>2, <4>5
    <3>2. CASE Protect(p, g)
      <4> DEFINE m == [mem[p] EXCEPT !.todo = @ \ {g}, !.guarded = @ \cup Guarded(g)]
      <4>1. mem' = [mem EXCEPT ![p] = m]
        BY <3>2 DEF Protect
      <4>2. DOMAIN m = Fields /\ m.kept \in 0..2
        BY SelfTyped, SelfSound
      <4> HIDE DEF m
      <4> QED BY <4>1, <4>2
    <3> QED BY <1>5, <3>1, <3>2
  <2>4. Sound(p)'
    <3>1. mem'[p].kept \in 0..2
      BY <2>3, SelfTyped DEF ProcessesTyped
    <3> QED BY <2>1, <3>1, SelfSound DEF Sound, Critical
  <2>5. LeaseMoves(p)
    BY <2>1 DEF LeaseMoves
  <2>6. /\ pc' = [pc EXCEPT ![p] = pc[p]] /\ purpose' = [purpose EXCEPT ![p] = purpose[p]]
        /\ pc[p] \in Places /\ purpose[p] \in Purposes
    BY <2>1, SelfTyped
  <2> QED BY <2>1, <2>2, <2>3, <2>4, <2>5, <2>6, GotoKeeps
<1>6. CASE NoState(p)
  <2>1. /\ pc[p] = "visit" /\ purpose[p] = "read" /\ pc' = [pc EXCEPT ![p] = "fetch"]
        /\ UNCHANGED <<purpose, mem, retained, fetched, artifacts, gens, lease, published>>
    BY <1>6 DEF NoState, VisitsDone, Goto, files, run
  <2>2. pc'[p] = "fetch"
    BY <2>1, SelfTyped DEF ProcessesTyped
  <2>3. Sound(p)' /\ LeaseMoves(p) /\ "fetch" \in Places
    BY <2>1, <2>2, SelfSound DEF Sound, Critical, LeaseMoves, Places
  <2>4. FilesTyped'
    BY <2>1, SelfTyped, FilesStay
  <2>5. /\ purpose' = [purpose EXCEPT ![p] = purpose[p]] /\ purpose[p] \in Purposes
        /\ mem' = [mem EXCEPT ![p] = mem[p]] /\ DOMAIN mem[p] = Fields
    BY <2>1, SelfTyped
  <2> QED BY <2>1, <2>3, <2>4, <2>5, GotoKeeps
<1>7. CASE ReadSnapshot(p)
  <2>1. /\ pc[p] = "snapshot" /\ pc' = [pc EXCEPT ![p] = "fetch"]
        /\ artifacts' = ReadBoth(retained[p])
        /\ retained' = [retained EXCEPT ![p] = IF References(@) \subseteq Present THEN @ ELSE None]
        /\ UNCHANGED <<purpose, mem, fetched, gens, lease, published>>
    BY <1>7 DEF ReadSnapshot, Goto, run
  <2>2. FilesTyped'
    BY <2>1, SelfTyped, FilesStay DEF Sound
  <2>3. Moved(p) /\ pc'[p] = "fetch" /\ retained'[p] \in Served \cup {None}
        /\ purpose'[p] \in Purposes /\ fetched'[p] \in Served \cup {None}
    BY <2>1, SelfTyped DEF ProcessesTyped, Moved
  <2>4. Sound(p)' /\ LeaseMoves(p) /\ "fetch" \in Places
    BY <2>1, <2>3, SelfSound DEF Sound, Critical, LeaseMoves, Places
  <2> QED BY <2>1, <2>2, <2>3, <2>4, MovedKeeps
<1> QED BY <1>1, <1>2, <1>3, <1>4, <1>5, <1>6, <1>7 DEF Retain

\* A step that does nothing but installing an artifact leaves files.
LEMMA InstallTyped ==
  ASSUME FilesTyped, NEW v \in Served, NEW a \in {Manifest(v), Catalog(v)},
         artifacts' = Installed(a), UNCHANGED <<gens, published>>
  PROVE  FilesTyped' /\ Present' = Present \cup {a}
<1>1. artifacts' \in Seq(Files) /\ IsInjective(artifacts') /\ ToSet(artifacts') = Present \cup {a}
  BY ArtifactsTyped
<1> QED BY <1>1 DEF FilesTyped, Present

\* The steps of initializeCatalogSnapshot and of createFreshCatalogSnapshot.
LEMMA RefreshKeeps ==
  ASSUME CacheInv, NEW p \in Processes, Refresh(p) PROVE CacheInv'
<1>1. CASE NotModified(p) \/ OriginUnavailable(p) \/ OriginRefuses(p) \/ CatalogUnavailable(p)
  <2>1. /\ artifacts' = artifacts /\ published' = published /\ gens' = gens
        /\ \E from : \E how \in Ended : End(p, from, how)
    BY <1>1 DEF NotModified, OriginUnavailable, OriginRefuses, CatalogUnavailable, FallBack,
                End, Ended
  <2>2. FilesTyped'
    BY <2>1, SelfTyped, FilesStay
  <2> QED BY <2>1, <2>2, EndKeeps
<1>2. CASE Fetched(p)
  <2>1. PICK v \in published..Versions :
             published' = v /\ fetched' = [fetched EXCEPT ![p] = v]
    BY <1>2 DEF Fetched
  <2>2. /\ pc[p] = "fetch" /\ pc' = [pc EXCEPT ![p] = "catalog"]
        /\ UNCHANGED <<purpose, mem, retained, artifacts, gens, lease>>
    BY <1>2 DEF Fetched, Goto, files
  <2>3. v \in Served
    BY SelfTyped, CacheAssumption DEF FilesTyped, Served
  <2>4. FilesTyped'
    BY <2>1, <2>2, <2>3, SelfTyped DEF FilesTyped
  <2>5. Moved(p) /\ pc'[p] = "catalog" /\ retained'[p] \in Served \cup {None}
        /\ purpose'[p] \in Purposes /\ fetched'[p] = v
    BY <2>1, <2>2, SelfTyped DEF ProcessesTyped, Moved
  <2>6. Sound(p)' /\ LeaseMoves(p) /\ "catalog" \in Places
    BY <2>2, <2>3, <2>5, SelfSound DEF Sound, Critical, LeaseMoves, Places
  <2> QED BY <2>2, <2>3, <2>4, <2>5, <2>6, MovedKeeps
<1>3. CASE InstallCatalog(p) \/ InstallManifest(p)
  <2>1. /\ pc[p] \in {"catalog", "manifest"}
        /\ UNCHANGED <<purpose, mem, retained, fetched, gens, lease, published>>
    BY <1>3 DEF InstallCatalog, InstallManifest, Goto, run
  <2>2. fetched[p] \in Served
    BY <2>1, SelfTyped DEF Sound
  <2>3. PICK to \in {"manifest", "assert"} : pc' = [pc EXCEPT ![p] = to]
    BY <1>3 DEF InstallCatalog, InstallManifest, Goto
  <2>4. FilesTyped'
    BY <1>3, <2>1, <2>2, SelfTyped, InstallTyped DEF InstallCatalog, InstallManifest
  <2>5. Sound(p)' /\ LeaseMoves(p) /\ to \in Places
    <3>1. pc'[p] = to /\ fetched'[p] \in Served
      BY <2>1, <2>2, <2>3, SelfTyped DEF ProcessesTyped
    <3> QED BY <2>1, <3>1, SelfSound DEF Sound, Critical, LeaseMoves, Places
  <2>6. /\ purpose' = [purpose EXCEPT ![p] = purpose[p]] /\ purpose[p] \in Purposes
        /\ mem' = [mem EXCEPT ![p] = mem[p]] /\ DOMAIN mem[p] = Fields
    BY <2>1, SelfTyped
  <2> QED BY <2>1, <2>3, <2>4, <2>5, <2>6, GotoKeeps
<1> QED BY <1>1, <1>2, <1>3 DEF Refresh

\* The number that the holder of the lease has found is greater than every other, so the
\* state is retained under it.
LEMMA LinkAppends ==
  ASSUME CacheInv, NEW p \in Processes, LinkGeneration(p)
  PROVE  /\ lease = p /\ fetched[p] \in Served
         /\ mem[p].number \in Nat \ {0} /\ \A g \in DOMAIN gens : g < mem[p].number
         /\ gens' = [g \in DOMAIN gens \cup {mem[p].number} |->
                       IF g = mem[p].number THEN fetched[p] ELSE gens[g]]
         /\ mem' = [mem EXCEPT ![p] = NoMemory]
         /\ purpose' = [purpose EXCEPT ![p] = "prune"]
<1>1. pc[p] = "link"
  BY DEF LinkGeneration, Goto
<1>2. /\ lease = p /\ fetched[p] \in Served
      /\ mem[p].number \in Nat \ {0} /\ \A g \in DOMAIN gens : g < mem[p].number
  BY <1>1, SelfTyped DEF Sound, Critical
<1>3. mem[p].number \notin DOMAIN gens
  <2> SUFFICES ASSUME mem[p].number \in DOMAIN gens PROVE FALSE
    OBVIOUS
  <2>1. mem[p].number < mem[p].number
    BY <1>2
  <2> QED BY <1>2, <2>1
<1> QED BY <1>2, <1>3 DEF LinkGeneration, List

\* The steps of installLastKnownGoodChannelState and of pruneChannelStateGenerations.
LEMMA PublishKeeps ==
  ASSUME CacheInv, NEW p \in Processes, Publish(p) PROVE CacheInv'
<1>1. CASE Validate(p) \/ Revalidate(p)
  <2>1. /\ pc[p] \in {"assert", "revalidate"} /\ artifacts' = ReadBoth(fetched[p])
        /\ UNCHANGED <<mem, retained, fetched, gens, lease, published>>
    BY <1>1 DEF Validate, Revalidate, AssertPresent, Goto, run
  <2>2. fetched[p] \in Served
    BY <2>1, SelfSound DEF Critical
  <2>3. FilesTyped'
    BY <2>1, <2>2, SelfTyped, FilesStay
  <2>4. /\ mem' = [mem EXCEPT ![p] = mem[p]] /\ DOMAIN mem[p] = Fields /\ LeaseMoves(p)
    BY <2>1, SelfTyped DEF LeaseMoves
  <2>5. CASE Validate(p)
    <3>1. pc[p] = "assert" /\ pc' = [pc EXCEPT ![p] = "lock"] /\ purpose' = purpose
      BY <2>5 DEF Validate, AssertPresent, Goto
    <3>4. pc'[p] = "lock" /\ "lock" \in Places
      BY <3>1, SelfTyped DEF ProcessesTyped, Places
    <3>2. Sound(p)'
      BY <2>1, <2>2, <3>1, <3>4, SelfSound DEF Sound, Critical
    <3>3. purpose' = [purpose EXCEPT ![p] = purpose[p]] /\ purpose[p] \in Purposes
      BY <3>1, SelfTyped
    <3> QED BY <2>1, <2>3, <2>4, <3>1, <3>2, <3>3, <3>4, GotoKeeps
  <2>6. CASE Revalidate(p)
    <3>1. /\ pc[p] = "revalidate" /\ pc' = [pc EXCEPT ![p] = "readdir"]
          /\ purpose' = [purpose EXCEPT ![p] = "number"]
      BY <2>6 DEF Revalidate, AssertPresent, Goto, List
    <3>2. lease = p
      BY <3>1, SelfTyped DEF Sound, Critical
    <3>3. /\ pc'[p] = "readdir" /\ purpose'[p] = "number"
          /\ "readdir" \in Places /\ "number" \in Purposes
      BY <3>1, SelfTyped DEF ProcessesTyped, Places, Purposes
    <3>4. Sound(p)'
      BY <2>1, <2>2, <3>2, <3>3, SelfSound DEF Sound, Critical
    <3> QED BY <2>1, <2>3, <2>4, <3>1, <3>3, <3>4, GotoKeeps
  <2> QED BY <1>1, <2>5, <2>6
<1>2. CASE AssertFails(p)
  <2>1. PICK from \in {"assert", "revalidate"} : End(p, from, "unavailable")
    BY <1>2 DEF AssertFails
  <2>2. fetched[p] \in Served
    BY <2>1, SelfSound DEF Critical, End, Goto
  <2>3. FilesTyped'
    BY <1>2, <2>1, <2>2, SelfTyped, FilesStay DEF AssertFails, End
  <2> QED BY <2>1, <2>3, EndKeeps DEF Ended
<1>3. CASE AcquireLease(p)
  <2>1. /\ pc[p] = "lock" /\ pc' = [pc EXCEPT ![p] = "revalidate"] /\ lease = None /\ lease' = p
        /\ UNCHANGED <<purpose, mem, retained, fetched, artifacts, gens, published>>
    BY <1>3 DEF AcquireLease, Goto, run
  <2>2. FilesTyped' /\ LeaseMoves(p) /\ "revalidate" \in Places
    BY <2>1, SelfTyped, FilesStay DEF LeaseMoves, Places
  <2>3. Sound(p)'
    <3>1. pc'[p] = "revalidate" /\ fetched[p] \in Served
      BY <2>1, SelfTyped, SelfSound DEF ProcessesTyped
    <3> QED BY <2>1, <3>1, SelfSound DEF Sound, Critical
  <2>4. /\ purpose' = [purpose EXCEPT ![p] = purpose[p]] /\ purpose[p] \in Purposes
        /\ mem' = [mem EXCEPT ![p] = mem[p]] /\ DOMAIN mem[p] = Fields
    BY <2>1, SelfTyped
  <2> QED BY <2>1, <2>2, <2>3, <2>4, GotoKeeps
<1>4. CASE LinkGeneration(p)
  <2>1. /\ pc' = [pc EXCEPT ![p] = "readdir"] /\ lease = p /\ lease' = lease
        /\ UNCHANGED <<retained, fetched, artifacts, published>>
        /\ mem' = [mem EXCEPT ![p] = NoMemory] /\ purpose' = [purpose EXCEPT ![p] = "prune"]
    BY <1>4, LinkAppends DEF LinkGeneration, Goto, run
  <2>2. FilesTyped'
    <3> DEFINE n == mem[p].number
    <3>1. /\ n \in Nat \ {0} /\ fetched[p] \in Served
          /\ gens' = [g \in DOMAIN gens \cup {n} |-> IF g = n THEN fetched[p] ELSE gens[g]]
      BY <1>4, LinkAppends
    <3> HIDE DEF n
    <3>2. DOMAIN gens' = DOMAIN gens \cup {n}
      BY <3>1
    <3>3. IsFiniteSet(DOMAIN gens') /\ DOMAIN gens' \in SUBSET (Nat \ {0})
      BY <3>1, <3>2, SelfTyped, FS_AddElement DEF FilesTyped
    <3>4. gens' \in [DOMAIN gens' -> Served]
      BY <3>1, <3>2, SelfTyped DEF FilesTyped
    <3> QED BY <2>1, <3>3, <3>4, SelfTyped DEF FilesTyped
  <2>3. DOMAIN NoMemory = Fields
    BY DEF Fields
  <2>4. Moved(p) /\ pc'[p] = "readdir" /\ purpose'[p] = "prune"
    BY <2>1, <2>3, SelfTyped, MemoryChanges DEF ProcessesTyped, Moved
  <2>5. /\ retained'[p] \in Served \cup {None} /\ fetched'[p] \in Served \cup {None}
        /\ "readdir" \in Places /\ "prune" \in Purposes
    BY <2>1, SelfTyped DEF ProcessesTyped, Places, Purposes
  <2>6. Sound(p)' /\ LeaseMoves(p)
    <3>1. mem'[p].kept = 0 /\ fetched[p] \in Served
      BY <1>4, <2>1, LinkAppends, SelfTyped DEF ProcessesTyped, NoMemory
    <3> QED BY <2>1, <2>4, <3>1 DEF Sound, Critical, LeaseMoves
  <2> QED BY <2>1, <2>2, <2>4, <2>5, <2>6, MovedKeeps
<1>5. CASE ToUnlink(p)
  <2>1. /\ pc[p] = "visit" /\ purpose[p] = "prune" /\ pc' = [pc EXCEPT ![p] = "unlink"]
        /\ UNCHANGED <<purpose, mem, retained, fetched, artifacts, gens, lease, published>>
    BY <1>5 DEF ToUnlink, VisitsDone, Goto, files, run
  <2>2. FilesTyped' /\ LeaseMoves(p) /\ "unlink" \in Places
    BY <2>1, SelfTyped, FilesStay DEF LeaseMoves, Places
  <2>3. Sound(p)'
    <3>1. pc'[p] = "unlink" /\ lease = p /\ fetched[p] \in Served
      BY <2>1, SelfTyped, SelfSound DEF ProcessesTyped, Critical
    <3> QED BY <2>1, <3>1, SelfSound DEF Sound, Critical
  <2>4. /\ purpose' = [purpose EXCEPT ![p] = purpose[p]] /\ purpose[p] \in Purposes
        /\ mem' = [mem EXCEPT ![p] = mem[p]] /\ DOMAIN mem[p] = Fields
    BY <2>1, SelfTyped
  <2> QED BY <2>1, <2>2, <2>3, <2>4, GotoKeeps
<1>6. CASE UnlinkGeneration(p)
  <2> DEFINE g == Max(mem[p].doomed)
             m == [mem[p] EXCEPT !.doomed = @ \ {g}]
  <2>1. /\ pc[p] = "unlink" /\ gens' = [h \in DOMAIN gens \ {g} |-> gens[h]]
        /\ mem' = [mem EXCEPT ![p] = m]
        /\ UNCHANGED <<pc, purpose, retained, fetched, artifacts, lease, published>>
    BY <1>6 DEF UnlinkGeneration, run
  <2>2. DOMAIN m = Fields /\ m.kept = mem[p].kept
    BY SelfTyped
  <2> HIDE DEF g, m
  <2>3. lease = p /\ LeaseMoves(p)
    BY <2>1, SelfSound DEF Critical, LeaseMoves
  <2>4. FilesTyped'
    <3>1. DOMAIN gens' = DOMAIN gens \ {g}
      BY <2>1
    <3>2. IsFiniteSet(DOMAIN gens') /\ DOMAIN gens' \in SUBSET (Nat \ {0})
      BY <3>1, SelfTyped, FS_Subset DEF FilesTyped
    <3>3. gens' \in [DOMAIN gens' -> Served]
      BY <2>1, <3>1, SelfTyped DEF FilesTyped
    <3> QED BY <2>1, <3>2, <3>3, SelfTyped DEF FilesTyped
  <2>5. Moved(p)
    BY <2>1, <2>2, SelfTyped, MemoryChanges DEF ProcessesTyped, Moved
  <2>6. Sound(p)'
    <3>1. mem'[p].kept = mem[p].kept
      BY <2>1, <2>2, SelfTyped DEF ProcessesTyped
    <3> QED BY <2>1, <2>3, <3>1, SelfSound DEF Sound, Critical
  <2>7. /\ retained'[p] \in Served \cup {None} /\ fetched'[p] \in Served \cup {None}
        /\ pc'[p] \in Places /\ purpose'[p] \in Purposes
    BY <2>1, SelfTyped DEF ProcessesTyped
  <2> QED BY <2>3, <2>4, <2>5, <2>6, <2>7, MovedKeeps
<1>7. CASE ReleaseLease(p)
  <2>1. /\ pc[p] = "unlink" /\ pc' = [pc EXCEPT ![p] = "readdir"]
        /\ lease' = (IF lease = p THEN None ELSE lease)
        /\ purpose' = [purpose EXCEPT ![p] = "protect"]
        /\ UNCHANGED <<mem, retained, fetched, artifacts, gens, published>>
    BY <1>7 DEF ReleaseLease, Goto, List, Released, run
  <2>2. FilesTyped' /\ LeaseMoves(p) /\ "readdir" \in Places /\ "protect" \in Purposes
    BY <2>1, SelfTyped, FilesStay DEF LeaseMoves, Places, Purposes
  <2>3. Sound(p)'
    <3>1. pc'[p] = "readdir" /\ purpose'[p] = "protect" /\ lease' # p
      BY <2>1, SelfTyped, CacheAssumption DEF ProcessesTyped
    <3> QED BY <2>1, <3>1, SelfSound DEF Sound, Critical
  <2>4. mem' = [mem EXCEPT ![p] = mem[p]] /\ DOMAIN mem[p] = Fields
    BY <2>1, SelfTyped
  <2> QED BY <2>1, <2>2, <2>3, <2>4, GotoKeeps
<1> QED BY <1>1, <1>2, <1>3, <1>4, <1>5, <1>6, <1>7 DEF Publish

\* The steps of prune.
LEMMA EvictKeeps ==
  ASSUME CacheInv, NEW p \in Processes, EvictArtifacts(p) PROVE CacheInv'
<1>1. CASE ReadArtifactDirectory(p) \/ StatArtifacts(p)
  <2>1. /\ pc[p] \in {"visit", "lstatArtifacts"} /\ (pc[p] = "visit" => purpose[p] = "protect")
        /\ UNCHANGED <<purpose, retained, fetched, artifacts, gens, lease, published>>
    BY <1>1 DEF ReadArtifactDirectory, StatArtifacts, VisitsDone, Goto, files, run
  <2>2. PICK to \in {"lstatArtifacts", "evict"} : pc' = [pc EXCEPT ![p] = to]
    BY <1>1 DEF ReadArtifactDirectory, StatArtifacts, VisitsDone, Goto
  <2>3. \E m : DOMAIN m = Fields /\ m.kept \in 0..2 /\ mem' = [mem EXCEPT ![p] = m]
    <3>1. CASE ReadArtifactDirectory(p)
      <4> DEFINE m == [mem[p] EXCEPT !.names = Present]
      <4>1. mem' = [mem EXCEPT ![p] = m]
        BY <3>1 DEF ReadArtifactDirectory
      <4>2. DOMAIN m = Fields /\ m.kept \in 0..2
        BY SelfTyped, SelfSound
      <4> HIDE DEF m
      <4> QED BY <4>1, <4>2
    <3>2. CASE StatArtifacts(p)
      <4> DEFINE left == Without(artifacts, (Present \ mem[p].names) \cup mem[p].guarded)
                 over == Max({0, Cardinality(mem[p].names) - Limit})
                 m == [mem[p] EXCEPT !.victims = left, !.excess = over, !.names = {}]
      <4>1. mem' = [mem EXCEPT ![p] = m]
        BY <3>2 DEF StatArtifacts
      <4> HIDE DEF left, over
      <4>2. DOMAIN m = Fields /\ m.kept \in 0..2
        BY SelfTyped, SelfSound
      <4> HIDE DEF m
      <4> QED BY <4>1, <4>2
    <3> QED BY <1>1, <3>1, <3>2
  <2>4. Sound(p)'
    <3>1. pc'[p] = to /\ mem'[p].kept \in 0..2
      BY <2>2, <2>3, SelfTyped DEF ProcessesTyped
    <3> QED BY <2>1, <3>1, SelfSound DEF Sound, Critical
  <2>5. FilesTyped' /\ LeaseMoves(p) /\ to \in Places
    BY <2>1, SelfTyped, FilesStay DEF LeaseMoves, Places
  <2>6. purpose' = [purpose EXCEPT ![p] = purpose[p]] /\ purpose[p] \in Purposes
    BY <2>1, SelfTyped
  <2> QED BY <2>1, <2>2, <2>3, <2>4, <2>5, <2>6, GotoKeeps
<1>2. CASE StatArtifactMissing(p) \/ EvictionDone(p)
  <2>1. /\ artifacts' = artifacts /\ published' = published /\ gens' = gens
        /\ \E from : \E how \in Ended : End(p, from, how)
    BY <1>2 DEF StatArtifactMissing, EvictionDone, End, Ended
  <2>2. FilesTyped'
    BY <2>1, SelfTyped, FilesStay
  <2> QED BY <2>1, <2>2, EndKeeps
<1>3. CASE Evict(p)
  <2>1. /\ pc[p] = "evict"
        /\ UNCHANGED <<pc, purpose, retained, fetched, gens, lease, published>>
    BY <1>3 DEF Evict, run
  <2>2. FilesTyped'
    <3>1. \/ artifacts' = artifacts
          \/ \E a : artifacts' = Without(artifacts, {a})
      BY <1>3 DEF Evict
    <3>2. ASSUME NEW a
          PROVE  Without(artifacts, {a}) \in Seq(Files) /\ IsInjective(Without(artifacts, {a}))
      <4>1. artifacts \in Seq(Files) /\ IsInjective(artifacts)
        BY SelfTyped DEF FilesTyped
      <4> QED BY <4>1, WithoutElements
    <3>3. artifacts' \in Seq(Files) /\ IsInjective(artifacts')
      <4>1. CASE artifacts' = artifacts
        BY <4>1, SelfTyped DEF FilesTyped
      <4>2. ASSUME NEW a, artifacts' = Without(artifacts, {a})
            PROVE  artifacts' \in Seq(Files) /\ IsInjective(artifacts')
        BY <3>2, <4>2
      <4> QED BY <3>1, <4>1, <4>2
    <3> QED BY <2>1, <3>3, SelfTyped DEF FilesTyped
  <2>3. /\ mem' = [q \in Processes |-> mem'[q]]
        /\ \A q \in Processes : /\ DOMAIN mem'[q] = Fields
                                /\ mem'[q].todo = mem[q].todo
                                /\ mem'[q].number = mem[q].number
                                /\ mem'[q].kept = mem[q].kept
    <3> DEFINE a == Head(mem[p].victims)
               stays == a \in Present /\ a \in mem[p].changed
               listing(q) == a \in Present /\ ~stays /\ a \in ToSet(mem[q].victims)
               mine == [mem[p] EXCEPT !.victims = Tail(@),
                                      !.excess = IF stays THEN @ ELSE @ - 1]
    <3>1. mem' = [q \in Processes |->
                    IF q # p /\ listing(q) THEN [mem[q] EXCEPT !.changed = @ \cup {a}]
                    ELSE IF q = p THEN mine ELSE mem[q]]
      BY <1>3, SelfTyped DEF Evict, ProcessesTyped
    <3>2. ASSUME NEW q \in Processes, NEW m,
                 \/ m = mine /\ q = p
                 \/ m = mem[q]
                 \/ m = [mem[q] EXCEPT !.changed = @ \cup {a}]
          PROVE  /\ DOMAIN m = Fields /\ m.todo = mem[q].todo
                 /\ m.number = mem[q].number /\ m.kept = mem[q].kept
      <4>1. /\ DOMAIN mem[q] = Fields
            /\ Fields = {"todo", "number", "kept", "doomed", "guarded", "names", "victims",
                         "excess", "changed"}
        BY SelfTyped
      <4> HIDE DEF a, stays
      <4> QED BY <3>2, <4>1
    <3> HIDE DEF a, stays, mine, listing
    <3>3. \A q \in Processes :
            \/ mem'[q] = mine /\ q = p
            \/ mem'[q] = mem[q]
            \/ mem'[q] = [mem[q] EXCEPT !.changed = @ \cup {a}]
      BY <3>1
    <3> QED BY <3>1, <3>2, <3>3
  <2>4. Moved(p)
    BY <2>1, <2>3, SelfTyped DEF ProcessesTyped, Moved
  <2>5. Sound(p)' /\ LeaseMoves(p)
    BY <2>1, <2>3, SelfSound DEF Sound, Critical, LeaseMoves
  <2>6. /\ retained'[p] \in Served \cup {None} /\ fetched'[p] \in Served \cup {None}
        /\ pc'[p] \in Places /\ purpose'[p] \in Purposes
    BY <2>1, SelfTyped DEF ProcessesTyped
  <2> QED BY <2>1, <2>2, <2>4, <2>5, <2>6, MovedKeeps
<1> QED BY <1>1, <1>2, <1>3 DEF EvictArtifacts

\* A process is started, gives up waiting for the lease, crashes, or reclaims the lease.
LEMMA OthersKeep ==
  ASSUME CacheInv, NEW p \in Processes,
         Start(p) \/ LeaseTimesOut(p) \/ Crash(p) \/ ReclaimLease(p)
  PROVE  CacheInv'
<1>1. CASE Start(p)
  <2>1. /\ pc[p] \in Ended \cup {"off", "crashed"} /\ pc' = [pc EXCEPT ![p] = "readdir"]
        /\ purpose' = [purpose EXCEPT ![p] = "read"]
        /\ UNCHANGED <<mem, retained, fetched, artifacts, gens, lease, published>>
    BY <1>1 DEF Start, List, files
  <2>2. FilesTyped' /\ LeaseMoves(p) /\ "readdir" \in Places /\ "read" \in Purposes
    BY <2>1, SelfTyped, FilesStay DEF LeaseMoves, Places, Purposes
  <2>3. Sound(p)'
    <3>1. pc'[p] = "readdir" /\ purpose'[p] = "read"
      BY <2>1, SelfTyped DEF ProcessesTyped
    <3> QED BY <2>1, <3>1, SelfSound DEF Sound, Critical, Ended
  <2>4. mem' = [mem EXCEPT ![p] = mem[p]] /\ DOMAIN mem[p] = Fields
    BY <2>1, SelfTyped
  <2> QED BY <2>1, <2>2, <2>3, <2>4, GotoKeeps
<1>2. CASE LeaseTimesOut(p)
  <2>1. FilesTyped'
    BY <1>2, SelfTyped, FilesStay DEF LeaseTimesOut, End
  <2> QED BY <1>2, <2>1, EndKeeps DEF LeaseTimesOut, Ended
<1>3. CASE Crash(p)
  <2>1. /\ pc' = [pc EXCEPT ![p] = "crashed"] /\ mem' = [mem EXCEPT ![p] = NoMemory]
        /\ retained' = [retained EXCEPT ![p] = None] /\ fetched' = [fetched EXCEPT ![p] = None]
        /\ lease' = (IF lease = p THEN "abandoned" ELSE lease)
        /\ purpose' = purpose /\ gens' = gens /\ artifacts' = artifacts
        /\ published' = published
    BY <1>3 DEF Crash, run
  <2>2. FilesTyped' /\ LeaseMoves(p)
    BY <2>1, SelfTyped, FilesStay DEF LeaseMoves
  <2>3. DOMAIN NoMemory = Fields
    BY DEF Fields
  <2>4. Moved(p)
    BY <2>1, <2>3, SelfTyped, MemoryChanges DEF ProcessesTyped, Moved
  <2>5. /\ pc'[p] = "crashed" /\ purpose'[p] \in Purposes /\ retained'[p] = None
        /\ fetched'[p] = None /\ mem'[p].kept = 0 /\ "crashed" \in Places
    BY <2>1, SelfTyped DEF ProcessesTyped, NoMemory, Places
  <2>6. Sound(p)'
    <3>1. lease' # p
      BY <2>1, CacheAssumption
    <3> QED BY <2>5, <3>1 DEF Sound, Critical
  <2> QED BY <2>1, <2>2, <2>4, <2>5, <2>6, MovedKeeps
<1>4. CASE ReclaimLease(p)
  <2>1. /\ pc[p] = "lock" /\ lease = "abandoned" /\ lease' = None
        /\ UNCHANGED <<pc, purpose, mem, retained, fetched, artifacts, gens, published>>
    BY <1>4 DEF ReclaimLease, run
  <2>2. FilesTyped' /\ LeaseMoves(p) /\ "lock" \in Places
    BY <2>1, SelfTyped, FilesStay DEF LeaseMoves, Places
  <2>3. Sound(p)'
    BY <2>1, SelfSound, CacheAssumption DEF Sound, Critical
  <2>4. /\ purpose' = [purpose EXCEPT ![p] = purpose[p]] /\ purpose[p] \in Purposes
        /\ mem' = [mem EXCEPT ![p] = mem[p]] /\ DOMAIN mem[p] = Fields
        /\ pc' = [pc EXCEPT ![p] = "lock"]
    BY <2>1, SelfTyped
  <2> QED BY <2>1, <2>2, <2>3, <2>4, GotoKeeps
<1> QED BY <1>1, <1>2, <1>3, <1>4

-----------------------------------------------------------------------------
(* It holds initially.                                                      *)

\* The generations of the initial states and the artifacts they come with.
LEMMA InitialFiles ==
  ASSUME Init
  PROVE  /\ artifacts \in Seq(Files) /\ IsInjective(artifacts)
         /\ \E n \in {0, 1, 2} : /\ DOMAIN gens = 1..n /\ gens \in Seq(1..2)
                                 /\ \A g \in 1..n : gens[g] = g
<1>1. /\ \A v \in {1, 2} : Manifest(v) \in Files /\ Catalog(v) \in Files
      /\ \A v, w : Manifest(v) # Catalog(w) /\ (v # w => Catalog(v) # Catalog(w))
  BY DEF Manifest, Catalog, Files
<1>2. CASE artifacts = <<>> /\ gens = <<>>
  <2>1. <<>> \in Seq(Files) /\ IsInjective(<<>>)
    BY DEF IsInjective
  <2>2. DOMAIN <<>> = 1..0 /\ <<>> \in Seq(1..2)
    OBVIOUS
  <2> QED BY <1>2, <2>1, <2>2
<1>3. CASE artifacts = <<Manifest(1), Catalog(1)>> /\ gens = <<1>>
  <2> DEFINE a == <<Manifest(1), Catalog(1)>>
  <2> HIDE DEF Manifest, Catalog
  <2>1. a \in Seq(Files) /\ DOMAIN a = {1, 2} /\ a[1] = Manifest(1) /\ a[2] = Catalog(1)
    BY <1>1
  <2>2. IsInjective(a)
    BY <1>1, <2>1 DEF IsInjective
  <2>3. DOMAIN <<1>> = 1..1 /\ <<1>> \in Seq(1..2) /\ \A g \in 1..1 : (<<1>>)[g] = g
    OBVIOUS
  <2> QED BY <1>3, <2>1, <2>2, <2>3
<1>4. CASE artifacts = <<Catalog(2), Manifest(1), Catalog(1)>> /\ gens = <<1, 2>>
  <2> DEFINE a == <<Catalog(2), Manifest(1), Catalog(1)>>
  <2> HIDE DEF Manifest, Catalog
  <2>1. /\ a \in Seq(Files) /\ DOMAIN a = {1, 2, 3}
        /\ a[1] = Catalog(2) /\ a[2] = Manifest(1) /\ a[3] = Catalog(1)
    BY <1>1
  <2>2. IsInjective(a)
    BY <1>1, <2>1 DEF IsInjective
  <2>3. /\ DOMAIN <<1, 2>> = 1..2 /\ <<1, 2>> \in Seq(1..2)
        /\ \A g \in 1..2 : (<<1, 2>>)[g] = g
    OBVIOUS
  <2> QED BY <1>4, <2>1, <2>2, <2>3
<1> QED BY <1>2, <1>3, <1>4 DEF Init

\* The initial states satisfy it.
LEMMA CacheInitial ==
  ASSUME Init PROVE CacheInv
<1>1. PICK n \in {0, 1, 2} : /\ DOMAIN gens = 1..n /\ gens \in Seq(1..2)
                            /\ \A g \in 1..n : gens[g] = g
  BY InitialFiles
<1>2. {1, 2} \subseteq Served
  BY CacheAssumption DEF Served
<1>3. published \in Served
  <2>1. ToSet(gens) = 1..n
    BY <1>1 DEF ToSet
  <2>2. {1} \cup 1..n \in SUBSET Nat /\ IsFiniteSet({1} \cup 1..n) /\ {1} \cup 1..n # {}
    <3>1. IsFiniteSet(1..n)
      BY <1>1, FS_Interval
    <3> QED BY <1>1, <3>1, FS_AddElement
  <2>3. Max({1} \cup 1..n) \in {1} \cup 1..n
    BY <2>2, GreatestElement
  <2> QED BY <1>1, <1>2, <2>1, <2>3 DEF Init
<1>4. FilesTyped
  <2>1. IsFiniteSet(1..n) /\ 1..n \in SUBSET (Nat \ {0})
    BY <1>1, FS_Interval
  <2>2. gens \in [DOMAIN gens -> Served]
    <3>1. gens = [g \in DOMAIN gens |-> gens[g]]
      BY <1>1
    <3>2. \A g \in DOMAIN gens : gens[g] \in Served
      BY <1>1, <1>2
    <3> QED BY <3>1, <3>2
  <2> QED BY <1>1, <1>3, <2>1, <2>2, InitialFiles DEF FilesTyped
<1>5. ProcessesTyped
  <2>1. DOMAIN NoMemory = Fields
    BY DEF Fields
  <2> QED BY <2>1 DEF Init, ProcessesTyped, Places, Purposes
<1>6. ASSUME NEW p \in Processes PROVE Sound(p)
  <2>1. mem[p].kept = 0 /\ pc[p] = "off" /\ lease # p
    BY CacheAssumption DEF Init, NoMemory
  <2> QED BY <2>1 DEF Sound, Critical
<1> QED BY <1>4, <1>5, <1>6 DEF CacheInv, Init

\* Every step keeps the invariant.
LEMMA CacheStep ==
  ASSUME CacheInv, [Next]_vars PROVE CacheInv'
<1>1. CASE UNCHANGED vars
  BY <1>1 DEF vars, files, run, CacheInv, FilesTyped, ProcessesTyped, Sound, Critical
<1>2. ASSUME NEW p \in Processes,
             Start(p) \/ Proceed(p) \/ LeaseTimesOut(p) \/ Crash(p) \/ ReclaimLease(p)
      PROVE  CacheInv'
  BY <1>2, RetainKeeps, RefreshKeeps, PublishKeeps, EvictKeeps, OthersKeep DEF Proceed
<1> QED BY <1>1, <1>2 DEF Next

\* The holder of the channel lease, and only it, is between its second check and its last
\* unlink, and the number it has found is newer than every retained state, whatever the
\* others do and whichever of them crash.
THEOREM CacheInvariance == Spec => []CacheInv
BY CacheInitial, CacheStep, PTL DEF Spec

\* The variables are of their types: an artifact is in the directory once, every retained
\* state is of a version the origin has served, an installation knows the manifest it is
\* about, and the lease has no owner but a process that runs.
THEOREM CacheTypeCorrect == Spec => []TypeOK
<1>1. ASSUME CacheInv PROVE TypeOK
  <2>1. Cardinality(Present) = Len(artifacts)
    BY <1>1, CountElements DEF CacheInv, FilesTyped, Present
  <2>2. \A g \in DOMAIN gens : g \in Nat \ {0} /\ gens[g] \in 1..Versions
    BY <1>1 DEF CacheInv, FilesTyped, Served
  <2>3. \A p \in Processes :
          /\ retained[p] \in 1..Versions \cup {None} /\ fetched[p] \in 1..Versions \cup {None}
          /\ mem[p].kept \in 0..2
    BY <1>1, SelfSound DEF CacheInv, ProcessesTyped, Served
  <2>4. ASSUME NEW p \in Processes,
               pc[p] \in {"manifest", "assert", "lock", "revalidate", "link", "unlink"}
        PROVE  fetched[p] # None
    <3>1. fetched[p] \in Served
      BY <1>1, <2>4, SelfSound DEF Critical
    <3> QED BY <3>1, CacheAssumption DEF Served
  <2>5. lease \in {None, "abandoned"} \cup {p \in Processes : Running(p)}
    <3>1. \A p \in Processes : lease = p => Running(p)
      BY <1>1, SelfSound DEF Critical, Running, Ended
    <3> QED BY <1>1, <3>1 DEF CacheInv
  <2>6. purpose \in [Processes -> {"read", "number", "prune", "protect"}]
    BY <1>1 DEF CacheInv, ProcessesTyped, Purposes
  <2> QED BY <2>1, <2>2, <2>3, <2>4, <2>5, <2>6 DEF TypeOK
<1> QED BY <1>1, CacheInvariance, PTL

-----------------------------------------------------------------------------
(* Generations.                                                             *)

\* Only LinkGeneration and UnlinkGeneration change the generations.
LEMMA GenerationsChange ==
  ASSUME Next, gens' # gens
  PROVE  \E p \in Processes : LinkGeneration(p) \/ UnlinkGeneration(p)
<1>1. PICK p \in Processes :
           Start(p) \/ Proceed(p) \/ LeaseTimesOut(p) \/ Crash(p) \/ ReclaimLease(p)
  BY DEF Next
<1>2. \A from, how : End(p, from, how) => gens' = gens
  BY DEF End
<1>3. Start(p) \/ LeaseTimesOut(p) \/ Crash(p) \/ ReclaimLease(p) => gens' = gens
  BY <1>2 DEF Start, LeaseTimesOut, Crash, ReclaimLease, files
<1>4. Retain(p) => gens' = gens
  BY <1>2 DEF Retain, ReadDirectory, StatEntries, StatEntryMissing, ReadState, VisitToPrune,
              Protect, NoState, VisitsDone, ReadSnapshot, files
<1>5. Refresh(p) => gens' = gens
  BY <1>2 DEF Refresh, NotModified, Fetched, OriginUnavailable, OriginRefuses, FallBack,
              InstallCatalog, CatalogUnavailable, InstallManifest, files
<1>6. EvictArtifacts(p) => gens' = gens
  BY <1>2 DEF EvictArtifacts, ReadArtifactDirectory, VisitsDone, StatArtifacts,
              StatArtifactMissing, Evict, EvictionDone, files
<1>7. Publish(p) => gens' = gens \/ LinkGeneration(p) \/ UnlinkGeneration(p)
  BY <1>2 DEF Publish, Validate, Revalidate, AssertPresent, AssertFails, AcquireLease,
              ToUnlink, VisitsDone, ReleaseLease, files
<1> QED BY <1>1, <1>3, <1>4, <1>5, <1>6, <1>7 DEF Proceed

\* Generations are append-only: installLastKnownGoodChannelState links a new one under a
\* number greater than every other, although the holder of the lease has listed them
\* earlier, any process may have crashed in between, and numbers have been pruned.
THEOREM NewGenerationsAreNewer == Spec => GenerationsGrow
<1>1. ASSUME CacheInv, [Next]_vars
      PROVE  [\A g \in DOMAIN gens' \ DOMAIN gens : \A h \in DOMAIN gens : h < g]_vars
  <2>1. CASE gens' = gens
    BY <2>1
  <2>2. CASE gens' # gens
    <3>1. Next
      BY <1>1, <2>2 DEF vars, files
    <3>2. PICK p \in Processes : LinkGeneration(p) \/ UnlinkGeneration(p)
      BY <2>2, <3>1, GenerationsChange
    <3>3. CASE LinkGeneration(p)
      <4>1. /\ DOMAIN gens' = DOMAIN gens \cup {mem[p].number}
            /\ \A h \in DOMAIN gens : h < mem[p].number
        BY <1>1, <3>3, LinkAppends
      <4> QED BY <4>1
    <3>4. CASE UnlinkGeneration(p)
      <4>1. DOMAIN gens' \subseteq DOMAIN gens
        BY <3>4 DEF UnlinkGeneration
      <4> QED BY <4>1
    <3> QED BY <3>2, <3>3, <3>4
  <2> QED BY <2>1, <2>2
<1> QED BY <1>1, CacheInvariance, PTL DEF Spec, GenerationsGrow

-----------------------------------------------------------------------------
(* A process that shares the cache with nobody.                             *)

\* There is no other.
Alone == \A p, q \in Processes : p = q

\* The generations that pruning has visited and spares.
Spared(p) == DOMAIN gens \ (mem[p].todo \cup mem[p].doomed)

\* Pruning counts the complete generations it spares, and dooms a complete one only if
\* it spares two.
Tally(p) ==
  /\ mem[p].todo \subseteq DOMAIN gens /\ mem[p].doomed \subseteq DOMAIN gens \ mem[p].todo
  /\ \A g \in Spared(p) : Complete(g)
  /\ Cardinality(Spared(p)) = mem[p].kept
  /\ (\E g \in mem[p].doomed : Complete(g)) => mem[p].kept = 2

\* What it has listed is still there, what it prunes it has tallied, and what it evicts no
\* retained state refers to.
Diligent(p) ==
  /\ pc[p] = "lstat" => mem[p].todo = DOMAIN gens
  /\ pc[p] \in {"readdir", "lstat"} /\ purpose[p] = "prune"
       => mem[p].doomed = {} /\ mem[p].kept = 0
  /\ pc[p] = "visit" /\ purpose[p] = "prune" => Tally(p)
  /\ pc[p] = "unlink" => Tally(p) /\ mem[p].todo = {}
  /\ pc[p] = "visit" /\ purpose[p] = "protect"
       => \A g \in DOMAIN gens : g \in mem[p].todo \/ References(gens[g]) \subseteq mem[p].guarded
  /\ pc[p] = "lstatArtifacts"
       => \A g \in DOMAIN gens : References(gens[g]) \subseteq mem[p].guarded
  /\ pc[p] = "evict"
       => /\ mem[p].victims \in Seq(Files)
          /\ \A g \in DOMAIN gens : References(gens[g]) \cap ToSet(mem[p].victims) = {}

\* The invariant of a lone process.
AloneInv == CacheInv /\ \A p \in Processes : Diligent(p)

\* Where a process has nothing to tally or to guard, there is nothing to keep.
LEMMA NothingToKeep ==
  ASSUME NEW p \in Processes,
         pc'[p] \notin {"lstat", "visit", "lstatArtifacts", "evict", "unlink"},
         pc'[p] = "readdir" => purpose'[p] # "prune"
  PROVE  Diligent(p)'
BY DEF Diligent

\* What a process knows that shares the cache with nobody.
LEMMA SelfDiligent ==
  ASSUME AloneInv, NEW p \in Processes
  PROVE  /\ CacheInv /\ Diligent(p)
         /\ IsFiniteSet(DOMAIN gens) /\ DOMAIN gens \in SUBSET Nat
         /\ DOMAIN mem[p] = {"todo", "number", "kept", "doomed", "guarded", "names",
                             "victims", "excess", "changed"}
         /\ mem = [q \in Processes |-> mem[q]]
         /\ pc \in [Processes -> Places] /\ purpose \in [Processes -> Purposes]
BY SelfTyped DEF AloneInv, CacheInv, FilesTyped, ProcessesTyped

\* The steps of the listings.
LEMMA RetainStaysDiligent ==
  ASSUME AloneInv, NEW p \in Processes, Retain(p) PROVE Diligent(p)'
<1>1. CASE ReadDirectory(p)
  <2>1. /\ pc[p] = "readdir" /\ pc' = [pc EXCEPT ![p] = "lstat"]
        /\ mem' = [mem EXCEPT ![p].todo = DOMAIN gens] /\ UNCHANGED <<purpose, gens>>
    BY <1>1 DEF ReadDirectory, Goto, files
  <2>2. /\ pc'[p] = "lstat" /\ mem'[p].todo = DOMAIN gens'
        /\ mem'[p].doomed = mem[p].doomed /\ mem'[p].kept = mem[p].kept
    BY <2>1, SelfDiligent
  <2> QED BY <2>1, <2>2, SelfDiligent DEF Diligent
<1>2. CASE StatEntries(p)
  <2>1. /\ pc[p] = "lstat"
        /\ pc' = [pc EXCEPT ![p] = IF purpose[p] = "number" THEN "link" ELSE "visit"]
        /\ UNCHANGED <<purpose, artifacts, gens>>
    BY <1>2 DEF StatEntries, Goto, files
  <2>2. /\ mem'[p].todo = mem[p].todo /\ mem'[p].doomed = mem[p].doomed
        /\ mem'[p].kept = mem[p].kept /\ mem'[p].guarded = mem[p].guarded
    BY <1>2, SelfDiligent DEF StatEntries
  <2>3. pc'[p] = "visit" \/ pc'[p] = "link"
    BY <2>1, SelfDiligent
  <2>4. mem[p].todo = DOMAIN gens
    BY <2>1, SelfDiligent DEF Diligent
  <2>5. ASSUME purpose[p] = "prune" PROVE Tally(p)'
    <3>1. mem[p].doomed = {} /\ mem[p].kept = 0
      BY <2>1, <2>5, SelfDiligent DEF Diligent
    <3>2. Spared(p)' = {}
      BY <2>1, <2>2, <2>4 DEF Spared
    <3> QED BY <2>1, <2>2, <2>4, <3>1, <3>2, FS_EmptySet DEF Tally
  <2> QED BY <2>1, <2>2, <2>3, <2>4, <2>5 DEF Diligent
<1>3. CASE StatEntryMissing(p)
  <2>1. pc'[p] = "unsafe"
    BY <1>3, SelfDiligent DEF StatEntryMissing, End, Goto
  <2> QED BY <2>1, NothingToKeep
<1>4. ASSUME NEW g \in mem[p].todo, ReadState(p, g) PROVE Diligent(p)'
  <2>1. /\ pc[p] = "visit" /\ purpose[p] = "read" /\ purpose' = purpose
        /\ pc' = [pc EXCEPT ![p] = "snapshot"] \/ pc' = pc
    BY <1>4 DEF ReadState, Visiting
  <2>2. pc'[p] \in {"snapshot", "visit"} /\ purpose'[p] = "read"
    BY <2>1, SelfDiligent
  <2> QED BY <2>2 DEF Diligent
<1>5. ASSUME NEW g \in mem[p].todo, VisitToPrune(p, g) PROVE Diligent(p)'
  <2> DEFINE keep == Retains(g, mem[p].kept)
  <2>1. /\ pc[p] = "visit" /\ purpose[p] = "prune" /\ UNCHANGED <<pc, purpose, gens>>
    BY <1>5 DEF VisitToPrune, Visiting
  <2>2. /\ mem'[p].todo = mem[p].todo \ {g}
        /\ mem'[p].kept = IF keep THEN mem[p].kept + 1 ELSE mem[p].kept
        /\ mem'[p].doomed = IF keep THEN mem[p].doomed ELSE mem[p].doomed \cup {g}
    BY <1>5, SelfDiligent DEF VisitToPrune
  <2>3. Tally(p)
    BY <2>1, SelfDiligent DEF Diligent
  <2>4. g \in DOMAIN gens /\ g \notin mem[p].doomed /\ g \notin Spared(p)
    BY <1>5, <2>3 DEF Tally, Spared
  <2>5. Present' = Present
    <3>1. FilesTyped /\ gens[g] \in Served /\ artifacts' = ReadBoth(gens[g])
      BY <1>5, <2>4, SelfDiligent DEF CacheInv, FilesTyped, VisitToPrune, VisitReads
    <3> QED BY <3>1, ArtifactsTyped DEF Present
  <2>6. \A h : Complete(h)' <=> Complete(h)
    BY <2>1, <2>5 DEF Complete
  <2>7. IsFiniteSet(Spared(p)) /\ mem[p].kept \in Nat
    <3>1. mem[p].kept \in 0..2
      BY SelfDiligent, SelfSound
    <3> QED BY <3>1, SelfDiligent, FS_Subset DEF Spared
  <2> HIDE DEF keep
  <2>8. CASE keep
    <3>1. Complete(g)
      BY <2>8 DEF keep, Retains
    <3>2. Spared(p)' = Spared(p) \cup {g}
      BY <1>5, <2>1, <2>2, <2>4, <2>8 DEF Spared
    <3>3. Cardinality(Spared(p)') = mem'[p].kept
      <4>1. Cardinality(Spared(p) \cup {g}) = Cardinality(Spared(p)) + 1
        BY <2>4, <2>7, FS_AddElement
      <4>2. Cardinality(Spared(p)) = mem[p].kept
        BY <2>3 DEF Tally
      <4> QED BY <2>2, <2>8, <3>2, <4>1, <4>2
    <3>4. (\E h \in mem[p].doomed : Complete(h)) => mem'[p].kept = 2
      <4>1. mem[p].kept < 2
        BY <2>8 DEF keep, Retains
      <4> QED BY <2>3, <4>1 DEF Tally
    <3>5. \A h \in Spared(p)' : Complete(h)'
      BY <2>3, <2>6, <3>1, <3>2 DEF Tally
    <3>6. Tally(p)'
      BY <2>1, <2>2, <2>3, <2>6, <2>8, <3>3, <3>4, <3>5 DEF Tally
    <3> QED BY <2>1, <3>6 DEF Diligent
  <2>9. CASE ~keep
    <3>1. Complete(g) => mem[p].kept = 2
      <4>1. Complete(g) => ~(mem[p].kept < 2)
        BY <2>9 DEF keep, Retains
      <4>2. mem[p].kept \in 0..2
        BY SelfDiligent, SelfSound
      <4> QED BY <4>1, <4>2
    <3>2. Spared(p)' = Spared(p)
      BY <1>5, <2>1, <2>2, <2>9 DEF Spared
    <3>3. /\ mem'[p].todo \subseteq DOMAIN gens'
          /\ mem'[p].doomed \subseteq DOMAIN gens' \ mem'[p].todo
      BY <2>1, <2>2, <2>3, <2>4, <2>9 DEF Tally
    <3>4. Tally(p)'
      BY <2>2, <2>3, <2>6, <2>9, <3>1, <3>2, <3>3 DEF Tally
    <3> QED BY <2>1, <3>4 DEF Diligent
  <2> QED BY <2>8, <2>9
<1>6. ASSUME NEW g \in mem[p].todo, Protect(p, g) PROVE Diligent(p)'
  <2>1. /\ pc[p] = "visit" /\ purpose[p] = "protect" /\ UNCHANGED <<pc, purpose, gens>>
    BY <1>6 DEF Protect, Visiting, files
  <2>2. /\ mem'[p].todo = mem[p].todo \ {g}
        /\ mem'[p].guarded = mem[p].guarded \cup Guarded(g)
    BY <1>6, SelfDiligent DEF Protect
  <2>3. \A h \in DOMAIN gens :
           h \in mem'[p].todo \/ References(gens[h]) \subseteq mem'[p].guarded
    <3>1. \A h \in DOMAIN gens :
             h \in mem[p].todo \/ References(gens[h]) \subseteq mem[p].guarded
      BY <2>1, SelfDiligent DEF Diligent
    <3> QED BY <2>2, <3>1 DEF Guarded
  <2> QED BY <2>1, <2>3 DEF Diligent
<1>7. CASE NoState(p) \/ ReadSnapshot(p)
  <2>1. pc'[p] = "fetch"
    BY <1>7, SelfDiligent DEF NoState, VisitsDone, ReadSnapshot, Goto
  <2> QED BY <2>1, NothingToKeep
<1> QED BY <1>1, <1>2, <1>3, <1>4, <1>5, <1>6, <1>7 DEF Retain

\* The steps of an installation.
LEMMA PublishStaysDiligent ==
  ASSUME AloneInv, NEW p \in Processes, Publish(p) PROVE Diligent(p)'
<1>1. CASE Validate(p) \/ AssertFails(p) \/ AcquireLease(p) \/ Revalidate(p) \/ ReleaseLease(p)
  <2>1. /\ pc'[p] \in {"lock", "unavailable", "revalidate", "readdir"}
        /\ pc'[p] = "readdir" => purpose'[p] \in {"number", "protect"}
    BY <1>1, SelfDiligent DEF Validate, AssertFails, AcquireLease, Revalidate, ReleaseLease,
         AssertPresent, End, Goto, List
  <2> QED BY <2>1, NothingToKeep
<1>2. CASE LinkGeneration(p)
  <2>1. pc'[p] = "readdir" /\ mem'[p] = NoMemory
    BY <1>2, SelfDiligent, LinkAppends DEF LinkGeneration, Goto
  <2>2. mem'[p].doomed = {} /\ mem'[p].kept = 0
    BY <2>1 DEF NoMemory
  <2> QED BY <2>1, <2>2 DEF Diligent
<1>3. CASE ToUnlink(p)
  <2>1. /\ pc[p] = "visit" /\ purpose[p] = "prune" /\ mem[p].todo = {}
        /\ pc'[p] = "unlink" /\ UNCHANGED <<mem, artifacts, gens>>
    BY <1>3, SelfDiligent DEF ToUnlink, VisitsDone, Goto, files
  <2>2. Tally(p)'
    BY <2>1, SelfDiligent DEF Diligent, Tally, Spared, Complete, Present
  <2> QED BY <2>1, <2>2 DEF Diligent
<1>4. CASE UnlinkGeneration(p)
  <2> DEFINE g == Max(mem[p].doomed)
  <2>1. /\ pc[p] = "unlink" /\ UNCHANGED <<pc, artifacts>>
        /\ gens' = [h \in DOMAIN gens \ {g} |-> gens[h]]
        /\ mem'[p].doomed = mem[p].doomed \ {g} /\ mem'[p].todo = mem[p].todo
        /\ mem'[p].kept = mem[p].kept
    BY <1>4, SelfDiligent DEF UnlinkGeneration
  <2>2. Tally(p) /\ mem[p].todo = {}
    BY <2>1, SelfDiligent DEF Diligent
  <2>3. g \in mem[p].doomed
    <3>1. mem[p].doomed \in SUBSET Nat /\ IsFiniteSet(mem[p].doomed) /\ mem[p].doomed # {}
      BY <1>4, <2>2, SelfDiligent, FS_Subset DEF Tally, UnlinkGeneration
    <3> QED BY <3>1, GreatestElement
  <2> HIDE DEF g
  <2>4. DOMAIN gens' = DOMAIN gens \ {g} /\ \A h \in DOMAIN gens' : gens'[h] = gens[h]
    BY <2>1
  <2>5. Spared(p)' = Spared(p)
    BY <2>1, <2>3, <2>4 DEF Spared
  <2>6. \A h \in DOMAIN gens \ {g} : Complete(h)' <=> Complete(h)
    BY <2>1, <2>4 DEF Complete, Present
  <2>7. Tally(p)'
    <3>1. g \notin Spared(p)
      BY <2>3 DEF Spared
    <3>2. \A h \in Spared(p) : Complete(h)'
      BY <2>2, <2>6, <3>1 DEF Tally, Spared
    <3>3. (\E h \in mem'[p].doomed : Complete(h)') => mem'[p].kept = 2
      BY <2>1, <2>2, <2>6 DEF Tally
    <3>4. /\ mem'[p].todo \subseteq DOMAIN gens'
          /\ mem'[p].doomed \subseteq DOMAIN gens' \ mem'[p].todo
      BY <2>1, <2>2, <2>4 DEF Tally
    <3> QED BY <2>1, <2>2, <2>5, <3>2, <3>3, <3>4 DEF Tally
  <2> QED BY <2>1, <2>2, <2>7 DEF Diligent
<1> QED BY <1>1, <1>2, <1>3, <1>4 DEF Publish

\* The steps of an eviction.
LEMMA EvictStaysDiligent ==
  ASSUME AloneInv, NEW p \in Processes, EvictArtifacts(p) PROVE Diligent(p)'
<1>1. CASE ReadArtifactDirectory(p)
  <2>1. /\ pc[p] = "visit" /\ purpose[p] = "protect" /\ mem[p].todo = {}
        /\ pc'[p] = "lstatArtifacts" /\ gens' = gens /\ mem'[p].guarded = mem[p].guarded
    BY <1>1, SelfDiligent DEF ReadArtifactDirectory, VisitsDone, Goto, files
  <2> QED BY <2>1, SelfDiligent DEF Diligent
<1>2. CASE StatArtifacts(p)
  <2> DEFINE S == (Present \ mem[p].names) \cup mem[p].guarded
  <2>1. /\ pc[p] = "lstatArtifacts" /\ pc'[p] = "evict" /\ gens' = gens
        /\ mem'[p].victims = Without(artifacts, S)
    BY <1>2, SelfDiligent DEF StatArtifacts, Goto, files
  <2>2. artifacts \in Seq(Files)
    BY SelfDiligent DEF CacheInv, FilesTyped
  <2> HIDE DEF S
  <2>3. mem'[p].victims \in Seq(Files) /\ ToSet(mem'[p].victims) = ToSet(artifacts) \ S
    BY <2>1, <2>2, WithoutElements
  <2>4. \A g \in DOMAIN gens : References(gens[g]) \subseteq S
    BY <2>1, SelfDiligent DEF Diligent, S
  <2> QED BY <2>1, <2>3, <2>4 DEF Diligent
<1>3. CASE StatArtifactMissing(p) \/ EvictionDone(p)
  <2>1. pc'[p] \in {"unsafe", "ready"}
    BY <1>3, SelfDiligent DEF StatArtifactMissing, EvictionDone, End, Goto
  <2> QED BY <2>1, NothingToKeep
<1>4. CASE Evict(p)
  <2>1. /\ pc[p] = "evict" /\ mem[p].victims # <<>> /\ UNCHANGED <<pc, gens>>
        /\ mem'[p].victims = Tail(mem[p].victims)
    BY <1>4, SelfDiligent DEF Evict
  <2>2. /\ mem[p].victims \in Seq(Files)
        /\ \A g \in DOMAIN gens : References(gens[g]) \cap ToSet(mem[p].victims) = {}
    BY <2>1, SelfDiligent DEF Diligent
  <2>3. /\ Tail(mem[p].victims) \in Seq(Files)
        /\ ToSet(Tail(mem[p].victims)) \subseteq ToSet(mem[p].victims)
    BY <2>1, <2>2, TailElements
  <2> QED BY <2>1, <2>2, <2>3 DEF Diligent
<1> QED BY <1>1, <1>2, <1>3, <1>4 DEF EvictArtifacts

\* Every step keeps the invariant of a lone process.
LEMMA AloneStep ==
  ASSUME Alone, AloneInv, [Next]_vars PROVE AloneInv'
<1>1. CacheInv'
  BY CacheStep DEF AloneInv
<1>2. CASE UNCHANGED vars
  <2>1. UNCHANGED <<pc, purpose, mem, artifacts, gens>>
    BY <1>2 DEF vars, files
  <2>2. \A p \in Processes : Diligent(p)'
    BY <2>1 DEF AloneInv, Diligent, Tally, Spared, Complete, Present
  <2> QED BY <1>1, <2>2 DEF AloneInv
<1>3. ASSUME NEW p \in Processes,
             Start(p) \/ Proceed(p) \/ LeaseTimesOut(p) \/ Crash(p) \/ ReclaimLease(p)
      PROVE  AloneInv'
  <2>1. ASSUME Start(p) \/ LeaseTimesOut(p) \/ Crash(p) \/ ReclaimLease(p) \/ Refresh(p)
        PROVE  Diligent(p)'
    <3>1. /\ pc'[p] \in {"readdir", "unavailable", "crashed", "lock", "ready", "catalog",
                         "manifest", "assert"}
          /\ pc'[p] = "readdir" => purpose'[p] = "read"
      <4>1. CASE Start(p) \/ LeaseTimesOut(p) \/ Crash(p) \/ ReclaimLease(p)
        BY <4>1, SelfDiligent DEF Start, LeaseTimesOut, Crash, ReclaimLease, End, Goto, List
      <4>2. CASE Refresh(p)
        BY <4>2, SelfDiligent DEF Refresh, NotModified, Fetched, OriginUnavailable,
             OriginRefuses, FallBack, InstallCatalog, CatalogUnavailable, InstallManifest,
             End, Goto
      <4> QED BY <2>1, <4>1, <4>2
    <3> QED BY <3>1, NothingToKeep
  <2>2. Diligent(p)'
    BY <1>3, <2>1, RetainStaysDiligent, PublishStaysDiligent, EvictStaysDiligent DEF Proceed
  <2>3. \A q \in Processes : q = p
    BY DEF Alone
  <2> QED BY <1>1, <2>2, <2>3 DEF AloneInv
<1> QED BY <1>2, <1>3 DEF Next

\* A process that shares the cache with nobody has at each step tallied what it prunes and
\* guarded what it must not evict, wherever it crashed before.
LEMMA AloneInvariance ==
  ASSUME Alone PROVE Spec => []AloneInv
<1>1. Init => AloneInv
  BY CacheInitial DEF Init, AloneInv, Diligent
<1>2. AloneInv /\ [Next]_vars => AloneInv'
  BY AloneStep
<1> QED BY <1>1, <1>2, PTL DEF Spec

-----------------------------------------------------------------------------
(* What a lone process keeps.                                               *)

\* Only an eviction removes an artifact: every other step reads or installs artifacts.
LEMMA ArtifactsAreKept ==
  ASSUME CacheInv, [Next]_vars, \A p \in Processes : ~Evict(p)
  PROVE  Present \subseteq Present'
<1>1. CASE artifacts' = artifacts
  BY <1>1 DEF Present
<1>2. CASE artifacts' # artifacts
  <2>1. PICK p \in Processes : Proceed(p)
    <3>1. \A p \in Processes : ~(Start(p) \/ LeaseTimesOut(p) \/ Crash(p) \/ ReclaimLease(p))
      BY <1>2 DEF Start, LeaseTimesOut, Crash, ReclaimLease, files
    <3> QED BY <1>2, <3>1 DEF Next, vars, files
  <2>2. CASE Retain(p)
    <3>1. \/ \E g \in DOMAIN gens : artifacts' = ReadBoth(gens[g])
          \/ pc[p] = "snapshot" /\ artifacts' = ReadBoth(retained[p])
      BY <1>2, <2>2 DEF Retain, ReadDirectory, StatEntries, StatEntryMissing, ReadState,
           VisitToPrune, VisitReads, Protect, NoState, VisitsDone, ReadSnapshot, Goto, files
    <3>2. /\ FilesTyped /\ \A g \in DOMAIN gens : gens[g] \in Served
          /\ pc[p] = "snapshot" => retained[p] \in Served
      BY SelfSound DEF CacheInv, FilesTyped
    <3> QED BY <3>1, <3>2, ArtifactsTyped DEF Present
  <2>3. CASE Refresh(p)
    <3>1. /\ pc[p] \in {"catalog", "manifest"}
          /\ \E a \in {Manifest(fetched[p]), Catalog(fetched[p])} : artifacts' = Installed(a)
      BY <1>2, <2>3 DEF Refresh, NotModified, Fetched, OriginUnavailable, OriginRefuses,
           InstallCatalog, CatalogUnavailable, InstallManifest, Goto, files
    <3>2. FilesTyped /\ fetched[p] \in Served
      BY <3>1, SelfSound DEF CacheInv
    <3> QED BY <3>1, <3>2, ArtifactsTyped DEF Present
  <2>4. CASE Publish(p)
    <3>1. pc[p] \in {"assert", "revalidate"} /\ artifacts' = ReadBoth(fetched[p])
      BY <1>2, <2>4 DEF Publish, Validate, Revalidate, AssertPresent, AssertFails, End,
           AcquireLease, LinkGeneration, ToUnlink, VisitsDone, UnlinkGeneration,
           ReleaseLease, Goto, files
    <3>2. FilesTyped /\ fetched[p] \in Served
      BY <3>1, SelfSound DEF CacheInv, Critical
    <3> QED BY <3>1, <3>2, ArtifactsTyped DEF Present
  <2>5. ~EvictArtifacts(p)
    BY <1>2 DEF EvictArtifacts, ReadArtifactDirectory, VisitsDone, StatArtifacts,
         StatArtifactMissing, EvictionDone, files
  <2> QED BY <2>1, <2>2, <2>3, <2>4, <2>5 DEF Proceed
<1> QED BY <1>1, <1>2

\* An eviction of a lone process spares what the retained states refer to.
LEMMA StepProtects ==
  ASSUME AloneInv, [Next]_vars
  PROVE  \A g \in DOMAIN gens : References(gens[g]) \cap Present \subseteq Present'
<1>1. CASE \A p \in Processes : ~Evict(p)
  BY <1>1, ArtifactsAreKept DEF AloneInv
<1>2. ASSUME NEW p \in Processes, Evict(p), NEW g \in DOMAIN gens
      PROVE  References(gens[g]) \cap Present \subseteq Present'
  <2> DEFINE a == Head(mem[p].victims)
  <2>1. /\ pc[p] = "evict" /\ mem[p].victims # <<>>
        /\ artifacts' = artifacts \/ artifacts' = Without(artifacts, {a})
    BY <1>2 DEF Evict
  <2>2. /\ mem[p].victims \in Seq(Files)
        /\ References(gens[g]) \cap ToSet(mem[p].victims) = {}
    BY <1>2, <2>1, SelfDiligent DEF Diligent
  <2>3. a \in ToSet(mem[p].victims)
    BY <2>1, <2>2 DEF ToSet
  <2> HIDE DEF a
  <2>4. artifacts \in Seq(Files)
    BY DEF AloneInv, CacheInv, FilesTyped
  <2>5. ToSet(Without(artifacts, {a})) = ToSet(artifacts) \ {a}
    BY <2>4, WithoutElements
  <2> QED BY <2>1, <2>2, <2>3, <2>5 DEF Present
<1> QED BY <1>1, <1>2

\* Pruning by a lone process dooms a complete state only if two complete ones remain.
LEMMA StepKeepsTwo ==
  ASSUME AloneInv, [Next]_vars, NEW g \in DOMAIN gens \ DOMAIN gens', Complete(g)
  PROVE  Cardinality({h \in DOMAIN gens' : Complete(h)}) >= 2
<1> DEFINE C == {h \in DOMAIN gens' : Complete(h)}
<1>1. PICK p \in Processes : LinkGeneration(p) \/ UnlinkGeneration(p)
  <2>1. gens' # gens
    OBVIOUS
  <2>2. Next
    BY <2>1 DEF vars, files
  <2> QED BY <2>1, <2>2, GenerationsChange
<1>2. ~LinkGeneration(p)
  BY LinkAppends DEF AloneInv
<1>3. /\ pc[p] = "unlink" /\ mem[p].doomed # {}
      /\ DOMAIN gens' = DOMAIN gens \ {Max(mem[p].doomed)}
  BY <1>1, <1>2 DEF UnlinkGeneration
<1>4. Tally(p) /\ mem[p].todo = {}
  BY <1>3, SelfDiligent DEF Diligent
<1>5. Max(mem[p].doomed) \in mem[p].doomed
  <2>1. mem[p].doomed \in SUBSET Nat /\ IsFiniteSet(mem[p].doomed)
    BY <1>4, SelfDiligent, FS_Subset DEF Tally
  <2> QED BY <1>3, <2>1, GreatestElement
<1>6. g \in mem[p].doomed
  BY <1>3, <1>5
<1>7. Cardinality(Spared(p)) = 2
  BY <1>4, <1>6 DEF Tally
<1>8. Spared(p) \subseteq C
  BY <1>3, <1>4, <1>5 DEF Tally, Spared
<1>9. IsFiniteSet(C)
  <2>1. C \subseteq DOMAIN gens
    BY <1>3
  <2> QED BY <2>1, SelfDiligent, FS_Subset
<1> HIDE DEF C
<1>10. Cardinality(Spared(p)) <= Cardinality(C) /\ Cardinality(C) \in Nat
  BY <1>8, <1>9, FS_Subset, FS_CardinalityType
<1>11. Cardinality(C) >= 2
  BY <1>7, <1>10
<1> QED BY <1>11 DEF C

\* Eviction by a process that shares the cache with nobody spares the artifacts of every
\* retained state, however often it has crashed and restarted before.
THEOREM EvictionSparesRetainedStates ==
  ASSUME Alone PROVE Spec => RetainedStatesProtected
<1>1. AloneInv /\ [Next]_vars =>
        [\A g \in DOMAIN gens : References(gens[g]) \cap Present \subseteq Present']_vars
  BY StepProtects
<1> QED BY <1>1, AloneInvariance, PTL DEF Spec, RetainedStatesProtected

\* pruneChannelStateGenerations of such a process unlinks a complete state only if two
\* complete ones remain.
THEOREM PruningKeepsTwo ==
  ASSUME Alone PROVE Spec => TwoCompleteKept
<1>1. AloneInv /\ [Next]_vars =>
        [\A g \in DOMAIN gens \ DOMAIN gens' :
           Complete(g) => Cardinality({h \in DOMAIN gens' : Complete(h)}) >= 2]_vars
  BY StepKeepsTwo
<1> QED BY <1>1, AloneInvariance, PTL DEF Spec, TwoCompleteKept

\* A complete state that such a process has retained is never lost: between any two steps,
\* and after a crash at any of them, there is one to fall back to.
THEOREM LastKnownGoodIsKept ==
  ASSUME Alone PROVE Spec => LastKnownGoodKept
<1>1. ASSUME AloneInv, [Next]_vars, NEW g \in DOMAIN gens, Complete(g)
      PROVE  (\E h \in DOMAIN gens : Complete(h))'
  <2>1. ASSUME NEW h \in DOMAIN gens \cap DOMAIN gens', Complete(h)
        PROVE  Complete(h)'
    <3>1. gens'[h] = gens[h]
      <4>1. CASE gens' # gens
        <5>1. PICK p \in Processes : LinkGeneration(p) \/ UnlinkGeneration(p)
          BY <1>1, <4>1, GenerationsChange DEF vars, files
        <5>2. CASE LinkGeneration(p)
          <6>1. h < mem[p].number /\ mem[p].number \in Nat /\ h \in Nat
            BY <1>1, <5>2, LinkAppends, SelfDiligent DEF AloneInv
          <6>2. h # mem[p].number
            BY <6>1
          <6> QED BY <1>1, <5>2, <6>2, LinkAppends DEF AloneInv
        <5>3. CASE UnlinkGeneration(p)
          BY <2>1, <5>3 DEF UnlinkGeneration
        <5> QED BY <5>1, <5>2, <5>3
      <4> QED BY <4>1
    <3>2. References(gens[h]) \cap Present \subseteq Present'
      BY <1>1, StepProtects
    <3> QED BY <2>1, <3>1, <3>2 DEF Complete
  <2>2. CASE g \in DOMAIN gens'
    BY <1>1, <2>1, <2>2
  <2>3. CASE g \notin DOMAIN gens'
    <3> DEFINE C == {h \in DOMAIN gens' : Complete(h)}
    <3>1. Cardinality(C) >= 2
      BY <1>1, <2>3, StepKeepsTwo
    <3>2. C # {}
      <4> HIDE DEF C
      <4> QED BY <3>1, FS_EmptySet
    <3>3. PICK h \in DOMAIN gens' : Complete(h)
      BY <3>2
    <3>4. h \in DOMAIN gens
      BY <3>3 DEF Complete
    <3> QED BY <2>1, <3>3, <3>4
  <2> QED BY <2>2, <2>3
<1>2. AloneInv /\ [Next]_vars =>
        [(\E g \in DOMAIN gens : Complete(g)) => (\E g \in DOMAIN gens : Complete(g))']_vars
  BY <1>1
<1> QED BY <1>2, AloneInvariance, PTL DEF Spec, LastKnownGoodKept
=============================================================================
