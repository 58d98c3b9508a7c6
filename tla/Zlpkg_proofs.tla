---------------------------- MODULE Zlpkg_proofs ----------------------------
(***************************************************************************)
(* What zlpkg guarantees for any set of processes, packages, remotes,      *)
(* commits and manifests, and any number of edits, pushes and crashes.     *)
(***************************************************************************)
EXTENDS Zlpkg, TLAPS

(***************************************************************************)
(* The inductive invariant.                                                *)
(***************************************************************************)
PCs == {"idle", "locked", "resolving", "cloned", "removing", "removed", "placing", "truncating", "writing"}

Manifests == {m \in Manifest : \/ m \in RootManifests \/ \E c \in Commit : m = Tree[c]
                               \/ \E s \in Source : m \in DirManifests[s]}
Asked     == {d \in Dependency : d.name \in PackageNames}
PathDir   == {<<s>> : s \in Source}
Memo      == [url : Url, ref : Commit \cup {""}, sha : Commit, dir : CacheDir]

Types ==
    /\ root \in RootManifests /\ head \in [Url -> Commit]
    /\ DOMAIN files = Source /\ \A s \in Source : files[s] \in DirManifests[s]
    /\ cache \in [CacheDir -> {"absent", "partial", "pristine"}]
    /\ pc \in [Proc -> PCs] /\ queue \in [Proc -> Seq(Asked)]
    /\ memo \in [Proc -> SUBSET Memo] /\ clone \in [Proc -> Commit \cup {""}]
    /\ DOMAIN mine = Proc /\ DOMAIN seen = Proc /\ DOMAIN results = Proc
    /\ undisturbed \in [Proc -> BOOLEAN] /\ settled \in BOOLEAN
    /\ \A p \in Proc : pc[p] # "idle" => mine[p] \in RootManifests

\* An entry of a graph that was resolved: a git package is what its commit holds, and a path
\* package declares what some manifest of its directory declared.
GraphEntry ==
           [name : PackageNames, kind : {"git", "path"}, source : Url \cup Source, ref : Commit \cup {""},
            rev : Commit \cup {"local"}, version : STRING, depsSha : {<<m.deps>> : m \in Manifests},
            dir : CacheDir \cup PathDir]
Recorded(e) ==
    /\ e \in GraphEntry
    /\ e.kind = "git" => /\ e.source \in Url /\ e.rev \in Commit /\ e.dir = <<e.name, e.rev>> /\ e.ref \in {"", e.rev}
                         /\ Tree[e.rev].name = e.name /\ Tree[e.rev].version = e.version
                         /\ e.depsSha = <<Tree[e.rev].deps>>
    /\ e.kind = "path" => /\ e.ref = "" /\ e.rev = "local" /\ e.dir \in PathDir
                          /\ \E m \in DirManifests[e.dir[1]] : e.depsSha = <<m.deps>>

\* The root's own declarations are recorded as they are written.
AsWritten(d, e) == <<e.name, e.kind, e.source, e.ref>> = <<d.name, d.kind, d.source, d.ref>>

\* S has the root's dependencies and with a package of r its dependencies.
Closed(m, r, S) == /\ NamesOf(m.deps) \subseteq S
                   /\ \A e \in Range(r) : e.name \in S => NamesOf(e.depsSha[1]) \subseteq S

\* e is what d asks for, with the version it pins.
Satisfies(d, e) ==
    /\ e.name = d.name /\ e.kind = d.kind /\ d.pin \in {"", e.version}
    /\ d.kind = "path" => e.dir = <<d.source>>
    /\ d.kind = "git"  => e.source = d.source /\ e.dir = <<e.name, e.rev>> /\ d.ref \in {"", e.rev}

\* e is what d asks for, but perhaps with another version of a live tree.
Meets(d, e) ==
    /\ e.name = d.name /\ e.kind = d.kind
    /\ d.kind = "path" => e.dir = <<d.source>>
    /\ d.kind = "git"  => /\ e.source = d.source /\ e.dir = <<e.name, e.rev>> /\ d.ref \in {"", e.rev}
                          /\ d.pin \in {"", e.version}

Entries(r) == /\ r \in Seq(GraphEntry) /\ \A e \in Range(r) : Recorded(e)
              /\ \A i, j \in DOMAIN r : r[i].name = r[j].name => i = j

\* The graph of a finished resolution.
Graph(m, r) ==
    /\ Entries(r)
    /\ \A d \in Declared(m, r) : \E e \in Range(r) : Meets(d, e)
    /\ \A e \in Range(r) : \E d \in Declared(m, r) : d.name = e.name
    /\ \A d \in Range(m.deps) : \E e \in Range(r) : AsWritten(d, e) /\ d.pin \in {"", e.version}
    /\ \A S \in SUBSET PackageNames : Closed(m, r, S) => NamesOf(r) \subseteq S

\* The graph of a resolution with the queue q still to be looked at: everything asked for
\* is there or in q, the root's declarations come first, and all is needed.
FirstIn(q, d) == \E i \in DOMAIN q : q[i] = d /\ \A k \in DOMAIN q : k < i => q[k].name # d.name

AskedFor(m, r, q)   == /\ Range(q) \subseteq Declared(m, r)
                       /\ \A e \in Range(r) : \E d \in Declared(m, r) : d.name = e.name
Answered(m, r, q)   == \A d \in Declared(m, r) : d \in Range(q) \/ \E e \in Range(r) : Satisfies(d, e)
Listed(d, r)        == \E e \in Range(r) : AsWritten(d, e) /\ d.pin \in {"", e.version}
RootsFirst(m, r, q) == \A d \in Range(m.deps) : Listed(d, r) \/ (d.name \notin NamesOf(r) /\ FirstIn(q, d))
Needed(m, r, q)     == \A S \in SUBSET PackageNames :
                          Closed(m, r, S) => NamesOf(r) \subseteq S /\ NamesOf(q) \subseteq S

Growing(m, r, q) == Entries(r) /\ AskedFor(m, r, q) /\ Answered(m, r, q) /\ RootsFirst(m, r, q) /\ Needed(m, r, q)

Fetching == {"cloned", "removing", "removed", "placing"}

GraphAt(p) ==
    /\ pc[p] \in {"idle", "locked"} => results[p] = <<>> /\ queue[p] = <<>> /\ memo[p] = {}
    /\ pc[p] \in {"resolving"} \cup Fetching => Growing(mine[p], results[p], queue[p])

Graphs == \A p \in Proc : GraphAt(p)

\* An entry of a lock, whatever became of its text.
Blank     == {""}
LockEntry == [name : PackageNames, kind : {"git", "path"}, source : Url \cup Source \cup Blank,
              rev : Commit \cup {"local"} \cup Blank, version : STRING \cup Blank,
              depsSha : {<<m.deps>> : m \in Manifests} \cup {<<>>},
              ref : Commit \cup Blank, dir : CacheDir \cup PathDir \cup {<<>>}]

\* What is about to be written is a graph, unless it was taken over from a lock that two
\* processes wrote.
FinishedAt(p) == pc[p] \in {"truncating", "writing"} =>
    /\ results[p] \in Seq(LockEntry)
    /\ ~seen[p].tangled => Graph(mine[p], results[p])
Finished      == \A p \in Proc : FinishedAt(p)

\* x was fetched for the dependency at the head of the queue.
ForHead(p, x) == /\ pc[p] = "resolving" /\ queue[p] # <<>>
                 /\ LET d == Head(queue[p])
                    IN  d.kind = "git" /\ x.url = d.source /\ x.ref = d.ref /\ x.dir[1] = d.name

\* A fetched checkout lies under the name of the package it holds, or is about to be
\* looked at under that name.
MemoAt(p) == \A x \in memo[p] :
    /\ x.dir = <<x.dir[1], x.sha>> /\ x.ref \in {"", x.sha}
    /\ Tree[x.sha].name = x.dir[1] \/ ForHead(p, x)
    /\ \A y \in memo[p] : x.url = y.url /\ x.ref = y.ref => x = y
Memos == \A p \in Proc : MemoAt(p)

CloneAt(p) == pc[p] \in Fetching =>
    /\ queue[p] # <<>> /\ Head(queue[p]).kind = "git"
    /\ clone[p] \in Commit /\ Head(queue[p]).ref \in {"", clone[p]} /\ Memoized(p, Head(queue[p])) = {}
Clones == \A p \in Proc : CloneAt(p)

\* While nobody else is at work, what a process took stays as it was.
AloneAt(p) == undisturbed[p] =>
    /\ pc[p] # "idle" /\ \A o \in Proc \ {p} : pc[o] = "idle"
    /\ mine[p] = root
    /\ \A x \in memo[p] : cache[x.dir] = "pristine"
    /\ pc[p] \in {"removing", "removed"} => cache[Target(p)] # "pristine"
    /\ pc[p] = "placing" => cache[Target(p)] = "absent"
Alone == \A p \in Proc : AloneAt(p)

\* The lock l is reused as it is.
Lasting(m, l) == Usable(m, l) /\ Reused(m, l) = l.deps

TookAt(p) == undisturbed[p] =>
    /\ pc[p] \in {"resolving"} \cup Fetching => OnDisk(results[p])
    /\ pc[p] \in {"truncating", "writing"} => Lasting(mine[p], LockOf(p))
Took == \A p \in Proc : TookAt(p)

\* A lock that an undisturbed install wrote, and nobody is about to disturb.
Kept == settled =>
    /\ lock.syntax = "ok" /\ Lasting(root, lock)
    /\ \A q \in Proc : /\ pc[q] # "writing"
                       /\ pc[q] \in {"removing", "removed"} =>
                              \A e \in Range(lock.deps) : LockedDir(root, e) # Target(q)

\* The text of a lock, if no two processes wrote it: nothing, or the graph of a resolution or a
\* part of it.
Text(l, m, r) ==
    /\ m \in RootManifests /\ Graph(m, r)
    /\ l.sha = <<m.name, m.version, m.deps>>
    /\ DOMAIN l.deps \subseteq DOMAIN r /\ \A i \in DOMAIN l.deps : \E j \in 0..7 : l.deps[i] = Cut(r[i], j)
Torn(l)   == /\ l = [sha |-> l.sha, deps |-> l.deps, syntax |-> l.syntax, tangled |-> l.tangled]
             /\ l.deps \in Seq(LockEntry)
             /\ ~l.tangled => l.sha = <<>> \/ \E m, r : Text(l, m, r)
Locks     == Torn(lock) /\ \A p \in Proc : Torn(seen[p])

Resolving == Types /\ Graphs /\ Memos /\ Clones /\ Alone
Inv       == Resolving /\ Finished /\ Took /\ Kept /\ Locks

(***************************************************************************)
(* Sequences and manifests.                                                *)
(***************************************************************************)
LEMMA RangeEmpty == Range(<<>>) = {} /\ NamesOf(<<>>) = {}
  BY DEF Range, NamesOf

LEMMA RangeElement ==
  ASSUME NEW S, NEW s \in Seq(S)
  PROVE  /\ \A i \in DOMAIN s : i \in 1..Len(s) /\ s[i] \in S /\ s[i] \in Range(s)
         /\ Range(s) \subseteq S
         /\ \A x \in Range(s) : \E i \in 1..Len(s) : i \in DOMAIN s /\ s[i] = x
  BY DEF Range

LEMMA NamesOfRange == ASSUME NEW s PROVE NamesOf(s) = {x.name : x \in Range(s)}
  BY DEF Range, NamesOf

LEMMA RangeConcat ==
  ASSUME NEW S, NEW s \in Seq(S), NEW t \in Seq(S)
  PROVE  s \o t \in Seq(S) /\ Range(s \o t) = Range(s) \cup Range(t)
<1>1. s \o t \in Seq(S) /\ Len(s \o t) = Len(s) + Len(t)
  OBVIOUS
<1>2. \A i \in 1..Len(s) + Len(t) : (s \o t)[i] = IF i <= Len(s) THEN s[i] ELSE t[i - Len(s)]
  OBVIOUS
<1>3. \A i \in 1..Len(s) : (s \o t)[i] = s[i]
  BY <1>2
<1>4. \A i \in 1..Len(t) : (s \o t)[i + Len(s)] = t[i] /\ i + Len(s) \in 1..Len(s) + Len(t)
  BY <1>2
<1>5. ASSUME NEW x \in Range(s \o t) PROVE x \in Range(s) \cup Range(t)
  <2>1. PICK i \in 1..Len(s) + Len(t) : x = (s \o t)[i]
    BY <1>1 DEF Range
  <2>2. CASE i <= Len(s)
    BY <2>1, <2>2, <1>2 DEF Range
  <2>3. CASE ~(i <= Len(s))
    <3>1. x = t[i - Len(s)] /\ i - Len(s) \in 1..Len(t)
      BY <2>1, <2>3, <1>2
    <3> QED BY <3>1 DEF Range
  <2> QED BY <2>2, <2>3
<1>6. ASSUME NEW x \in Range(s) PROVE x \in Range(s \o t)
  <2>1. PICK i \in 1..Len(s) : x = s[i]
    BY DEF Range
  <2> QED BY <2>1, <1>1, <1>3 DEF Range
<1>7. ASSUME NEW x \in Range(t) PROVE x \in Range(s \o t)
  <2>1. PICK i \in 1..Len(t) : x = t[i]
    BY DEF Range
  <2>2. i + Len(s) \in DOMAIN (s \o t) /\ x = (s \o t)[i + Len(s)]
    BY <2>1, <1>1, <1>4
  <2> QED BY <2>2 DEF Range
<1> QED BY <1>1, <1>5, <1>6, <1>7

LEMMA ConcatElements ==
  ASSUME NEW S, NEW s \in Seq(S), NEW t \in Seq(S)
  PROVE  /\ s \o t \in Seq(S) /\ Len(s \o t) = Len(s) + Len(t)
         /\ \A i \in 1..Len(s) + Len(t) : (s \o t)[i] = IF i <= Len(s) THEN s[i] ELSE t[i - Len(s)]
  OBVIOUS

LEMMA RangeAppend ==
  ASSUME NEW S, NEW s \in Seq(S), NEW x \in S
  PROVE  Append(s, x) \in Seq(S) /\ Range(Append(s, x)) = Range(s) \cup {x}
<1>1. /\ Append(s, x) \in Seq(S) /\ DOMAIN s = 1..Len(s) /\ DOMAIN Append(s, x) = 1..Len(s) + 1
      /\ Append(s, x)[Len(s) + 1] = x /\ \A i \in 1..Len(s) : Append(s, x)[i] = s[i]
  OBVIOUS
<1>2. PICK t : t = Append(s, x)
  OBVIOUS
<1>3. /\ DOMAIN s = 1..Len(s) /\ DOMAIN t = 1..Len(s) + 1 /\ Len(s) \in Nat
      /\ t[Len(s) + 1] = x /\ \A i \in 1..Len(s) : t[i] = s[i]
  BY <1>1, <1>2
<1>4. \A i \in 1..Len(s) + 1 : i \in 1..Len(s) \/ i = Len(s) + 1
  OBVIOUS
<1>5. \A i \in 1..Len(s) : i \in 1..Len(s) + 1
  OBVIOUS
<1>6. Len(s) + 1 \in 1..Len(s) + 1
  OBVIOUS
<1>7. {t[i] : i \in DOMAIN t} = {s[i] : i \in DOMAIN s} \cup {x}
  BY ONLY <1>3, <1>4, <1>5, <1>6
<1> QED BY <1>1, <1>2, <1>7 DEF Range

LEMMA RangeTail ==
  ASSUME NEW S, NEW s \in Seq(S), s # <<>>
  PROVE  /\ Head(s) \in S /\ Head(s) = s[1] /\ Tail(s) \in Seq(S) /\ Len(s) > 0
         /\ Len(Tail(s)) = Len(s) - 1 /\ \A i \in 1..Len(Tail(s)) : Tail(s)[i] = s[i + 1]
         /\ Range(s) = {Head(s)} \cup Range(Tail(s))
<1>1. /\ Head(s) \in S /\ Head(s) = s[1] /\ Tail(s) \in Seq(S) /\ Len(s) > 0
      /\ Len(Tail(s)) = Len(s) - 1 /\ \A i \in 1..Len(Tail(s)) : Tail(s)[i] = s[i + 1]
  OBVIOUS
<1>2. ASSUME NEW x \in Range(s) PROVE x = Head(s) \/ x \in Range(Tail(s))
  <2>1. PICK i \in 1..Len(s) : x = s[i]
    BY DEF Range
  <2>2. CASE i = 1
    BY <1>1, <2>1, <2>2
  <2>3. CASE i # 1
    <3>1. i - 1 \in 1..Len(Tail(s)) /\ Tail(s)[i - 1] = s[i]
      BY <1>1, <2>3
    <3>2. i - 1 \in DOMAIN Tail(s) /\ x = Tail(s)[i - 1]
      BY <1>1, <2>1, <3>1
    <3> QED BY <3>2 DEF Range
  <2> QED BY <2>2, <2>3
<1>3. ASSUME NEW x \in Range(Tail(s)) PROVE x \in Range(s)
  <2>1. PICK i \in 1..Len(Tail(s)) : x = Tail(s)[i]
    BY <1>1 DEF Range
  <2> QED BY <1>1, <2>1 DEF Range
<1>4. Head(s) \in Range(s)
  BY <1>1 DEF Range
<1> QED BY <1>1, <1>2, <1>3, <1>4

LEMMA AllManifests ==
  /\ \A m \in RootManifests : m \in Manifests
  /\ \A s \in Source : \A m \in DirManifests[s] : m \in Manifests
  /\ \A c \in Commit : Tree[c] \in Manifests
  BY ManifestsAssumption DEF Manifests

LEMMA NamesInPackageNames == \A n : n \in PackageNames <=> \E m \in Manifests : n \in NamesOf(m.deps)
<1> DEFINE M == RootManifests \cup {Tree[c] : c \in Commit} \cup UNION {DirManifests[s] : s \in Source}
<1>1. M = Manifests
  BY AllManifests DEF Manifests
<1>2. PackageNames = UNION {NamesOf(m.deps) : m \in M}
  BY DEF PackageNames
<1> HIDE DEF M
<1> QED BY <1>1, <1>2, Zenon

LEMMA ManifestsTyped ==
  ASSUME NEW m \in Manifests
  PROVE  /\ m \in Manifest /\ m.deps \in Seq(Asked) /\ m.name \in STRING /\ m.version \in STRING
         /\ \A i, j \in DOMAIN m.deps : m.deps[i].name = m.deps[j].name => i = j
<1>1. m \in Manifest
  BY DEF Manifests
<1>2. /\ m.deps \in Seq(Dependency) /\ m.name \in STRING /\ m.version \in STRING
      /\ \A i, j \in DOMAIN m.deps : m.deps[i].name = m.deps[j].name => i = j
  BY <1>1 DEF Manifest
<1>3. \A i \in DOMAIN m.deps : m.deps[i] \in Dependency /\ m.deps[i].name \in PackageNames
  BY <1>2, NamesInPackageNames DEF NamesOf
<1>4. m.deps \in Seq(Asked)
  BY <1>2, <1>3 DEF Asked
<1> QED BY <1>1, <1>2, <1>4

LEMMA EmptyName == "" \notin PackageNames
<1> SUFFICES ASSUME "" \in PackageNames PROVE FALSE
  OBVIOUS
<1>1. PICK m \in Manifests : "" \in NamesOf(m.deps)
  BY NamesInPackageNames
<1>2. m.deps \in Seq(Asked)
  BY ManifestsTyped
<1>3. PICK i \in DOMAIN m.deps : m.deps[i].name = ""
  BY <1>1 DEF NamesOf
<1>4. m.deps[i] \in Asked
  BY <1>2, <1>3, RangeElement
<1>5. m.deps[i] \in Dependency
  BY <1>4 DEF Asked
<1> QED BY <1>3, <1>5 DEF Dependency

LEMMA AskedTyped ==
  ASSUME NEW d \in Asked
  PROVE  /\ d.name \in PackageNames /\ d.kind \in {"git", "path"}
         /\ d.kind = "git" => d.source \in Url /\ d.ref \in Commit \cup {""}
         /\ d.kind = "path" => d.source \in Source /\ d.ref = ""
         /\ d.pin \in STRING
  BY DEF Asked, Dependency

(***************************************************************************)
(* Types.                                                                  *)
(***************************************************************************)
LEMMA QuitTypes ==
  ASSUME Types, NEW p \in Proc, Quit(p)
  PROVE  /\ pc' \in [Proc -> PCs] /\ queue' \in [Proc -> Seq(Asked)]
         /\ memo' \in [Proc -> SUBSET Memo] /\ clone' \in [Proc -> Commit \cup {""}]
         /\ DOMAIN mine' = Proc /\ DOMAIN seen' = Proc /\ DOMAIN results' = Proc
         /\ undisturbed' \in [Proc -> BOOLEAN]
         /\ \A q \in Proc : pc'[q] # "idle" => mine'[q] \in RootManifests
<1>1. pc' \in [Proc -> PCs] /\ pc'[p] = "idle" /\ \A q \in Proc : q # p => pc'[q] = pc[q]
  BY DEF Quit, Goto, Types, PCs
<1>2. queue' \in [Proc -> Seq(Asked)]
  <2>1. <<>> \in Seq(Asked)
    OBVIOUS
  <2> QED BY <2>1 DEF Quit, Types
<1>3. /\ memo' \in [Proc -> SUBSET Memo] /\ clone' \in [Proc -> Commit \cup {""}]
      /\ DOMAIN mine' = Proc /\ DOMAIN seen' = Proc /\ DOMAIN results' = Proc
      /\ \A q \in Proc : q # p => mine'[q] = mine[q]
  BY DEF Quit, Types
<1>4. undisturbed' \in [Proc -> BOOLEAN]
  BY DEF Quit, Types
<1> QED BY <1>1, <1>2, <1>3, <1>4 DEF Types

LEMMA RememberTypes ==
  ASSUME Types, NEW p \in Proc, NEW c \in Commit, Remember(p, c), queue[p] # <<>>, Head(queue[p]).kind = "git"
  PROVE  /\ memo' \in [Proc -> SUBSET Memo] /\ clone' \in [Proc -> Commit \cup {""}]
         /\ memo'[p] = memo[p] \cup {[url |-> Head(queue[p]).source, ref |-> Head(queue[p]).ref,
                                     sha |-> c, dir |-> <<Head(queue[p]).name, c>>]}
         /\ \A q \in Proc : q # p => memo'[q] = memo[q] /\ clone'[q] = clone[q]
<1>1. PICK d \in Asked : d = Head(queue[p])
  BY RangeTail DEF Types
<1>2. d.source \in Url /\ d.ref \in Commit \cup {""} /\ <<d.name, c>> \in CacheDir
  BY <1>1, AskedTyped DEF CacheDir
<1>3. [url |-> d.source, ref |-> d.ref, sha |-> c, dir |-> <<d.name, c>>] \in Memo
  BY <1>2 DEF Memo
<1>4. memo' = [memo EXCEPT ![p] = @ \cup {[url |-> d.source, ref |-> d.ref, sha |-> c, dir |-> <<d.name, c>>]}]
      /\ clone' = [clone EXCEPT ![p] = ""]
  BY <1>1 DEF Remember
<1>5. memo \in [Proc -> SUBSET Memo] /\ clone \in [Proc -> Commit \cup {""}]
  BY DEF Types
<1> QED BY <1>1, <1>3, <1>4, <1>5

\* x is what p fetched for d.
FetchedAs(p, d, x) ==
    /\ x.url = d.source /\ x.ref = d.ref /\ x.sha \in Commit /\ x.dir \in CacheDir
    /\ Located(p, d).rev = x.sha /\ Located(p, d).dir = x.dir
    /\ x.dir = <<x.dir[1], x.sha>> /\ x.dir[2] = x.sha /\ x.ref \in {"", x.sha}
    /\ Tree[x.sha].name = x.dir[1] \/ x.dir[1] = d.name
    /\ \A y \in memo[p] : y.url = d.source /\ y.ref = d.ref => x = y

\* A git dependency that was fetched is where the memo says.
LEMMA LocatedGit ==
  ASSUME Types, Memos, NEW p \in Proc, Ready(p), NEW d, d = Head(queue[p]), d.kind = "git"
  PROVE  \E x \in memo[p] : FetchedAs(p, d, x)
<1>1. Memoized(p, d) # {}
  BY DEF Ready, NeedsFetch
<1>2. PICK x \in Memoized(p, d) : Located(p, d) = [rev |-> x.sha, dir |-> x.dir]
  BY <1>1 DEF Located
<1>3. x \in memo[p] /\ x.url = d.source /\ x.ref = d.ref
  BY <1>2 DEF Memoized
<1>4. x \in Memo
  BY <1>3 DEF Types
<1>5. x.sha \in Commit /\ x.dir \in CacheDir
  BY <1>4 DEF Memo
<1>6. /\ x.dir = <<x.dir[1], x.sha>> /\ x.ref \in {"", x.sha} /\ (Tree[x.sha].name = x.dir[1] \/ ForHead(p, x))
      /\ \A y \in memo[p] : x.url = y.url /\ x.ref = y.ref => x = y
  BY <1>3 DEF Memos, MemoAt
<1>7. x.dir[2] = x.sha
  <2>1. PICK n : x.dir = <<n, x.sha>>
    BY <1>6
  <2> QED BY <2>1
<1>8. ForHead(p, x) => x.dir[1] = d.name
  BY DEF ForHead
<1>9. Located(p, d).rev = x.sha /\ Located(p, d).dir = x.dir
  BY <1>2
<1> QED BY <1>3, <1>5, <1>6, <1>7, <1>8, <1>9 DEF FetchedAs

\* The manifest found at a dependency under its own name is one of the manifests.
LEMMA FoundManifest ==
  ASSUME Types, Memos, NEW p \in Proc, Ready(p), NEW d, d = Head(queue[p]),
         NEW f \in Found(d, Located(p, d).dir), f.name = d.name
  PROVE  /\ d \in Asked /\ f \in Manifests
         /\ d.kind = "path" => f = files[d.source] /\ Located(p, d) = [rev |-> "local", dir |-> <<d.source>>]
         /\ d.kind = "git" => \E x \in memo[p] :
               /\ FetchedAs(p, d, x) /\ x.dir = <<d.name, x.sha>>
               /\ f = Tree[x.sha] /\ cache[x.dir] \in {"pristine", "partial"}
<1>1. queue[p] \in Seq(Asked) /\ queue[p] # <<>> /\ d \in Asked
  BY RangeTail DEF Ready, Types
<1>2. d.name # ""
  BY <1>1, AskedTyped, EmptyName
<1>3. CASE d.kind = "path"
  <2>1. Located(p, d) = [rev |-> "local", dir |-> <<d.source>>]
    BY <1>3 DEF Located
  <2>2. d.source \in Source
    BY <1>1, <1>3, AskedTyped
  <2>3. f = files[d.source]
    BY <1>3, <2>1 DEF Found
  <2> QED BY <1>1, <1>3, <2>1, <2>2, <2>3, AllManifests DEF Types
<1>4. CASE d.kind # "path"
  <2>0. d.kind = "git"
    BY <1>1, <1>4, AskedTyped
  <2>1. PICK x \in memo[p] : FetchedAs(p, d, x)
    BY <2>0, LocatedGit
  <2>2. f # NoManifest
    <3>1. NoManifest.name = ""
      BY DEF NoManifest
    <3> QED BY <1>2, <3>1
  <2>3. f = Tree[x.sha] /\ cache[x.dir] \in {"pristine", "partial"}
    <3>1. f \in Found(d, x.dir) /\ x.dir[2] = x.sha
      BY <2>1 DEF FetchedAs
    <3> QED BY <1>4, <2>2, <3>1 DEF Found
  <2>4. x.dir = <<d.name, x.sha>> /\ x.sha \in Commit
    BY <2>1, <2>3 DEF FetchedAs
  <2> QED BY <1>1, <1>4, <2>1, <2>3, <2>4, AllManifests
<1> QED BY <1>3, <1>4

\* A package met again under its name is what this declaration asks for, too.
LEMMA AgreesSatisfies ==
  ASSUME Types, Memos, NEW p \in Proc, Ready(p), NEW d, d = Head(queue[p]),
         NEW e, Recorded(e), e.name = d.name, Agrees(p, d, e)
  PROVE  /\ Satisfies(d, e)
         /\ d.kind = "git" => \A x \in memo[p] : x.url = d.source /\ x.ref = d.ref => Tree[x.sha].name = d.name
<1>1. d \in Asked
  BY RangeTail DEF Ready, Types
<1>2. /\ Identity(e.kind, e.source, e.rev, e.dir) = Identity(d.kind, d.source, Located(p, d).rev, Located(p, d).dir)
      /\ d.pin \in {"", e.version}
  BY DEF Agrees
<1>3. "path" \notin Url /\ e.kind \in {"git", "path"} /\ (e.kind = "git" => e.source \in Url)
  BY ManifestsAssumption DEF Recorded, GraphEntry
<1>4. CASE d.kind = "path"
  <2>1. Located(p, d).dir = <<d.source>>
    BY <1>4 DEF Located
  <2>2. Identity(e.kind, e.source, e.rev, e.dir) = <<"path", <<d.source>>>>
    BY <1>2, <1>4, <2>1 DEF Identity
  <2>3. e.kind = "path" /\ e.dir = <<d.source>>
    BY <1>3, <2>2 DEF Identity
  <2> QED BY <1>2, <1>4, <2>3 DEF Satisfies
<1>5. CASE d.kind # "path"
  <2>0. d.kind = "git" /\ d.source \in Url
    BY <1>1, <1>5, AskedTyped
  <2>x. PICK x \in memo[p] : FetchedAs(p, d, x)
    BY <2>0, LocatedGit
  <2>1. /\ x.ref = d.ref /\ Located(p, d).rev = x.sha /\ x.ref \in {"", x.sha}
        /\ \A y \in memo[p] : y.url = d.source /\ y.ref = d.ref => x = y
    BY <2>x DEF FetchedAs
  <2>2. Identity(e.kind, e.source, e.rev, e.dir) = <<d.source, x.sha>>
    BY <1>2, <1>5, <2>1 DEF Identity
  <2>3. e.kind = "git"
    BY <1>3, <2>0, <2>2 DEF Identity
  <2>4. e.source = d.source /\ e.rev = x.sha
    BY <2>2, <2>3 DEF Identity
  <2>5. Satisfies(d, e)
    BY <1>2, <2>0, <2>1, <2>3, <2>4 DEF Satisfies, Recorded
  <2>6. Tree[x.sha].name = d.name
    BY <2>3, <2>4 DEF Recorded
  <2> QED BY <2>1, <2>5, <2>6
<1> QED BY <1>4, <1>5

LEMMA TypesStart ==
  ASSUME Types, NEW p \in Proc, NEW fresh \in BOOLEAN, Start(p, fresh) PROVE Types'
<1>1. pc' \in [Proc -> PCs] /\ \A q \in Proc : q # p => pc'[q] = pc[q]
  BY DEF Start, Goto, Types, PCs
<1>2. DOMAIN mine' = Proc /\ DOMAIN seen' = Proc /\ mine'[p] = root /\ \A q \in Proc : q # p => mine'[q] = mine[q]
  BY DEF Start, Types
<1>3. undisturbed' \in [Proc -> BOOLEAN]
  BY DEF Start
<1>4. /\ root' = root /\ files' = files /\ head' = head /\ cache' = cache /\ queue' = queue
      /\ results' = results /\ memo' = memo /\ clone' = clone /\ settled' = settled
  BY DEF Start, disk
<1> QED BY <1>1, <1>2, <1>3, <1>4 DEF Types

\* A step that ends a process and leaves the disk alone, or only writes the lock.
LEMMA TypesQuit ==
  ASSUME Types, NEW p \in Proc, Quit(p), UNCHANGED <<root, files, head, cache>>, settled' \in BOOLEAN
  PROVE  Types'
  BY QuitTypes DEF Types

LEMMA TypesReuseMoved == ASSUME Types, NEW p \in Proc, ReuseMoved(p) PROVE Types'
<1>1. pc' \in [Proc -> PCs] /\ \A q \in Proc : pc'[q] # "idle" => pc[q] # "idle"
  BY DEF ReuseMoved, Goto, Types, PCs
<1>2. DOMAIN results' = Proc /\ DOMAIN seen' = Proc /\ mine' = mine /\ UNCHANGED <<disk, queue, memo, clone, history>>
  BY DEF ReuseMoved, Types
<1> QED BY <1>1, <1>2 DEF Types, disk, history

LEMMA TypesResolve == ASSUME Types, NEW p \in Proc, Resolve(p) PROVE Types'
<1>1. pc' \in [Proc -> PCs] /\ \A q \in Proc : pc'[q] # "idle" => pc[q] # "idle"
  BY DEF Resolve, Goto, Types, PCs
<1>2. mine[p].deps \in Seq(Asked)
  BY AllManifests, ManifestsTyped DEF Types, Resolve
<1>3. queue' \in [Proc -> Seq(Asked)]
  BY <1>2 DEF Resolve, Types
<1>4. DOMAIN seen' = Proc /\ UNCHANGED <<disk, mine, results, memo, clone, history>>
  BY DEF Resolve, Types
<1> QED BY <1>1, <1>3, <1>4 DEF Types, disk, history

LEMMA TypesFetchCached == ASSUME Types, NEW p \in Proc, FetchCached(p) PROVE Types'
<1>1. memo' \in [Proc -> SUBSET Memo] /\ clone' \in [Proc -> Commit \cup {""}]
  BY RememberTypes DEF FetchCached, NeedsFetch
<1> QED BY <1>1 DEF FetchCached, Types, disk, history

LEMMA TypesFetchClone == ASSUME Types, NEW p \in Proc, FetchClone(p)
  PROVE  /\ Types'
         /\ clone'[p] \in Commit /\ Head(queue[p]).ref \in {"", clone'[p]} /\ \A q \in Proc : q # p => clone'[q] = clone[q]
<1>1. pc' \in [Proc -> PCs] /\ \A q \in Proc : pc'[q] # "idle" => pc[q] # "idle"
  BY DEF FetchClone, NeedsFetch, Goto, Types, PCs
<1>2. PICK d \in Asked : d = Head(queue[p]) /\ d.kind = "git"
  BY RangeTail DEF FetchClone, NeedsFetch, Types
<1>3. PICK c : c = (IF d.ref = "" THEN head[d.source] ELSE d.ref)
  OBVIOUS
<1>4. c \in Commit /\ d.ref \in {"", c}
  BY <1>2, <1>3, AskedTyped DEF Types
<1>5. clone' = [clone EXCEPT ![p] = c]
  BY <1>2, <1>3 DEF FetchClone
<1>6. clone' \in [Proc -> Commit \cup {""}] /\ clone'[p] = c /\ \A q \in Proc : q # p => clone'[q] = clone[q]
  BY <1>4, <1>5 DEF Types
<1>7. UNCHANGED <<disk, mine, seen, queue, results, memo, history>>
  BY DEF FetchClone
<1>8. Types'
  BY <1>1, <1>6, <1>7 DEF Types, disk, history
<1> QED BY <1>2, <1>4, <1>6, <1>8

LEMMA TargetTyped == ASSUME Types, Clones, NEW p \in Proc, pc[p] \in Fetching
  PROVE  Target(p) \in CacheDir /\ Target(p)[2] = clone[p] /\ queue[p] # <<>> /\ Head(queue[p]).kind = "git" /\ clone[p] \in Commit
<1>1. queue[p] # <<>> /\ Head(queue[p]).kind = "git" /\ clone[p] \in Commit
  BY DEF Clones, CloneAt
<1>2. Head(queue[p]) \in Asked
  BY <1>1, RangeTail DEF Types
<1>3. Head(queue[p]).name \in PackageNames
  BY <1>2, AskedTyped
<1> QED BY <1>1, <1>3 DEF Target, CacheDir

LEMMA TypesSettle == ASSUME Types, Clones, NEW p \in Proc, Settle(p) PROVE Types'
<1>1. pc' \in [Proc -> PCs] /\ \A q \in Proc : pc'[q] # "idle" => pc[q] # "idle"
  BY DEF Settle, Goto, Types, PCs
<1>2. queue[p] # <<>> /\ Head(queue[p]).kind = "git" /\ clone[p] \in Commit
  BY TargetTyped DEF Settle, Fetching
<1>3. memo' \in [Proc -> SUBSET Memo] /\ clone' \in [Proc -> Commit \cup {""}]
  <2>1. CASE UNCHANGED <<memo, clone>>
    BY <2>1 DEF Types
  <2>2. CASE Remember(p, clone[p])
    BY <1>2, <2>2, RememberTypes
  <2> QED BY <2>1, <2>2 DEF Settle
<1>4. UNCHANGED <<disk, mine, seen, queue, results, history>>
  BY DEF Settle
<1> QED BY <1>1, <1>3, <1>4 DEF Types, disk, history

LEMMA TypesSettleRemove == ASSUME Types, Clones, NEW p \in Proc, SettleRemove(p)
  PROVE  /\ Types' /\ Target(p) \in CacheDir /\ cache'[Target(p)] # "pristine"
         /\ pc[p] = "removed" => cache'[Target(p)] = "absent"
         /\ \A d \in CacheDir : d # Target(p) => cache'[d] = cache[d]
<1>1. pc' \in [Proc -> PCs] /\ \A q \in Proc : pc'[q] # "idle" => pc[q] # "idle"
  BY DEF SettleRemove, Goto, Types, PCs
<1>2. Target(p) \in CacheDir
  BY TargetTyped DEF SettleRemove, Fetching
<1>3. PICK t \in CacheDir : t = Target(p)
  BY <1>2
<1>4. cache' = [cache EXCEPT ![t] = IF pc[p] = "removing" /\ @ # "absent" THEN "partial" ELSE "absent"]
  BY <1>3 DEF SettleRemove
<1>5. /\ cache' \in [CacheDir -> {"absent", "partial", "pristine"}] /\ cache'[t] # "pristine"
      /\ pc[p] = "removed" => cache'[t] = "absent"
      /\ \A d \in CacheDir : d # t => cache'[d] = cache[d]
  BY <1>3, <1>4 DEF Types
<1>6. UNCHANGED <<root, files, head, lock, locals, history>>
  BY DEF SettleRemove
<1>7. Types'
  BY <1>1, <1>5, <1>6 DEF Types, locals, history
<1> QED BY <1>2, <1>3, <1>5, <1>7

LEMMA TypesSettleRename == ASSUME Types, Clones, NEW p \in Proc, SettleRename(p)
  PROVE  /\ Types' /\ Target(p) \in CacheDir /\ cache[Target(p)] = "absent" /\ cache'[Target(p)] = "pristine"
         /\ \A d \in CacheDir : d # Target(p) => cache'[d] = cache[d]
<1>1. pc' \in [Proc -> PCs] /\ \A q \in Proc : pc'[q] # "idle" => pc[q] # "idle"
  BY DEF SettleRename, Goto, Types, PCs
<1>2. Target(p) \in CacheDir /\ queue[p] # <<>> /\ Head(queue[p]).kind = "git" /\ clone[p] \in Commit
  BY TargetTyped DEF SettleRename, Fetching
<1>3. memo' \in [Proc -> SUBSET Memo] /\ clone' \in [Proc -> Commit \cup {""}]
  BY <1>2, RememberTypes DEF SettleRename
<1>4. PICK t \in CacheDir : t = Target(p)
  BY <1>2
<1>5. cache' = [cache EXCEPT ![t] = "pristine"]
  BY <1>4 DEF SettleRename
<1>6. /\ cache' \in [CacheDir -> {"absent", "partial", "pristine"}] /\ cache'[t] = "pristine"
      /\ \A d \in CacheDir : d # t => cache'[d] = cache[d]
  BY <1>4, <1>5 DEF Types
<1>7. UNCHANGED <<root, files, head, lock, mine, seen, queue, results, history>>
  BY DEF SettleRename
<1>8. Types'
  BY <1>1, <1>3, <1>6, <1>7 DEF Types, history
<1> QED BY <1>2, <1>4, <1>6, <1>8 DEF SettleRename

LEMMA TypesSettleCopy == ASSUME Types, Clones, NEW p \in Proc, SettleCopy(p) PROVE Types'
<1>1. pc' \in [Proc -> PCs] /\ \A q \in Proc : pc'[q] # "idle" => pc[q] # "idle"
  BY DEF SettleCopy, Goto, Types, PCs
<1>2. queue[p] # <<>> /\ Head(queue[p]).kind = "git" /\ clone[p] \in Commit
  BY TargetTyped DEF SettleCopy, Fetching
<1>3. memo' \in [Proc -> SUBSET Memo] /\ clone' \in [Proc -> Commit \cup {""}]
  BY <1>2, RememberTypes DEF SettleCopy
<1>4. UNCHANGED <<disk, mine, seen, queue, results, history>>
  BY DEF SettleCopy
<1> QED BY <1>1, <1>3, <1>4 DEF Types, disk, history

LEMMA TypesRevisit == ASSUME Types, NEW p \in Proc, Revisit(p) PROVE Types'
<1>1. Tail(queue[p]) \in Seq(Asked)
  BY RangeTail DEF Revisit, Ready, Types
<1>2. queue' \in [Proc -> Seq(Asked)]
  BY <1>1 DEF Revisit, Types
<1> QED BY <1>2 DEF Revisit, Types, disk, history

LEMMA TypesVisit == ASSUME Types, Memos, NEW p \in Proc, Visit(p) PROVE Types'
<1>1. PICK d : d = Head(queue[p])
  OBVIOUS
<1>2. PICK f \in Found(d, Located(p, d).dir) :
         /\ f.name = d.name /\ queue' = [queue EXCEPT ![p] = Tail(@) \o f.deps]
         /\ results' = [results EXCEPT ![p] = Append(@, Entry(d, Located(p, d), f))]
  BY <1>1 DEF Visit
<1>3. f \in Manifests
  BY <1>1, <1>2, FoundManifest DEF Visit
<1>4. Tail(queue[p]) \o f.deps \in Seq(Asked)
  <2>1. Tail(queue[p]) \in Seq(Asked)
    BY RangeTail DEF Visit, Ready, Types
  <2> QED BY <1>3, <2>1, RangeConcat, ManifestsTyped
<1>5. queue' \in [Proc -> Seq(Asked)] /\ DOMAIN results' = Proc
  BY <1>2, <1>4 DEF Types
<1> QED BY <1>5 DEF Visit, Types, disk, history

LEMMA TypesTruncate == ASSUME Types, NEW p \in Proc, Truncate(p) PROVE Types'
<1>1. pc' \in [Proc -> PCs] /\ \A q \in Proc : pc'[q] # "idle" => pc[q] # "idle"
  BY DEF Truncate, Goto, Types, PCs
<1>2. memo' \in [Proc -> SUBSET Memo]
  BY DEF Truncate, Types
<1> QED BY <1>1, <1>2 DEF Truncate, Types

LEMMA TypesEdit == ASSUME Types, Edit PROVE Types'
<1>1. UNCHANGED <<head, lock, pc, locals>> /\ undisturbed' \in [Proc -> BOOLEAN] /\ settled' \in BOOLEAN
  BY DEF Edit
<1>2. /\ root' \in RootManifests /\ DOMAIN files' = Source /\ \A s \in Source : files'[s] \in DirManifests[s]
      /\ cache' \in [CacheDir -> {"absent", "partial", "pristine"}]
  <2>1. CASE root' \in RootManifests \ {root} /\ UNCHANGED <<files, cache>>
    BY <2>1 DEF Types
  <2>2. ASSUME NEW s \in Source, NEW f \in DirManifests[s], files' = [files EXCEPT ![s] = f], UNCHANGED <<root, cache>>
        PROVE  /\ root' \in RootManifests /\ DOMAIN files' = Source /\ \A t \in Source : files'[t] \in DirManifests[t]
               /\ cache' \in [CacheDir -> {"absent", "partial", "pristine"}]
    BY <2>2 DEF Types
  <2>3. ASSUME NEW d \in CacheDir, NEW x \in {"partial", "absent"}, cache' = [cache EXCEPT ![d] = x], UNCHANGED <<root, files>>
        PROVE  /\ root' \in RootManifests /\ DOMAIN files' = Source /\ \A t \in Source : files'[t] \in DirManifests[t]
               /\ cache' \in [CacheDir -> {"absent", "partial", "pristine"}]
    BY <2>3 DEF Types
  <2> QED BY <2>1, <2>2, <2>3 DEF Edit
<1> QED BY <1>1, <1>2 DEF Types, locals

LEMMA TypesPush == ASSUME Types, Push PROVE Types'
<1>1. head' \in [Url -> Commit]
  BY DEF Push, Types
<1> QED BY <1>1 DEF Push, Types, locals

(***************************************************************************)
(* A step of one process leaves what the others know alone.                *)
(***************************************************************************)
Move(p) == \/ \E fresh \in BOOLEAN : Start(p, fresh)
           \/ Reuse(p) \/ ReuseMoved(p) \/ Resolve(p) \/ FetchCached(p) \/ FetchClone(p)
           \/ FetchFails(p) \/ Settle(p) \/ SettleRemove(p) \/ SettleRename(p)
           \/ SettleFails(p) \/ SettleCopy(p) \/ Revisit(p) \/ Reject(p) \/ Visit(p)
           \/ Truncate(p) \/ Write(p) \/ Crash(p)

Still(q) == /\ pc'[q] = pc[q] /\ mine'[q] = mine[q] /\ seen'[q] = seen[q] /\ queue'[q] = queue[q]
            /\ results'[q] = results[q] /\ memo'[q] = memo[q] /\ clone'[q] = clone[q]

LEMMA NextMoves == Next => Edit \/ Push \/ \E p \in Proc : Move(p)
  BY DEF Next, Move

LEMMA OthersStill == ASSUME Types, NEW p \in Proc, Move(p), NEW q \in Proc, q # p PROVE Still(q)
<1>0. /\ pc \in [Proc -> PCs] /\ queue \in [Proc -> Seq(Asked)] /\ memo \in [Proc -> SUBSET Memo]
      /\ clone \in [Proc -> Commit \cup {""}]
      /\ DOMAIN mine = Proc /\ DOMAIN seen = Proc /\ DOMAIN results = Proc
  BY DEF Types
<1>1. ASSUME Quit(p) PROVE Still(q)
  BY <1>0, <1>1 DEF Quit, Goto, Still
<1>2. ASSUME NEW c, Remember(p, c) PROVE memo'[q] = memo[q] /\ clone'[q] = clone[q]
  BY <1>0, <1>2 DEF Remember
<1>3. ASSUME NEW fresh \in BOOLEAN, Start(p, fresh) PROVE Still(q)
  BY <1>0, <1>3 DEF Start, Goto, Still
<1>4. ASSUME ReuseMoved(p) PROVE Still(q)
  BY <1>0, <1>4 DEF ReuseMoved, Goto, Still
<1>5. ASSUME Resolve(p) PROVE Still(q)
  BY <1>0, <1>5 DEF Resolve, Goto, Still
<1>6. ASSUME FetchCached(p) PROVE Still(q)
  <2>1. memo'[q] = memo[q] /\ clone'[q] = clone[q]
    BY <1>2, <1>6 DEF FetchCached
  <2> QED BY <1>6, <2>1 DEF FetchCached, Still
<1>7. ASSUME FetchClone(p) PROVE Still(q)
  BY <1>0, <1>7 DEF FetchClone, Goto, Still
<1>8. ASSUME Settle(p) PROVE Still(q)
  <2>1. memo'[q] = memo[q] /\ clone'[q] = clone[q] /\ pc'[q] = pc[q]
    BY <1>0, <1>2, <1>8 DEF Settle, Goto
  <2> QED BY <1>8, <2>1 DEF Settle, Still
<1>9. ASSUME SettleRemove(p) PROVE Still(q)
  BY <1>0, <1>9 DEF SettleRemove, Goto, locals, Still
<1>10. ASSUME SettleRename(p) PROVE Still(q)
  <2>1. memo'[q] = memo[q] /\ clone'[q] = clone[q] /\ pc'[q] = pc[q]
    BY <1>0, <1>2, <1>10 DEF SettleRename, Goto
  <2> QED BY <1>10, <2>1 DEF SettleRename, Still
<1>11. ASSUME SettleCopy(p) PROVE Still(q)
  <2>1. memo'[q] = memo[q] /\ clone'[q] = clone[q] /\ pc'[q] = pc[q]
    BY <1>0, <1>2, <1>11 DEF SettleCopy, Goto
  <2> QED BY <1>11, <2>1 DEF SettleCopy, Still
<1>12. ASSUME Revisit(p) PROVE Still(q)
  BY <1>0, <1>12 DEF Revisit, Still
<1>13. ASSUME Visit(p) PROVE Still(q)
  <2>1. queue'[q] = queue[q] /\ results'[q] = results[q]
    BY <1>0, <1>13 DEF Visit, Types
  <2> QED BY <1>13, <2>1 DEF Visit, Still
<1>14. ASSUME Truncate(p) PROVE Still(q)
  BY <1>0, <1>14 DEF Truncate, Goto, Still
<1> QED BY <1>1, <1>3, <1>4, <1>5, <1>6, <1>7, <1>8, <1>9, <1>10, <1>11, <1>12, <1>13, <1>14
        DEF Move, Reuse, FetchFails, SettleFails, Reject, Write, Crash

LEMMA TypesStep == ASSUME Types, Clones, Memos, Next PROVE Types'
<1>1. ASSUME NEW p \in Proc, Reuse(p) \/ FetchFails(p) \/ SettleFails(p) \/ Reject(p) \/ Crash(p) PROVE Types'
  <2>1. Quit(p) /\ UNCHANGED <<root, files, head, cache>> /\ settled' = settled
    BY <1>1 DEF Reuse, FetchFails, SettleFails, Reject, Crash, disk
  <2> QED BY <2>1, TypesQuit DEF Types
<1>2. ASSUME NEW p \in Proc, Write(p) PROVE Types'
  <2>1. settled' \in BOOLEAN
    BY <1>2 DEF Write, Types
  <2> QED BY <1>2, <2>1, TypesQuit DEF Write
<1> QED BY <1>1, <1>2, NextMoves, TypesStart, TypesReuseMoved, TypesResolve, TypesFetchCached, TypesFetchClone,
           TypesSettle, TypesSettleRemove, TypesSettleRename, TypesSettleCopy, TypesRevisit, TypesVisit,
           TypesTruncate, TypesEdit, TypesPush DEF Move

(***************************************************************************)
(* Fetched checkouts.                                                      *)
(***************************************************************************)
LEMMA QuitLocals == ASSUME Types, NEW p \in Proc, Quit(p)
  PROVE  /\ pc'[p] = "idle" /\ queue'[p] = <<>> /\ results'[p] = <<>> /\ memo'[p] = {} /\ seen'[p] = NoLock
         /\ ~undisturbed'[p] /\ \A q \in Proc : q # p => undisturbed'[q] = undisturbed[q]
  BY DEF Quit, Goto, Types

LEMMA ClonesStep == ASSUME Types, Clones, Next PROVE Clones'
<1> SUFFICES ASSUME NEW q \in Proc PROVE CloneAt(q)'
  BY DEF Clones
<1>0. CloneAt(q) /\ pc \in [Proc -> PCs]
  BY DEF Clones, Types
<1>1. ASSUME pc'[q] = pc[q], queue'[q] = queue[q], clone'[q] = clone[q], memo'[q] = memo[q] PROVE CloneAt(q)'
  BY <1>0, <1>1 DEF CloneAt, Memoized
<1>2. CASE Edit \/ Push
  BY <1>1, <1>2 DEF Edit, Push, locals
<1>3. ASSUME NEW p \in Proc, Move(p), p # q PROVE CloneAt(q)'
  BY <1>1, <1>3, OthersStill DEF Still
<1>4. CASE Move(q)
  <2>1. ASSUME pc'[q] \notin Fetching PROVE CloneAt(q)'
    BY <2>1 DEF CloneAt
  <2>2. ASSUME Quit(q) PROVE CloneAt(q)'
    BY <2>1, <2>2, QuitLocals DEF Fetching
  <2>3. ASSUME FetchClone(q) PROVE CloneAt(q)'
    BY <2>3, TypesFetchClone DEF CloneAt, FetchClone, NeedsFetch, Memoized
  <2>4. ASSUME Settle(q) PROVE CloneAt(q)'
    <3>1. CASE pc'[q] \in Fetching
      <4>1. pc'[q] # "resolving"
        BY <3>1 DEF Fetching
      <4>2. queue'[q] = queue[q] /\ clone'[q] = clone[q] /\ memo'[q] = memo[q]
        BY <1>0, <2>4, <4>1 DEF Settle, Goto
      <4>3. pc[q] \in Fetching
        BY <2>4 DEF Settle, Fetching
      <4> QED BY <1>0, <4>2, <4>3 DEF CloneAt, Memoized
    <3> QED BY <2>1, <3>1
  <2>5. ASSUME SettleRemove(q) PROVE CloneAt(q)'
    BY <1>0, <2>5 DEF SettleRemove, CloneAt, Fetching, locals, Memoized
  <2>6. ASSUME \/ SettleRename(q) \/ SettleCopy(q) \/ ReuseMoved(q) \/ Resolve(q) \/ Truncate(q)
               \/ \E fresh \in BOOLEAN : Start(q, fresh)
        PROVE  CloneAt(q)'
    <3>1. pc'[q] \in {"resolving", "truncating", "writing", "locked"}
      BY <1>0, <2>6 DEF SettleRename, SettleCopy, ReuseMoved, Resolve, Truncate, Start, Goto
    <3> QED BY <2>1, <3>1 DEF Fetching
  <2>7. ASSUME FetchCached(q) \/ Revisit(q) \/ Visit(q) PROVE CloneAt(q)'
    <3>1. pc'[q] = "resolving"
      BY <2>7 DEF FetchCached, NeedsFetch, Revisit, Visit, Ready
    <3> QED BY <2>1, <3>1 DEF Fetching
  <2> QED BY <1>4, <2>2, <2>3, <2>4, <2>5, <2>6, <2>7 DEF Move, Reuse, FetchFails, SettleFails, Reject, Write, Crash
<1> QED BY <1>2, <1>3, <1>4, NextMoves

LEMMA MemosStep == ASSUME Types, Graphs, Clones, Memos, Next PROVE Memos'
<1> SUFFICES ASSUME NEW q \in Proc PROVE MemoAt(q)'
  BY DEF Memos
<1>0. MemoAt(q) /\ CloneAt(q) /\ pc \in [Proc -> PCs]
  BY DEF Memos, Clones, Types
<1>1. ASSUME pc'[q] = pc[q], queue'[q] = queue[q], memo'[q] = memo[q] PROVE MemoAt(q)'
  BY <1>0, <1>1 DEF MemoAt, ForHead
<1>2. CASE Edit \/ Push
  BY <1>1, <1>2 DEF Edit, Push, locals
<1>3. ASSUME NEW p \in Proc, Move(p), p # q PROVE MemoAt(q)'
  BY <1>1, <1>3, OthersStill DEF Still
<1>4. CASE Move(q)
  <2>1. ASSUME memo'[q] = {} PROVE MemoAt(q)'
    BY <2>1 DEF MemoAt
  <2>2. ASSUME Quit(q) \/ Truncate(q) PROVE MemoAt(q)'
    BY <2>1, <2>2, QuitLocals DEF Truncate, Types
  \* The head of the queue was not fetched before, or stays where it is.
  <2>3. ASSUME memo'[q] = memo[q], \A x \in memo[q] : ForHead(q, x) => Tree[x.sha].name = x.dir[1] PROVE MemoAt(q)'
    BY <1>0, <2>3 DEF MemoAt
  <2>4. ASSUME pc[q] # "resolving", memo'[q] = memo[q] PROVE MemoAt(q)'
    BY <2>3, <2>4 DEF ForHead
  <2>5. ASSUME NeedsFetch(q), NEW x \in memo[q] PROVE ~ForHead(q, x)
    BY <2>5 DEF NeedsFetch, Memoized, ForHead
  <2>6. ASSUME FetchClone(q) PROVE MemoAt(q)'
    BY <2>3, <2>5, <2>6 DEF FetchClone
  <2>7. ASSUME NEW c \in Commit, Remember(q, c), queue'[q] = queue[q], queue[q] # <<>>, Head(queue[q]).kind = "git",
               Head(queue[q]).ref \in {"", c}, pc'[q] = "resolving", Memoized(q, Head(queue[q])) = {}
        PROVE  MemoAt(q)'
    <3>1. PICK d : d = Head(queue[q])
      OBVIOUS
    <3>2. memo'[q] = memo[q] \cup {[url |-> d.source, ref |-> d.ref, sha |-> c, dir |-> <<d.name, c>>]}
      BY <2>7, <3>1, RememberTypes
    <3>3. PICK y : y = [url |-> d.source, ref |-> d.ref, sha |-> c, dir |-> <<d.name, c>>]
      OBVIOUS
    <3>4. y.dir = <<d.name, c>> /\ y.dir[1] = d.name /\ y.sha = c /\ y.ref = d.ref /\ y.url = d.source
      BY <3>3
    <3>5. ForHead(q, y)'
      BY <2>7, <3>1, <3>4 DEF ForHead
    <3>6. y.dir = <<y.dir[1], y.sha>> /\ y.ref \in {"", y.sha}
      BY <2>7, <3>1, <3>4
    <3>7. \A x \in memo[q] : ~(x.url = y.url /\ x.ref = y.ref) /\ ~ForHead(q, x)
      BY <2>7, <3>1, <3>4 DEF Memoized, ForHead
    <3>8. \A x \in memo[q] : /\ x.dir = <<x.dir[1], x.sha>> /\ x.ref \in {"", x.sha}
                             /\ Tree[x.sha].name = x.dir[1]
                             /\ \A z \in memo[q] : x.url = z.url /\ x.ref = z.ref => x = z
      BY <1>0, <3>7 DEF MemoAt
    <3>9. \A x \in memo'[q] : x \in memo[q] \/ x = y
      BY <3>2, <3>3
    <3> QED BY <3>5, <3>6, <3>7, <3>8, <3>9 DEF MemoAt
  <2>8. ASSUME FetchCached(q) PROVE MemoAt(q)'
    <3>1. PICK c \in Commit : c = Head(queue[q]).ref
      BY <2>8 DEF FetchCached
    <3> QED BY <2>7, <2>8, <3>1 DEF FetchCached, NeedsFetch
  <2>9. ASSUME pc[q] \in Fetching, Remember(q, clone[q]), queue'[q] = queue[q], pc'[q] = "resolving" PROVE MemoAt(q)'
    BY <1>0, <2>7, <2>9 DEF CloneAt
  <2>10. ASSUME SettleRename(q) \/ SettleCopy(q) PROVE MemoAt(q)'
    BY <1>0, <2>9, <2>10 DEF SettleRename, SettleCopy, Goto, Fetching
  <2>11. ASSUME Settle(q) PROVE MemoAt(q)'
    <3>1. CASE UNCHANGED <<memo, clone>>
      BY <2>4, <2>11, <3>1 DEF Settle
    <3>2. CASE Goto(q, "resolving") /\ Remember(q, clone[q])
      BY <1>0, <2>9, <2>11, <3>2 DEF Settle, Goto, Fetching
    <3> QED BY <2>11, <3>1, <3>2 DEF Settle
  <2>12. ASSUME SettleRemove(q) \/ ReuseMoved(q) \/ Resolve(q) \/ \E fresh \in BOOLEAN : Start(q, fresh) PROVE MemoAt(q)'
    BY <2>4, <2>12 DEF SettleRemove, ReuseMoved, Resolve, Start, locals
  <2>13. ASSUME Visit(q) PROVE MemoAt(q)'
    <3>1. PICK d : d = Head(queue[q])
      OBVIOUS
    <3>2. PICK f \in Found(d, Located(q, d).dir) : f.name = d.name
      BY <2>13, <3>1 DEF Visit
    <3>3. ASSUME NEW x \in memo[q], ForHead(q, x) PROVE Tree[x.sha].name = x.dir[1]
      <4>1. d.kind = "git"
        BY <3>1, <3>3 DEF ForHead
      <4>2. Ready(q)
        BY <2>13 DEF Visit
      <4>3. PICK y \in memo[q] : FetchedAs(q, d, y) /\ f = Tree[y.sha]
        BY <3>1, <3>2, <4>1, <4>2, FoundManifest
      <4>4. x = y /\ x.dir[1] = d.name
        BY <3>1, <3>3, <4>3 DEF ForHead, FetchedAs
      <4> QED BY <3>2, <4>3, <4>4
    <3> QED BY <2>3, <2>13, <3>3 DEF Visit
  <2>14. ASSUME Revisit(q) PROVE MemoAt(q)'
    <3>1. PICK d : d = Head(queue[q])
      OBVIOUS
    <3>2. PICK e \in Range(results[q]) : e.name = d.name /\ Agrees(q, d, e)
      BY <2>14, <3>1 DEF Revisit
    <3>3. Recorded(e)
      BY <2>14, <3>2 DEF Revisit, Ready, Graphs, GraphAt, Growing, Entries
    <3>4. ASSUME NEW x \in memo[q], ForHead(q, x) PROVE Tree[x.sha].name = x.dir[1]
      <4>1. d.kind = "git" /\ x.url = d.source /\ x.ref = d.ref /\ x.dir[1] = d.name
        BY <3>1, <3>4 DEF ForHead
      <4>2. Ready(q)
        BY <2>14 DEF Revisit
      <4> QED BY <3>1, <3>2, <3>3, <4>1, <4>2, AgreesSatisfies
    <3> QED BY <2>3, <2>14, <3>4 DEF Revisit
  <2> QED BY <1>4, <2>2, <2>6, <2>8, <2>10, <2>11, <2>12, <2>13, <2>14 
          DEF Move, Reuse, FetchFails, SettleFails, Reject, Write, Crash
<1> QED BY <1>2, <1>3, <1>4, NextMoves

(***************************************************************************)
(* The graph grows.                                                        *)
(***************************************************************************)
LEMMA GrowingInit == ASSUME NEW m \in RootManifests PROVE Growing(m, <<>>, m.deps)
<1>1. m.deps \in Seq(Asked) /\ \A i, j \in DOMAIN m.deps : m.deps[i].name = m.deps[j].name => i = j
  BY AllManifests, ManifestsTyped
<1>2. Declared(m, <<>>) = Range(m.deps)
  BY RangeEmpty DEF Declared
<1>3. ASSUME NEW d \in Range(m.deps) PROVE FirstIn(m.deps, d)
  <2>1. PICK i \in DOMAIN m.deps : m.deps[i] = d
    BY DEF Range
  <2>2. \A k \in DOMAIN m.deps : k < i => m.deps[k].name # d.name
    BY <1>1, <2>1
  <2> QED BY <2>1, <2>2 DEF FirstIn
<1>4. Entries(<<>>)
  BY RangeEmpty DEF Entries
<1>5. AskedFor(m, <<>>, m.deps) /\ Answered(m, <<>>, m.deps)
  BY <1>2, RangeEmpty DEF AskedFor, Answered
<1>6. RootsFirst(m, <<>>, m.deps) /\ Needed(m, <<>>, m.deps)
  BY <1>3, RangeEmpty DEF RootsFirst, Needed, Closed
<1> QED BY <1>4, <1>5, <1>6 DEF Growing

\* What is known of the queue when its head is done with.
LEMMA QueueTail ==
  ASSUME NEW q \in Seq(Asked), q # <<>>, NEW t \in Seq(Asked), NEW d, d.name # Head(q).name, FirstIn(q, d)
  PROVE  FirstIn(Tail(q) \o t, d)
<1>1. PICK i \in DOMAIN q : q[i] = d /\ \A k \in DOMAIN q : k < i => q[k].name # d.name
  BY DEF FirstIn
<1>2. /\ DOMAIN q = 1..Len(q) /\ Head(q) = q[1] /\ Tail(q) \in Seq(Asked) /\ Len(q) > 0 /\ Len(q) \in Nat
      /\ Len(Tail(q)) = Len(q) - 1 /\ \A k \in 1..Len(q) - 1 : Tail(q)[k] = q[k + 1]
  BY RangeTail
<1>3. PICK u : u = Tail(q) \o t
  OBVIOUS
<1>4. /\ Len(t) \in Nat /\ DOMAIN u = 1..(Len(q) - 1) + Len(t)
      /\ \A k \in 1..Len(q) - 1 : u[k] = Tail(q)[k]
  BY <1>2, <1>3
<1>5. \A k \in 1..Len(q) - 1 : k + 1 \in DOMAIN q /\ u[k] = q[k + 1]
  BY <1>2, <1>4
<1>6. i \in 2..Len(q)
  BY <1>1, <1>2
<1>7. i - 1 \in DOMAIN u /\ u[i - 1] = d
  BY <1>1, <1>2, <1>4, <1>5, <1>6
<1>8. ASSUME NEW k \in DOMAIN u, k < i - 1 PROVE u[k].name # d.name
  <2>1. k \in 1..Len(q) - 1 /\ k + 1 < i /\ k + 1 \in DOMAIN q
    BY <1>2, <1>4, <1>6, <1>8
  <2> QED BY <1>1, <1>5, <2>1
<1>9. FirstIn(u, d)
  BY <1>7, <1>8 DEF FirstIn
<1> QED BY <1>3, <1>9

LEMMA GrowingRevisit ==
  ASSUME NEW m, NEW r, NEW q \in Seq(Asked), q # <<>>, Growing(m, r, q),
         NEW e \in Range(r), Satisfies(Head(q), e)
  PROVE  Growing(m, r, Tail(q))
<1>1. Tail(q) \in Seq(Asked) /\ Range(q) = {Head(q)} \cup Range(Tail(q))
  BY RangeTail
<1>2. Answered(m, r, Tail(q)) /\ AskedFor(m, r, Tail(q))
  BY <1>1 DEF Growing, Answered, AskedFor
<1>3. Head(q).name \in NamesOf(r)
  BY NamesOfRange DEF Satisfies
<1>4. ASSUME NEW d \in Range(m.deps), ~Listed(d, r)
      PROVE  d.name \notin NamesOf(r) /\ FirstIn(Tail(q), d)
  <2>1. d.name \notin NamesOf(r) /\ FirstIn(q, d)
    BY <1>4 DEF Growing, RootsFirst
  <2>2. d.name # Head(q).name
    BY <1>3, <2>1
  <2>3. PICK t \in Seq(Asked) : t = <<>>
    <3>1. <<>> \in Seq(Asked)
      OBVIOUS
    <3> QED BY <3>1
  <2>4. Tail(q) \o t = Tail(q)
    BY <1>1, <2>3
  <2>5. FirstIn(Tail(q) \o t, d)
    BY <2>1, <2>2, QueueTail
  <2> QED BY <2>1, <2>4, <2>5
<1>5. RootsFirst(m, r, Tail(q))
  BY <1>4 DEF RootsFirst
<1>6. NamesOf(Tail(q)) \subseteq NamesOf(q)
  BY <1>1, NamesOfRange
<1>7. Needed(m, r, Tail(q))
  BY <1>6 DEF Growing, Needed
<1> QED BY <1>2, <1>5, <1>7 DEF Growing

LEMMA GrowingVisit ==
  ASSUME NEW m, NEW r, NEW q \in Seq(Asked), q # <<>>, Growing(m, r, q),
         NEW e, NEW t \in Seq(Asked), Recorded(e), e.depsSha = <<t>>,
         Head(q).name \notin NamesOf(r), Satisfies(Head(q), e), AsWritten(Head(q), e)
  PROVE  Growing(m, Append(r, e), Tail(q) \o t)
<1> DEFINE s == Append(r, e)
           u == Tail(q) \o t
<1>0. r \in Seq(GraphEntry) /\ e \in GraphEntry /\ e.name = Head(q).name /\ e.depsSha[1] = t
  <2>1. <<t>>[1] = t
    OBVIOUS
  <2> QED BY <2>1 DEF Growing, Entries, Recorded, Satisfies
<1>1. /\ Tail(q) \in Seq(Asked) /\ Range(q) = {Head(q)} \cup Range(Tail(q))
      /\ s \in Seq(GraphEntry) /\ Range(s) = Range(r) \cup {e} /\ Range(u) = Range(Tail(q)) \cup Range(t)
  <2>1. Tail(q) \in Seq(Asked) /\ Range(q) = {Head(q)} \cup Range(Tail(q))
    BY RangeTail
  <2>2. s \in Seq(GraphEntry) /\ Range(s) = Range(r) \cup {e}
    BY <1>0, RangeAppend
  <2>3. Range(Tail(q) \o t) = Range(Tail(q)) \cup Range(t)
    <3>1. PICK v \in Seq(Asked) : v = Tail(q)
      BY <2>1
    <3>2. Range(v \o t) = Range(v) \cup Range(t)
      BY ONLY <3>1, t \in Seq(Asked), RangeConcat
    <3> QED BY <3>1, <3>2
  <2> QED BY <2>1, <2>2, <2>3
<1>2. \A x \in Range(s) : Recorded(x)
  BY <1>1 DEF Growing, Entries
<1>3. \A i, j \in DOMAIN s : s[i].name = s[j].name => i = j
  <2>1. /\ DOMAIN r = 1..Len(r) /\ Len(r) \in Nat /\ DOMAIN s = 1..Len(r) + 1 /\ s[Len(r) + 1] = e
        /\ \A i \in 1..Len(r) : s[i] = r[i]
    BY <1>0
  <2>2. \A i \in 1..Len(r) : r[i].name # e.name
    BY <1>0, <2>1 DEF NamesOf
  <2>3. \A i, j \in 1..Len(r) : r[i].name = r[j].name => i = j
    BY <2>1 DEF Growing, Entries
  <2>4. \A i \in DOMAIN s : i \in 1..Len(r) \/ i = Len(r) + 1
    BY <2>1
  <2> QED BY <2>1, <2>2, <2>3, <2>4
<1>4. \A d : d \in Declared(m, s) <=> d \in Declared(m, r) \/ d \in Range(t)
  <2>1. \A d : d \in Declared(m, s) <=> d \in Range(m.deps) \/ \E x \in Range(s) : d \in Range(x.depsSha[1])
    BY DEF Declared
  <2>2. \A d : d \in Declared(m, r) <=> d \in Range(m.deps) \/ \E x \in Range(r) : d \in Range(x.depsSha[1])
    BY DEF Declared
  <2> QED BY <1>0, <1>1, <2>1, <2>2
<1> HIDE DEF s, u
<1>5. Range(q) \subseteq Declared(m, r)
  BY DEF Growing, AskedFor
<1>6. Range(u) \subseteq Declared(m, s)
  BY <1>1, <1>4, <1>5
<1>7. \A x \in Range(s) : \E d \in Declared(m, s) : d.name = x.name
  <2>1. Head(q) \in Declared(m, s)
    BY <1>1, <1>4, <1>5
  <2>2. \A x \in Range(r) : \E d \in Declared(m, r) : d.name = x.name
    BY DEF Growing, AskedFor
  <2> QED BY <1>0, <1>1, <1>4, <2>1, <2>2
<1>8. \A d \in Declared(m, s) : d \in Range(u) \/ \E x \in Range(s) : Satisfies(d, x)
  <2>1. \A d \in Declared(m, r) : d \in Range(q) \/ \E x \in Range(r) : Satisfies(d, x)
    BY DEF Growing, Answered
  <2> QED BY <1>1, <1>4, <2>1
<1>9. ASSUME NEW d \in Range(m.deps), ~Listed(d, s)
      PROVE  d.name \notin NamesOf(s) /\ FirstIn(u, d)
  <2>1. d.name \notin NamesOf(r) /\ FirstIn(q, d)
    BY <1>1, <1>9 DEF Growing, RootsFirst, Listed
  <2>2. d # Head(q)
    BY <1>1, <1>9 DEF Listed, Satisfies
  <2>3. d.name # Head(q).name
    <3>1. PICK i \in DOMAIN q : q[i] = d /\ \A k \in DOMAIN q : k < i => q[k].name # d.name
      BY <2>1 DEF FirstIn
    <3>2. 1 \in DOMAIN q /\ Head(q) = q[1] /\ (i # 1 => 1 < i)
      BY RangeTail
    <3> QED BY <2>2, <3>1, <3>2
  <2>4. d.name \notin NamesOf(s)
    BY <1>0, <1>1, <2>1, <2>3, NamesOfRange
  <2>5. FirstIn(Tail(q) \o t, d)
    BY <2>1, <2>3, QueueTail
  <2> QED BY <2>4, <2>5 DEF u
<1>10. ASSUME NEW S \in SUBSET PackageNames, Closed(m, s, S) PROVE NamesOf(s) \subseteq S /\ NamesOf(u) \subseteq S
  <2>1. Closed(m, r, S)
    BY <1>1, <1>10 DEF Closed
  <2>2. NamesOf(r) \subseteq S /\ NamesOf(q) \subseteq S
    BY <2>1 DEF Growing, Needed
  <2>3. e.name \in S
    BY <1>0, <1>1, <2>2, NamesOfRange
  <2>4. NamesOf(t) \subseteq S
    BY <1>0, <1>1, <1>10, <2>3 DEF Closed
  <2>5. NamesOf(s) \subseteq S
    BY <1>1, <2>2, <2>3, NamesOfRange
  <2>6. NamesOf(u) \subseteq S
    BY <1>1, <2>2, <2>4, NamesOfRange
  <2> QED BY <2>5, <2>6
<1>11. Entries(s)
  BY <1>1, <1>2, <1>3 DEF Entries
<1>12. AskedFor(m, s, u) /\ Answered(m, s, u)
  BY <1>6, <1>7, <1>8 DEF AskedFor, Answered
<1>13. RootsFirst(m, s, u)
  BY <1>9 DEF RootsFirst
<1>14. Needed(m, s, u)
  BY <1>10 DEF Needed
<1>15. Growing(m, s, u)
  BY <1>11, <1>12, <1>13, <1>14 DEF Growing
<1> QED BY <1>15 DEF s, u

LEMMA GrowingDone == ASSUME NEW m, NEW r, Growing(m, r, <<>>) PROVE Graph(m, r)
<1>1. \A d \in Declared(m, r) : \E e \in Range(r) : Satisfies(d, e)
  BY RangeEmpty DEF Growing, Answered
<1>2. /\ \A i, j \in DOMAIN r : r[i].name = r[j].name => i = j
      /\ \A e \in Range(r) : \E d \in Declared(m, r) : d.name = e.name
  BY DEF Growing, Entries, AskedFor
<1>3. \A d \in Declared(m, r) : \E e \in Range(r) : Meets(d, e)
  BY <1>1 DEF Satisfies, Meets
<1>4. \A d \in Range(m.deps) : \E e \in Range(r) : AsWritten(d, e) /\ d.pin \in {"", e.version}
  <2>1. DOMAIN <<>> = {}
    OBVIOUS
  <2> QED BY <2>1 DEF Growing, RootsFirst, Listed, FirstIn
<1>5. \A S \in SUBSET PackageNames : Closed(m, r, S) => NamesOf(r) \subseteq S
  BY DEF Growing, Needed
<1> QED BY <1>2, <1>3, <1>4, <1>5 DEF Growing, Graph

\* The entry of a package looked at for the first time.
Looked(p, d, f, e) == /\ Ready(p) /\ d = Head(queue[p]) /\ f \in Found(d, Located(p, d).dir) /\ f.name = d.name
                      /\ d.pin \in {"", f.version} /\ e = Entry(d, Located(p, d), f)

LEMMA VisitEntry ==
  ASSUME Types, Memos, NEW p \in Proc, NEW d, NEW f, NEW e, Looked(p, d, f, e)
  PROVE  /\ Recorded(e) /\ Satisfies(d, e) /\ AsWritten(d, e) /\ e.depsSha = <<f.deps>> /\ f.deps \in Seq(Asked)
         /\ e.name = f.name /\ e.version = f.version /\ e.kind = d.kind
         /\ d.kind = "path" => e.dir = <<d.source>> /\ f = files[d.source]
         /\ d.kind = "git" => f = Tree[e.rev] /\ \E x \in memo[p] : x.dir = e.dir
<1>a. /\ Ready(p) /\ d = Head(queue[p]) /\ f \in Found(d, Located(p, d).dir) /\ f.name = d.name
      /\ d.pin \in {"", f.version} /\ e = Entry(d, Located(p, d), f)
  BY DEF Looked
<1>0. /\ d \in Asked /\ f \in Manifests
      /\ d.kind = "path" => f = files[d.source] /\ Located(p, d) = [rev |-> "local", dir |-> <<d.source>>]
      /\ d.kind = "git" => \E x \in memo[p] : FetchedAs(p, d, x) /\ x.dir = <<d.name, x.sha>> /\ f = Tree[x.sha]
  <2>1. /\ d \in Asked /\ f \in Manifests
        /\ d.kind = "path" => f = files[d.source] /\ Located(p, d) = [rev |-> "local", dir |-> <<d.source>>]
        /\ d.kind = "git" => \E x \in memo[p] :
              /\ FetchedAs(p, d, x) /\ x.dir = <<d.name, x.sha>>
              /\ f = Tree[x.sha] /\ cache[x.dir] \in {"pristine", "partial"}
    BY <1>a, FoundManifest, Zenon
  <2> QED BY <2>1
<1>1. d \in Asked /\ f \in Manifests
  BY <1>0
<1>2. /\ e.name = d.name /\ e.kind = d.kind /\ e.source = d.source /\ e.ref = d.ref /\ e.version = f.version
      /\ e.depsSha = <<f.deps>> /\ e.rev = Located(p, d).rev /\ e.dir = Located(p, d).dir
      /\ e = [name |-> e.name, kind |-> e.kind, source |-> e.source, ref |-> e.ref, rev |-> e.rev,
              version |-> e.version, depsSha |-> e.depsSha, dir |-> e.dir]
  BY <1>a DEF Entry
<1>3. f.deps \in Seq(Asked) /\ f.version \in STRING
  BY <1>1, ManifestsTyped
<1>4. AsWritten(d, e)
  BY <1>2 DEF AsWritten
<1>5. <<f.deps>> \in {<<m.deps>> : m \in Manifests}
  BY <1>1
<1>6. CASE d.kind = "path"
  <2>0. f = files[d.source] /\ Located(p, d) = [rev |-> "local", dir |-> <<d.source>>]
    BY <1>0, <1>6
  <2>1. /\ f = files[d.source] /\ d.source \in Source /\ d.ref = "" /\ d.name \in PackageNames
        /\ e.rev = "local" /\ e.dir = <<d.source>>
    <3>1. Located(p, d).rev = "local" /\ Located(p, d).dir = <<d.source>>
      BY <2>0
    <3>2. e.rev = "local" /\ e.dir = <<d.source>>
      BY <1>2, <3>1
    <3> QED BY <1>1, <1>6, <2>0, <3>2, AskedTyped
  <2>2. e \in GraphEntry
    BY <1>2, <1>3, <1>5, <1>6, <2>1 DEF GraphEntry, PathDir
  <2>3. f \in DirManifests[e.dir[1]] /\ e.dir \in PathDir
    <3>0. <<d.source>>[1] = d.source
      OBVIOUS
    <3>1. e.dir[1] = d.source
      BY <2>1, <3>0
    <3> QED BY <2>1, <3>1 DEF Types, PathDir
  <2>4. Recorded(e)
    BY <1>2, <1>6, <2>1, <2>2, <2>3 DEF Recorded
  <2> QED BY <1>2, <1>3, <1>4, <1>6, <2>1, <2>4, <1>a DEF Satisfies
<1>7. CASE d.kind = "git"
  <2>1. PICK x \in memo[p] : FetchedAs(p, d, x) /\ x.dir = <<d.name, x.sha>> /\ f = Tree[x.sha]
    BY <1>0, <1>7
  <2>2. /\ x.ref = d.ref /\ x.sha \in Commit /\ x.dir \in CacheDir /\ e.rev = x.sha /\ e.dir = x.dir
        /\ x.ref \in {"", x.sha}
    BY <1>2, <2>1 DEF FetchedAs
  <2>3. d.source \in Url /\ d.ref \in Commit \cup {""} /\ d.name \in PackageNames
    BY <1>1, <1>7, AskedTyped
  <2>4. e \in GraphEntry
    BY <1>2, <1>3, <1>5, <1>7, <2>2, <2>3 DEF GraphEntry
  <2>5. Recorded(e)
    BY <1>2, <1>7, <2>1, <2>2, <2>3, <2>4, <1>a DEF Recorded
  <2> QED BY <1>2, <1>3, <1>4, <1>7, <2>1, <2>2, <2>5, <1>a DEF Satisfies
<1> QED BY <1>1, <1>6, <1>7, AskedTyped

LEMMA GraphsStep == ASSUME Types, Graphs, Memos, Clones, Next PROVE Graphs'
<1> SUFFICES ASSUME NEW q \in Proc PROVE GraphAt(q)'
  BY DEF Graphs
<1>0. GraphAt(q) /\ pc \in [Proc -> PCs] /\ queue[q] \in Seq(Asked) /\ DOMAIN queue = Proc /\ DOMAIN results = Proc
  BY DEF Graphs, Types
<1>1. ASSUME pc'[q] = pc[q], queue'[q] = queue[q], results'[q] = results[q], mine'[q] = mine[q],
             memo'[q] = memo[q]
      PROVE  GraphAt(q)'
  BY <1>0, <1>1 DEF GraphAt
<1>2. CASE Edit \/ Push
  BY <1>1, <1>2 DEF Edit, Push, locals
<1>3. ASSUME NEW p \in Proc, Move(p), p # q PROVE GraphAt(q)'
  BY <1>1, <1>3, OthersStill DEF Still
<1>4. CASE Move(q)
  <2>1. ASSUME Quit(q) PROVE GraphAt(q)'
    BY <2>1, QuitLocals DEF GraphAt, Fetching
  <2>2. ASSUME NEW fresh \in BOOLEAN, Start(q, fresh) PROVE GraphAt(q)'
    <3>1. pc'[q] = "locked" /\ queue'[q] = queue[q] /\ results'[q] = results[q] /\ pc[q] = "idle" /\ memo'[q] = memo[q]
      BY <1>0, <2>2 DEF Start, Goto
    <3> QED BY <1>0, <3>1 DEF GraphAt, Fetching
  <2>3. ASSUME ReuseMoved(q) \/ Truncate(q) PROVE GraphAt(q)'
    <3>1. pc'[q] \in {"truncating", "writing"}
      BY <1>0, <2>3 DEF ReuseMoved, Truncate, Goto
    <3> QED BY <3>1 DEF GraphAt, Fetching
  <2>4. ASSUME Resolve(q) PROVE GraphAt(q)'
    <3>1. /\ pc'[q] = "resolving" /\ queue'[q] = mine[q].deps /\ mine'[q] = mine[q] /\ results'[q] = results[q]
          /\ pc[q] = "locked"
      BY <1>0, <2>4 DEF Resolve, Goto
    <3>2. mine[q] \in RootManifests /\ results[q] = <<>>
      BY <1>0, <3>1 DEF Types, GraphAt
    <3>3. Growing(mine[q], <<>>, mine[q].deps)
      BY <3>2, GrowingInit
    <3> QED BY <3>1, <3>2, <3>3 DEF GraphAt
  \* The fetch of a package.
  <2>5. ASSUME pc[q] \in {"resolving"} \cup Fetching, pc'[q] \in {"resolving"} \cup Fetching,
               queue'[q] = queue[q], results'[q] = results[q], mine'[q] = mine[q]
        PROVE  GraphAt(q)'
    BY <1>0, <2>5 DEF GraphAt, Fetching
  <2>6. ASSUME \/ FetchCached(q) \/ FetchClone(q) \/ Settle(q) \/ SettleRemove(q) \/ SettleRename(q) \/ SettleCopy(q)
        PROVE  GraphAt(q)'
    <3>1. queue'[q] = queue[q] /\ results'[q] = results[q] /\ mine'[q] = mine[q]
      BY <2>6 DEF FetchCached, FetchClone, Settle, SettleRemove, SettleRename, SettleCopy, locals
    <3>2. pc[q] \in {"resolving"} \cup Fetching
      BY <2>6 DEF FetchCached, FetchClone, NeedsFetch, Settle, SettleRemove, SettleRename, SettleCopy, Fetching
    <3>3. pc'[q] \in {"resolving"} \cup Fetching
      BY <1>0, <2>6, <3>2 DEF FetchCached, FetchClone, Settle, SettleRemove, SettleRename, SettleCopy, Goto, Fetching
    <3> QED BY <2>5, <3>1, <3>2, <3>3
  <2>7. ASSUME Ready(q) PROVE Growing(mine[q], results[q], queue[q]) /\ queue[q] # <<>> /\ pc[q] = "resolving"
    BY <1>0, <2>7 DEF GraphAt, Ready
  <2>8. ASSUME Revisit(q) PROVE GraphAt(q)'
    <3>1. PICK d : d = Head(queue[q])
      OBVIOUS
    <3>2. PICK e \in Range(results[q]) : e.name = d.name /\ Agrees(q, d, e)
      BY <2>8, <3>1 DEF Revisit
    <3>3. Ready(q) /\ Growing(mine[q], results[q], queue[q]) /\ queue[q] # <<>> /\ pc[q] = "resolving"
      BY <2>7, <2>8 DEF Revisit
    <3>4. Recorded(e)
      BY <3>2, <3>3 DEF Growing, Entries
    <3>5. Satisfies(d, e)
      BY <3>1, <3>2, <3>3, <3>4, AgreesSatisfies
    <3>6. Growing(mine[q], results[q], Tail(queue[q]))
      BY <1>0, <3>1, <3>3, <3>5, GrowingRevisit
    <3>7. queue'[q] = Tail(queue[q]) /\ mine'[q] = mine[q] /\ results'[q] = results[q] /\ pc'[q] = pc[q]
      BY <1>0, <2>8 DEF Revisit
    <3> QED BY <3>3, <3>6, <3>7 DEF GraphAt
  <2>9. ASSUME Visit(q) PROVE GraphAt(q)'
    <3>1. PICK d : d = Head(queue[q])
      OBVIOUS
    <3>2. PICK f \in Found(d, Located(q, d).dir) :
             /\ f.name = d.name /\ d.pin \in {"", f.version}
             /\ queue' = [queue EXCEPT ![q] = Tail(@) \o f.deps]
             /\ results' = [results EXCEPT ![q] = Append(@, Entry(d, Located(q, d), f))]
      BY <2>9, <3>1 DEF Visit
    <3>3. PICK e : e = Entry(d, Located(q, d), f)
      OBVIOUS
    <3>4. Ready(q) /\ Growing(mine[q], results[q], queue[q]) /\ queue[q] # <<>> /\ pc[q] = "resolving"
      BY <2>7, <2>9 DEF Visit
    <3>5. Recorded(e) /\ Satisfies(d, e) /\ AsWritten(d, e) /\ e.depsSha = <<f.deps>> /\ f.deps \in Seq(Asked)
      <4>1. Looked(q, d, f, e)
        BY <3>1, <3>2, <3>3, <3>4 DEF Looked
      <4> QED BY <4>1, VisitEntry
    <3>6. d.name \notin NamesOf(results[q])
      BY <2>9, <3>1 DEF Visit
    <3>7. PICK t \in Seq(Asked) : t = f.deps
      BY <3>5
    <3>8. Growing(mine[q], Append(results[q], e), Tail(queue[q]) \o t)
      BY <1>0, <3>1, <3>4, <3>5, <3>6, <3>7, GrowingVisit
    <3>9. queue'[q] = Tail(queue[q]) \o t /\ mine'[q] = mine[q] /\ results'[q] = Append(results[q], e) /\ pc'[q] = pc[q]
      BY <1>0, <2>9, <3>2, <3>3, <3>7 DEF Visit
    <3> QED BY <3>4, <3>8, <3>9 DEF GraphAt
  <2> QED BY <1>4, <2>1, <2>2, <2>3, <2>4, <2>6, <2>8, <2>9
          DEF Move, Reuse, FetchFails, SettleFails, Reject, Write, Crash
<1> QED BY <1>2, <1>3, <1>4, NextMoves

(***************************************************************************)
(* Nobody else at work.                                                    *)
(***************************************************************************)
\* A process that is idle can only start.
LEMMA IdleStarts == ASSUME Types, NEW p \in Proc, pc[p] = "idle", Move(p) PROVE \E fresh \in BOOLEAN : Start(p, fresh)
  BY DEF Move, Reuse, ReuseMoved, Resolve, FetchCached, FetchClone, FetchFails, NeedsFetch, Settle, SettleRemove,
         SettleRename, SettleFails, SettleCopy, Revisit, Reject, Visit, Ready, Truncate, Write, Crash

\* A process that stays undisturbed is the one that moves, or nobody does.
LEMMA UndisturbedMoves ==
  ASSUME Types, Alone, NEW q \in Proc, undisturbed'[q], Next
  PROVE  \/ Push
         \/ Move(q) /\ undisturbed[q] /\ \A o \in Proc \ {q} : pc'[o] = "idle" /\ pc[o] = "idle"
         \/ \E fresh \in BOOLEAN : Start(q, fresh)
<1>1. CASE Edit
  BY <1>1 DEF Edit
<1>2. ASSUME NEW p \in Proc, p # q, Move(p) PROVE FALSE
  <2>1. CASE \E fresh \in BOOLEAN : Start(p, fresh)
    BY <1>2, <2>1 DEF Start
  <2>2. CASE undisturbed'[q] = undisturbed[q]
    <3>1. pc[p] = "idle"
      BY <1>2, <2>2 DEF Alone, AloneAt
    <3> QED BY <1>2, <2>1, <3>1, IdleStarts
  <2>3. CASE Quit(p)
    BY <1>2, <2>2, <2>3, QuitLocals
  <2> QED BY <1>2, <2>1, <2>2, <2>3 DEF Move, Reuse, ReuseMoved, Resolve, FetchCached, FetchClone, FetchFails, Settle,
         SettleRemove, SettleRename, SettleFails, SettleCopy, Revisit, Reject, Visit, Truncate, Write, Crash, history
<1>3. CASE Move(q) /\ ~\E fresh \in BOOLEAN : Start(q, fresh)
  <2>1. ~Quit(q)
    BY QuitLocals
  <2>2. undisturbed'[q] = undisturbed[q]
    BY <1>3, <2>1 DEF Move, Reuse, ReuseMoved, Resolve, FetchCached, FetchClone, FetchFails, Settle,
         SettleRemove, SettleRename, SettleFails, SettleCopy, Revisit, Reject, Visit, Truncate, Write, Crash, history
  <2>3. \A o \in Proc \ {q} : pc[o] = "idle"
    BY <2>2 DEF Alone, AloneAt
  <2>4. \A o \in Proc \ {q} : pc'[o] = pc[o]
    BY <1>3, OthersStill DEF Still
  <2> QED BY <1>3, <2>2, <2>3, <2>4
<1> QED BY <1>1, <1>2, <1>3, NextMoves

LEMMA AloneStep == ASSUME Types, Graphs, Memos, Clones, Alone, Next PROVE Alone'
<1> SUFFICES ASSUME NEW q \in Proc, undisturbed'[q] PROVE AloneAt(q)'
  BY DEF Alone, AloneAt
<1>0. /\ pc \in [Proc -> PCs] /\ DOMAIN mine = Proc /\ AloneAt(q)
      /\ memo \in [Proc -> SUBSET Memo] /\ cache \in [CacheDir -> {"absent", "partial", "pristine"}]
  BY DEF Types, Alone
<1>m. ASSUME NEW x \in memo[q] PROVE x.dir \in CacheDir
  <2>1. x \in Memo
    BY <1>0
  <2> QED BY <2>1 DEF Memo
<1>1. CASE Push
  BY <1>0, <1>1 DEF Push, AloneAt, Target, locals
<1>2. ASSUME NEW fresh \in BOOLEAN, Start(q, fresh) PROVE AloneAt(q)'
  <2>1. /\ pc'[q] = "locked" /\ \A o \in Proc \ {q} : pc[o] = "idle" /\ pc'[o] = "idle"
    BY <1>0, <1>2 DEF Start, Goto
  <2>2. mine'[q] = root /\ root' = root /\ memo'[q] = memo[q] /\ cache' = cache
    BY <1>0, <1>2 DEF Start, disk
  <2>3. memo[q] = {}
    BY <1>2 DEF Start, Graphs, GraphAt
  <2> QED BY <2>1, <2>2, <2>3 DEF AloneAt
<1>3. ASSUME Move(q), undisturbed[q], \A o \in Proc \ {q} : pc'[o] = "idle" /\ pc[o] = "idle",
             ~\E fresh \in BOOLEAN : Start(q, fresh)
      PROVE  AloneAt(q)'
  <2>1. /\ pc[q] # "idle" /\ mine[q] = root /\ \A x \in memo[q] : cache[x.dir] = "pristine"
        /\ pc[q] \in {"removing", "removed"} => cache[Target(q)] # "pristine"
        /\ pc[q] = "placing" => cache[Target(q)] = "absent"
    BY <1>0, <1>3 DEF AloneAt
  <2>2. ~Quit(q)
    BY QuitLocals
  <2>3. root' = root /\ mine'[q] = mine[q]
    BY <1>3, <2>2 DEF Move, Reuse, ReuseMoved, Resolve, FetchCached, FetchClone, FetchFails, Settle, SettleRemove, SettleRename,
         SettleFails, SettleCopy, Revisit, Reject, Visit, Truncate, Write, Crash, disk, locals
  <2>4. ASSUME pc'[q] # "idle", \A x \in memo'[q] : cache'[x.dir] = "pristine",
               pc'[q] \in {"removing", "removed"} => (cache[Target(q)] # "pristine")',
               pc'[q] = "placing" => (cache[Target(q)] = "absent")'
        PROVE  AloneAt(q)'
    BY <1>3, <2>1, <2>3, <2>4 DEF AloneAt
  <2>5. ASSUME ReuseMoved(q) \/ Resolve(q) \/ Truncate(q) PROVE AloneAt(q)'
    <3>1. pc'[q] \in {"truncating", "writing", "resolving"} /\ cache' = cache /\ memo'[q] \subseteq memo[q]
      BY <1>0, <2>5 DEF ReuseMoved, Resolve, Truncate, Goto, disk
    <3> QED BY <2>1, <2>4, <3>1
  <2>6. ASSUME Revisit(q) \/ Visit(q) PROVE AloneAt(q)'
    <3>1. pc'[q] = "resolving" /\ cache' = cache /\ memo'[q] = memo[q]
      BY <2>6 DEF Revisit, Visit, Ready, disk
    <3> QED BY <2>1, <2>4, <3>1
  <2>7. ASSUME FetchClone(q) PROVE AloneAt(q)'
    <3>1. pc'[q] = "cloned" /\ cache' = cache /\ memo'[q] = memo[q]
      BY <1>0, <2>7 DEF FetchClone, Goto, disk
    <3> QED BY <2>1, <2>4, <3>1
  \* A checkout is remembered that is there.
  <2>8. ASSUME NEW c \in Commit, Remember(q, c), queue[q] # <<>>, Head(queue[q]).kind = "git", pc'[q] = "resolving",
               cache'[<<Head(queue[q]).name, c>>] = "pristine", \A x \in memo[q] : cache'[x.dir] = "pristine"
        PROVE  AloneAt(q)'
    <3>1. PICK y : y = [url |-> Head(queue[q]).source, ref |-> Head(queue[q]).ref, sha |-> c, dir |-> <<Head(queue[q]).name, c>>]
      OBVIOUS
    <3>2. memo'[q] = memo[q] \cup {y}
      BY <2>8, <3>1, RememberTypes
    <3>3. y.dir = <<Head(queue[q]).name, c>>
      BY <3>1
    <3>4. \A x \in memo'[q] : cache'[x.dir] = "pristine"
      BY <2>8, <3>2, <3>3
    <3> QED BY <2>4, <2>8, <3>4
  <2>9. ASSUME FetchCached(q) PROVE AloneAt(q)'
    <3>1. PICK c \in Commit : c = Head(queue[q]).ref
      BY <2>9 DEF FetchCached
    <3> QED BY <2>1, <2>8, <2>9, <3>1 DEF FetchCached, NeedsFetch, disk
  <2>10. ASSUME Settle(q) PROVE AloneAt(q)'
    <3>1. clone[q] \in Commit /\ queue[q] # <<>> /\ Head(queue[q]).kind = "git" /\ pc[q] = "cloned"
      BY <2>10, TargetTyped DEF Settle, Fetching
    <3>2. cache' = cache /\ queue' = queue
      BY <2>10 DEF Settle, disk
    <3>3. CASE Goto(q, "resolving") /\ Remember(q, clone[q]) /\ cache[Target(q)] = "pristine"
      <4>1. pc'[q] = "resolving"
        BY <1>0, <3>3 DEF Goto
      <4> QED BY <2>1, <2>8, <3>1, <3>2, <3>3, <4>1 DEF Target
    <3>4. CASE UNCHANGED <<memo, clone>>
      <4>1. Target(q)' = Target(q)
        BY <3>2, <3>4 DEF Target
      <4>2. \/ pc'[q] = "placing" /\ cache[Target(q)] = "absent"
            \/ pc'[q] = "removing" /\ cache[Target(q)] = "partial"
            \/ pc'[q] = "resolving"
        BY <1>0, <2>10 DEF Settle, Goto
      <4> QED BY <2>1, <2>4, <3>2, <3>4, <4>1, <4>2
    <3> QED BY <2>10, <3>3, <3>4 DEF Settle
  <2>11. ASSUME SettleRemove(q) PROVE AloneAt(q)'
    <3>1. /\ Target(q) \in CacheDir /\ cache'[Target(q)] # "pristine" /\ (pc[q] = "removed" => cache'[Target(q)] = "absent")
          /\ \A d \in CacheDir : d # Target(q) => cache'[d] = cache[d]
      BY <2>11, TypesSettleRemove
    <3>2. memo' = memo /\ Target(q)' = Target(q)
      BY <2>11 DEF SettleRemove, locals, Target
    <3>3. \/ pc[q] = "removing" /\ pc'[q] = "removed"
          \/ pc[q] = "removed" /\ pc'[q] = "placing"
      BY <1>0, <2>11 DEF SettleRemove, Goto
    <3>4. \A x \in memo[q] : cache'[x.dir] = "pristine"
      BY <1>m, <2>1, <3>1, <3>3
    <3> QED BY <2>4, <3>1, <3>2, <3>3, <3>4
  <2>12. ASSUME SettleRename(q) PROVE AloneAt(q)'
    <3>1. /\ Target(q) \in CacheDir /\ cache'[Target(q)] = "pristine"
          /\ \A d \in CacheDir : d # Target(q) => cache'[d] = cache[d]
      BY <2>12, TypesSettleRename
    <3>2. clone[q] \in Commit /\ queue[q] # <<>> /\ Head(queue[q]).kind = "git"
      BY <2>12, TargetTyped DEF SettleRename, Fetching
    <3>3. pc'[q] = "resolving" /\ Remember(q, clone[q])
      BY <1>0, <2>12 DEF SettleRename, Goto
    <3>4. \A x \in memo[q] : cache'[x.dir] = "pristine"
      BY <1>m, <2>1, <3>1
    <3> QED BY <2>8, <3>1, <3>2, <3>3, <3>4 DEF Target
  <2>13. ~SettleCopy(q)
    BY <2>1 DEF SettleCopy
  <2> QED BY <1>3, <2>2, <2>5, <2>6, <2>7, <2>9, <2>10, <2>11, <2>12, <2>13
          DEF Move, Reuse, FetchFails, SettleFails, Reject, Write, Crash
<1> QED BY <1>1, <1>2, <1>3, UndisturbedMoves

LEMMA ResolvingInit == Init => Resolving
<1> SUFFICES ASSUME Init PROVE Resolving
  OBVIOUS
<1>1. Types
  <2>1. root \in RootManifests /\ head \in [Url -> Commit]
    BY ManifestsAssumption DEF Init
  <2>2. DOMAIN files = Source /\ \A s \in Source : files[s] \in DirManifests[s]
    BY DEF Init
  <2>3. <<>> \in Seq(Asked)
    OBVIOUS
  <2>4. pc \in [Proc -> PCs] /\ queue \in [Proc -> Seq(Asked)] /\ clone \in [Proc -> Commit \cup {""}]
    BY <2>3 DEF Init, PCs
  <2> QED BY <2>1, <2>2, <2>4 DEF Types, Init
<1>2. Graphs /\ Memos /\ Clones /\ Alone
  BY DEF Init, Graphs, GraphAt, Memos, MemoAt, Clones, CloneAt, Alone, AloneAt, Fetching
<1> QED BY <1>1, <1>2 DEF Resolving

LEMMA ResolvingStep == Resolving /\ [Next]_vars => Resolving'
<1>1. ASSUME Resolving, Next PROVE Resolving'
  BY <1>1, TypesStep, GraphsStep, MemosStep, ClonesStep, AloneStep DEF Resolving
<1>2. ASSUME Resolving, UNCHANGED vars PROVE Resolving'
  <2>0. UNCHANGED <<root, files, head, cache, lock, pc, mine, seen, queue, results, memo, clone, undisturbed, settled>>
    BY <1>2 DEF vars, disk, locals, history
  <2>1. Types'
    BY <1>2, <2>0 DEF Resolving, Types
  <2>2. Graphs'
    BY <1>2, <2>0 DEF Resolving, Graphs, GraphAt
  <2>3. Memos'
    BY <1>2, <2>0 DEF Resolving, Memos, MemoAt, ForHead
  <2>4. Clones' /\ Alone'
    BY <1>2, <2>0 DEF Resolving, Clones, CloneAt, Memoized, Alone, AloneAt, Target
  <2> QED BY <2>1, <2>2, <2>3, <2>4 DEF Resolving
<1> QED BY <1>1, <1>2

LEMMA ResolvingAlways == Spec => []Resolving
  BY ResolvingInit, ResolvingStep, PTL DEF Spec

\* git.cpp:137-140: whatever crashes and users left in the cache, an undisturbed process takes a package only from a
\* checkout that verifies.
THEOREM PristineTaken == Spec => TakesPristine
<1>1. ASSUME Resolving, NEW p \in Proc, Visit(p), Head(queue[p]).kind = "git", undisturbed[p]
      PROVE  cache[Located(p, Head(queue[p])).dir] = "pristine"
  <2>1. PICK x \in memo[p] : FetchedAs(p, Head(queue[p]), x)
    BY <1>1, LocatedGit DEF Visit, Resolving
  <2>2. cache[x.dir] = "pristine"
    BY <1>1, <2>1 DEF Resolving, Alone, AloneAt
  <2> QED BY <2>1, <2>2 DEF FetchedAs
<1>2. Resolving => \A p \in Proc : Visit(p) /\ Head(queue[p]).kind = "git" /\ undisturbed[p]
                                  => cache[Located(p, Head(queue[p])).dir] = "pristine"
  BY <1>1
<1> QED BY <1>2, ResolvingAlways, PTL DEF TakesPristine

(***************************************************************************)
(* The lock against the manifest: tryUseLock.                              *)
(***************************************************************************)
LEMMA DeclTyped ==
  ASSUME NEW m \in RootManifests
  PROVE  /\ m.deps \in Seq(Asked)
         /\ \A d \in Range(m.deps) : d \in Asked /\ IsRoot(m, d.name) /\ Decl(m, d.name) = d
         /\ \A n : IsRoot(m, n) => Decl(m, n) \in Range(m.deps) /\ Decl(m, n).name = n
<1>1. m.deps \in Seq(Asked) /\ \A i, j \in DOMAIN m.deps : m.deps[i].name = m.deps[j].name => i = j
  BY AllManifests, ManifestsTyped
<1>2. \A d, x \in Range(m.deps) : d.name = x.name => d = x
  BY <1>1 DEF Range
<1>3. ASSUME NEW n, IsRoot(m, n) PROVE Decl(m, n) \in Range(m.deps) /\ Decl(m, n).name = n
  <2>1. \E d \in Range(m.deps) : d.name = n
    BY <1>3, NamesOfRange DEF IsRoot
  <2> QED BY <2>1 DEF Decl
<1>4. ASSUME NEW d \in Range(m.deps) PROVE d \in Asked /\ IsRoot(m, d.name) /\ Decl(m, d.name) = d
  <2>1. IsRoot(m, d.name)
    BY NamesOfRange DEF IsRoot
  <2>2. d \in Asked
    BY <1>1, RangeElement
  <2> QED BY <1>2, <1>3, <2>1, <2>2
<1> QED BY <1>1, <1>3, <1>4

\* An entry of the lock that stands for the entry x of a graph, as far as tryUseLock can tell.
Copied(e, x) ==
    /\ e.name = x.name /\ e.kind = x.kind /\ e.source = x.source /\ e.rev = x.rev
    /\ e.version = x.version /\ e.depsSha = x.depsSha
    /\ e.ref \in {x.ref, ""} /\ e.dir \in {x.dir, <<>>}
    /\ e = [name |-> e.name, kind |-> e.kind, source |-> e.source, rev |-> e.rev, version |-> e.version,
            depsSha |-> e.depsSha, ref |-> e.ref, dir |-> e.dir]

LEMMA CutCopied == ASSUME NEW x, NEW j \in 0..7, Cut(x, j).depsSha # <<>> PROVE Copied(Cut(x, j), x)
<1>1. j >= 5
  BY DEF Cut
<1>2. j >= 1 /\ j >= 2 /\ j >= 3 /\ j >= 4
  BY <1>1
<1> QED BY <1>1, <1>2 DEF Cut, Copied

\* The manifest on disk of an entry of a graph.
OnDiskOf(x) == IF x.kind = "path" THEN files[x.dir[1]]
               ELSE IF cache[x.dir] = "pristine" THEN Tree[x.rev] ELSE NoManifest

LEMMA GitDir == ASSUME NEW x, Recorded(x), x.kind = "git" PROVE x.dir \in CacheDir /\ x.dir[2] = x.rev
<1>1. PICK n, c : n = x.name /\ c = x.rev
  OBVIOUS
<1>2. n \in PackageNames /\ c \in Commit /\ x.dir = <<n, c>>
  BY <1>1 DEF Recorded, GraphEntry
<1>3. <<n, c>>[2] = c
  OBVIOUS
<1> QED BY <1>1, <1>2, <1>3 DEF CacheDir

LEMMA SourceDir == ASSUME NEW x, Recorded(x), x.kind = "path"
  PROVE  x.dir \notin CacheDir /\ x.dir \in PathDir /\ x.dir # <<>> /\ x.dir[1] \in Source
<1>1. PICK s \in Source : x.dir = <<s>>
  BY DEF Recorded, PathDir
<1>2. <<s>> # <<>> /\ <<s>>[1] = s /\ Len(<<s>>) = 1
  OBVIOUS
<1>3. \A d \in CacheDir : Len(d) = 2
  BY DEF CacheDir
<1> QED BY <1>1, <1>2, <1>3 DEF PathDir

\* A lock that gives the directory of a package of a graph finds its manifest.
LEMMA DirManifest == ASSUME NEW x, Recorded(x), NEW m, NEW e, e.kind = x.kind, LockedDir(m, e) = x.dir
  PROVE  LockedManifest(m, e) = OnDiskOf(x)
<1>1. x.kind \in {"git", "path"}
  BY DEF Recorded, GraphEntry
<1>2. CASE x.kind = "git"
  BY <1>2, GitDir DEF LockedManifest, OnDiskOf
<1>3. CASE x.kind = "path"
  BY <1>3, SourceDir DEF LockedManifest, OnDiskOf
<1> QED BY <1>1, <1>2, <1>3

\* The same package, perhaps with another version of a live tree or without its ref.
Same(x, y) == /\ y.name = x.name /\ y.kind = x.kind /\ y.source = x.source /\ y.rev = x.rev /\ y.depsSha = x.depsSha
              /\ y.dir = x.dir /\ (x.kind = "git" => y.version = x.version)

LEMMA EmptyDir == <<>> \notin CacheDir
<1>1. \A d \in CacheDir : d # <<>>
  BY DEF CacheDir
<1> QED BY <1>1

\* y is the entry e as it is handed to the caller.
RefreshedAs(m, e, y) ==
    /\ y = [name |-> y.name, kind |-> y.kind, source |-> y.source, rev |-> y.rev, version |-> y.version,
            depsSha |-> y.depsSha, ref |-> y.ref, dir |-> y.dir]
    /\ y.name = e.name /\ y.kind = e.kind /\ y.version = LockedManifest(m, e).version /\ y.depsSha = e.depsSha
    /\ y.dir = LockedDir(m, e)
    /\ y.source = (IF IsRoot(m, e.name) THEN Decl(m, e.name).source ELSE e.source)
    /\ y.ref = (IF e.kind = "path" THEN "" ELSE IF IsRoot(m, e.name) THEN Decl(m, e.name).ref ELSE e.ref)
    /\ y.rev = (IF e.kind = "path" THEN "local" ELSE e.rev)

LEMMA RefreshedFields ==
  ASSUME NEW m, NEW e,
         e = [name |-> e.name, kind |-> e.kind, source |-> e.source, rev |-> e.rev, version |-> e.version,
              depsSha |-> e.depsSha, ref |-> e.ref, dir |-> e.dir]
  PROVE  RefreshedAs(m, e, Refreshed(m, e))
<1> DEFINE y == Refreshed(m, e)
<1>1. PICK a1, a2, a3, a4, a5, a6, a7, a8 :
         e = [name |-> a1, kind |-> a2, source |-> a3, rev |-> a4, version |-> a5, depsSha |-> a6, ref |-> a7, dir |-> a8]
  OBVIOUS
<1>2. PICK v, w : v = LockedManifest(m, e).version /\ w = LockedDir(m, e)
  OBVIOUS
<1>3. PICK src : src = (IF IsRoot(m, e.name) THEN Decl(m, e.name).source ELSE e.source)
  OBVIOUS
<1>4. PICK ref : ref = (IF e.kind = "path" THEN "" ELSE IF IsRoot(m, e.name) THEN Decl(m, e.name).ref ELSE e.ref)
  OBVIOUS
<1>5. PICK rev : rev = (IF e.kind = "path" THEN "local" ELSE e.rev)
  OBVIOUS
<1>6. y = [e EXCEPT !.version = v, !.dir = w, !.source = src, !.ref = ref, !.rev = rev]
  BY <1>2, <1>3, <1>4, <1>5 DEF Refreshed
<1> HIDE DEF y
<1>7. y = [name |-> a1, kind |-> a2, source |-> src, rev |-> rev, version |-> v, depsSha |-> a6, ref |-> ref, dir |-> w]
  BY ONLY <1>1, <1>6
<1>8. RefreshedAs(m, e, y)
  BY <1>1, <1>2, <1>3, <1>4, <1>5, <1>7 DEF RefreshedAs
<1> QED BY <1>8 DEF y

LEMMA LockedEntry ==
  ASSUME Types, NEW m \in RootManifests, NEW x, Recorded(x), NEW e, Copied(e, x),
         LockedManifest(m, e) # NoManifest, e.depsSha = <<LockedManifest(m, e).deps>>,
         \A d \in Range(m.deps) : d.name = e.name => AsWritten(d, e) /\ Meets(d, x)
  PROVE  /\ Recorded(Refreshed(m, e)) /\ Same(x, Refreshed(m, e))
         /\ LockedManifest(m, e) = OnDiskOf(x) /\ Refreshed(m, e).version = LockedManifest(m, e).version
         /\ \A d \in Range(m.deps) : d.name = e.name => AsWritten(d, Refreshed(m, e))
         /\ e.kind = "git" /\ ~IsRoot(m, e.name) => Refreshed(m, e).ref = e.ref
<1> DEFINE f == LockedManifest(m, e)
           y == Refreshed(m, e)
<1>1. /\ x \in GraphEntry /\ x.kind \in {"git", "path"} /\ e.kind = x.kind /\ e.name = x.name /\ e.rev = x.rev
      /\ e.source = x.source /\ e.depsSha = x.depsSha /\ e.ref \in {x.ref, ""} /\ e.dir \in {x.dir, <<>>}
      /\ e.version = x.version
  BY DEF Recorded, GraphEntry, Copied
<1>2. /\ x.name \in PackageNames /\ x.source \in Url \cup Source /\ x.ref \in Commit \cup {""}
      /\ x.rev \in Commit \cup {"local"} /\ x.version \in STRING /\ x.depsSha \in {<<w.deps>> : w \in Manifests}
      /\ x.dir \in CacheDir \cup PathDir
  BY <1>1 DEF GraphEntry
\* What the manifest says of a root package is what the lock says.
<1>3. ASSUME IsRoot(m, e.name)
      PROVE  LET d == Decl(m, e.name)
             IN  /\ d.source = x.source /\ d.ref = e.ref /\ d.kind = x.kind /\ d.name = e.name
                 /\ d.kind = "path" => x.dir = <<d.source>>
  <2>1. PICK d \in Range(m.deps) : d = Decl(m, e.name) /\ d.name = e.name
    BY <1>3, DeclTyped
  <2>2. AsWritten(d, e) /\ Meets(d, x)
    BY <2>1
  <2>3. e.kind = d.kind /\ e.source = d.source /\ e.ref = d.ref
    BY <2>2 DEF AsWritten
  <2> QED BY <1>1, <2>1, <2>2, <2>3 DEF Meets
<1>4. LockedDir(m, e) = x.dir
  <2>1. CASE e.kind = "git"
    BY <1>1, <2>1 DEF LockedDir, Recorded
  <2>2. CASE e.kind # "git" /\ IsRoot(m, e.name)
    BY <1>1, <1>3, <2>2 DEF LockedDir
  <2>3. CASE e.kind # "git" /\ ~IsRoot(m, e.name)
    <3>1. LockedDir(m, e) = e.dir
      BY <2>3 DEF LockedDir
    <3>2. e.dir # <<>>
      BY <2>3, <3>1, EmptyDir DEF LockedManifest
    <3> QED BY <1>1, <3>1, <3>2
  <2> QED BY <2>1, <2>2, <2>3
<1>5. x.kind = "path" => x.dir \in PathDir /\ x.dir # <<>> /\ x.dir[1] \in Source
  BY SourceDir
<1>6. f = OnDiskOf(x)
  BY <1>1, <1>4, DirManifest
<1>7. RefreshedAs(m, e, y)
  BY RefreshedFields DEF Copied
<1> HIDE DEF y
<1> USE <1>7 DEF RefreshedAs
<1>8. y.source = x.source /\ y.rev = x.rev /\ y.name = x.name /\ y.kind = x.kind /\ y.depsSha = x.depsSha /\ y.dir = x.dir
  <2>1. y.source = x.source
    BY <1>1, <1>3, <1>7
  <2>2. y.rev = x.rev
    BY <1>1, <1>7 DEF Recorded
  <2> QED BY <1>1, <1>4, <1>7, <2>1, <2>2
<1>9. x.kind = "git" => y.ref \in {"", x.ref} /\ f = Tree[x.rev] /\ f.version = x.version
  <2>1. ASSUME x.kind = "git" PROVE f = Tree[x.rev]
    BY <1>6, <2>1 DEF OnDiskOf
  <2>2. ASSUME x.kind = "git" PROVE y.ref \in {"", x.ref}
    BY <1>1, <1>3, <1>7, <2>2
  <2> QED BY <2>1, <2>2 DEF Recorded
<1>10. x.kind = "path" => y.ref = "" /\ f \in DirManifests[x.dir[1]] /\ f = files[x.dir[1]]
  BY <1>1, <1>5, <1>6, <1>7 DEF OnDiskOf, Types
<1>11. y.version \in STRING /\ y.ref \in Commit \cup {""}
  <2>1. CASE x.kind = "git"
    BY <1>2, <1>7, <1>9, <2>1
  <2>2. CASE x.kind = "path"
    BY <1>5, <1>7, <1>10, <2>2, AllManifests, ManifestsTyped
  <2> QED BY <1>1, <2>1, <2>2
<1>12. y \in GraphEntry
  BY <1>1, <1>2, <1>7, <1>8, <1>11 DEF GraphEntry
<1>13. Recorded(y)
  <2>1. CASE x.kind = "git"
    BY <1>7, <1>8, <1>9, <1>12, <2>1 DEF Recorded
  <2>2. CASE x.kind = "path"
    BY <1>7, <1>8, <1>10, <1>12, <2>2 DEF Recorded
  <2> QED BY <1>1, <2>1, <2>2
<1>14. Same(x, y)
  BY <1>7, <1>8, <1>9 DEF Same
<1>15. ASSUME NEW d \in Range(m.deps), d.name = e.name PROVE AsWritten(d, y)
  <2>1. IsRoot(m, e.name) /\ Decl(m, e.name) = d /\ d \in Asked
    BY <1>15, DeclTyped
  <2>2. d.kind = x.kind /\ d.source = x.source /\ (d.kind = "path" => d.ref = "")
    BY <1>3, <2>1, AskedTyped
  <2>3. y.ref = d.ref
    BY <1>1, <1>7, <2>1, <2>2
  <2> QED BY <1>1, <1>8, <1>15, <2>2, <2>3 DEF AsWritten
<1>16. e.kind = "git" /\ ~IsRoot(m, e.name) => y.ref = e.ref
  BY <1>7
<1> QED BY <1>6, <1>7, <1>13, <1>14, <1>15, <1>16 DEF y

\* The checks of tryUseLock, one by one.
Covers(m, l)  == \A d \in Range(m.deps) : \E e \in Range(l.deps) : AsWritten(d, e)
Verified(m, l) == \A e \in Range(l.deps) :
                     /\ LockedManifest(m, e) # NoManifest /\ LockedManifest(m, e).name = e.name
                     /\ IsRoot(m, e.name) => Decl(m, e.name).pin \in {"", LockedManifest(m, e).version}
                     /\ e.depsSha = <<LockedManifest(m, e).deps>>
Shut(m, l)    == \A e \in Range(l.deps) : NamesOf(LockedManifest(m, e).deps) \subseteq NamesOf(l.deps)
Once(s)       == \A i, j \in DOMAIN s : s[i].name = s[j].name => i = j

LEMMA UsableParts == ASSUME NEW m, NEW l
  PROVE Usable(m, l) <=> /\ l.sha = <<m.name, m.version, m.deps>> /\ Once(l.deps) /\ Covers(m, l) /\ Verified(m, l)
                         /\ Reached(m, l) = NamesOf(l.deps) /\ Shut(m, l)
  BY DEF Usable, Once, Covers, Verified, Shut, AsWritten

LEMMA OnceSame == ASSUME NEW s, Once(s), NEW x \in Range(s), NEW y \in Range(s), x.name = y.name PROVE x = y
  BY DEF Once, Range

\* A set with the root's dependencies and with a package of the lock its dependencies has all names of the lock.
LEMMA ReachedIn ==
  ASSUME NEW m, NEW l, Reached(m, l) = NamesOf(l.deps), NEW S,
         \A n \in NamesOf(m.deps) : n \in NamesOf(l.deps) => n \in S,
         \A e \in Range(l.deps) : e.name \in S =>
             \A n \in NamesOf(LockedManifest(m, e).deps) : n \in NamesOf(l.deps) => n \in S
  PROVE  NamesOf(l.deps) \subseteq S
<1>1. PICK T : T = S \cap NamesOf(l.deps)
  OBVIOUS
<1>2. /\ NamesOf(m.deps) \cap NamesOf(l.deps) \subseteq T
      /\ \A e \in Range(l.deps) : e.name \in T => NamesOf(LockedManifest(m, e).deps) \cap NamesOf(l.deps) \subseteq T
      /\ T \in SUBSET NamesOf(l.deps)
  BY <1>1
<1>3. \A n \in Reached(m, l) : n \in T
  BY <1>2 DEF Reached
<1> QED BY <1>1, <1>3

LEMMA ManifestRecord ==
  ASSUME NEW m \in RootManifests, NEW k \in RootManifests, <<m.name, m.version, m.deps>> = <<k.name, k.version, k.deps>>
  PROVE  m = k
<1>1. m \in [name : STRING, version : STRING, deps : Seq(Dependency)] /\ k \in [name : STRING, version : STRING, deps : Seq(Dependency)]
  BY ManifestsAssumption DEF Manifest
<1>2. m.name = k.name /\ m.version = k.version /\ m.deps = k.deps
  OBVIOUS
<1> QED BY <1>1, <1>2

\* A lock that tryUseLock accepts has the entries of one graph, if one process wrote it.
LEMMA LockOfGraph ==
  ASSUME Types, NEW m \in RootManifests, NEW l, Torn(l), ~l.tangled, Usable(m, l)
  PROVE  \E r : /\ Graph(m, r) /\ DOMAIN l.deps \subseteq DOMAIN r
                /\ \A i \in DOMAIN l.deps : Copied(l.deps[i], r[i])
<1>1. l.sha = <<m.name, m.version, m.deps>> /\ Verified(m, l)
  BY UsableParts
<1>2. <<m.name, m.version, m.deps>> # <<>>
  OBVIOUS
<1>3. PICK k, r : Text(l, k, r)
  BY <1>1, <1>2 DEF Torn
<1>4. Graph(m, r)
  <2>1. k \in RootManifests /\ Graph(k, r) /\ l.sha = <<k.name, k.version, k.deps>>
    BY <1>3 DEF Text
  <2>2. k = m
    BY <1>1, <2>1, ManifestRecord
  <2> QED BY <2>1, <2>2
<1>5. ASSUME NEW i \in DOMAIN l.deps PROVE Copied(l.deps[i], r[i])
  <2>1. PICK j \in 0..7 : l.deps[i] = Cut(r[i], j)
    BY <1>3 DEF Text
  <2>2. l.deps[i].depsSha = <<LockedManifest(m, l.deps[i]).deps>>
    BY <1>1 DEF Verified, Range
  <2>3. Cut(r[i], j).depsSha # <<>>
    BY <2>1, <2>2
  <2> QED BY <2>1, <2>3, CutCopied
<1>6. DOMAIN l.deps \subseteq DOMAIN r
  BY <1>3 DEF Text
<1> QED BY <1>4, <1>5, <1>6

\* A lock of one process that is reused is a graph, and it is what is on disk.
LEMMA LockReused ==
  ASSUME Types, NEW m \in RootManifests, NEW l, Torn(l), ~l.tangled, Usable(m, l)
  PROVE  Graph(m, Reused(m, l)) /\ OnDisk(Reused(m, l))
<1> DEFINE R == Reused(m, l)
<1>1. /\ Once(l.deps) /\ Covers(m, l) /\ Verified(m, l) /\ Reached(m, l) = NamesOf(l.deps) /\ Shut(m, l)
      /\ l.deps \in Seq(LockEntry)
  BY UsableParts DEF Torn
<1>2. PICK r : Graph(m, r) /\ DOMAIN l.deps \subseteq DOMAIN r /\ \A i \in DOMAIN l.deps : Copied(l.deps[i], r[i])
  BY LockOfGraph
<1>3. Once(r) /\ \A x \in Range(r) : Recorded(x)
  BY <1>2 DEF Graph, Entries, Once
<1>4. DOMAIN R = DOMAIN l.deps /\ \A i \in DOMAIN l.deps : R[i] = Refreshed(m, l.deps[i])
  BY DEF Reused
<1> HIDE DEF R
<1>5. ASSUME NEW i \in DOMAIN l.deps
      PROVE  /\ Recorded(R[i]) /\ Same(r[i], R[i]) /\ R[i].name = l.deps[i].name /\ r[i] \in Range(r)
             /\ l.deps[i] \in Range(l.deps) /\ R[i] \in Range(R)
             /\ LockedManifest(m, l.deps[i]) = OnDiskOf(r[i]) /\ R[i].version = OnDiskOf(r[i]).version
             /\ OnDiskOf(r[i]).name = R[i].name /\ R[i].depsSha = <<OnDiskOf(r[i]).deps>>
             /\ \A d \in Range(m.deps) : d.name = R[i].name => AsWritten(d, R[i]) /\ d.pin \in {"", R[i].version}
  <2>1. PICK e, x : e = l.deps[i] /\ x = r[i]
    OBVIOUS
  <2>2. e \in Range(l.deps) /\ x \in Range(r) /\ R[i] \in Range(R) /\ Copied(e, x) /\ R[i] = Refreshed(m, e) /\ Recorded(x)
    BY <1>2, <1>3, <1>4, <2>1 DEF Range
  <2>3. /\ LockedManifest(m, e) # NoManifest /\ LockedManifest(m, e).name = e.name
        /\ IsRoot(m, e.name) => Decl(m, e.name).pin \in {"", LockedManifest(m, e).version}
        /\ e.depsSha = <<LockedManifest(m, e).deps>>
    BY <1>1, <2>2 DEF Verified
  <2>4. e.name = x.name /\ e.depsSha = x.depsSha
    BY <2>2 DEF Copied
  <2>5. ASSUME NEW d \in Range(m.deps), d.name = e.name PROVE AsWritten(d, e) /\ Meets(d, x)
    <3>1. PICK a \in Range(l.deps) : AsWritten(d, a)
      BY <1>1 DEF Covers
    <3>2. a = e
      <4>1. a.name = e.name
        BY <2>5, <3>1 DEF AsWritten
      <4> QED BY <1>1, <2>2, <4>1, OnceSame
    <3>3. PICK b \in Range(r) : Meets(d, b)
      BY <1>2 DEF Graph, Declared
    <3>4. b = x
      <4>1. b.name = x.name
        BY <2>4, <2>5, <3>3 DEF Meets
      <4> QED BY <1>3, <2>2, <4>1, OnceSame
    <3> QED BY <3>1, <3>2, <3>3, <3>4
  <2>6. /\ Recorded(R[i]) /\ Same(x, R[i])
        /\ LockedManifest(m, e) = OnDiskOf(x) /\ R[i].version = LockedManifest(m, e).version
        /\ \A d \in Range(m.deps) : d.name = e.name => AsWritten(d, R[i])
    BY <2>2, <2>3, <2>5, LockedEntry
  <2>7. R[i].name = e.name /\ R[i].depsSha = e.depsSha
    BY <2>4, <2>6 DEF Same
  <2>8. \A d \in Range(m.deps) : d.name = e.name => d.pin \in {"", R[i].version}
    BY <2>3, <2>6, DeclTyped
  <2> QED BY <2>1, <2>2, <2>3, <2>6, <2>7, <2>8
<1>6. NamesOf(R) = NamesOf(l.deps)
  BY <1>4, <1>5 DEF NamesOf
<1>7. Entries(R)
  <2>1. R \in Seq(GraphEntry)
    <3>1. \A i \in DOMAIN l.deps : Refreshed(m, l.deps[i]) \in GraphEntry
      BY <1>4, <1>5 DEF Recorded
    <3>2. DOMAIN l.deps = 1..Len(l.deps) /\ Len(l.deps) \in Nat
      BY <1>1
    <3>3. R = [i \in 1..Len(l.deps) |-> Refreshed(m, l.deps[i])]
      BY <3>2 DEF R, Reused
    <3> QED BY <3>1, <3>2, <3>3
  <2>2. \A x \in Range(R) : Recorded(x)
    BY <1>4, <1>5 DEF Range
  <2>3. \A i, j \in DOMAIN R : R[i].name = R[j].name => i = j
    BY <1>1, <1>4, <1>5 DEF Once
  <2> QED BY <2>1, <2>2, <2>3 DEF Entries
<1>8. ASSUME NEW d \in Declared(m, R) PROVE d \in Declared(m, r) /\ d.name \in NamesOf(R)
  <2>1. CASE d \in Range(m.deps)
    <3>1. d.name \in NamesOf(l.deps)
      BY <1>1, <2>1, NamesOfRange DEF Covers, AsWritten
    <3> QED BY <1>6, <2>1, <3>1 DEF Declared
  <2>2. CASE d \notin Range(m.deps)
    <3>1. PICK y \in Range(R) : d \in Range(y.depsSha[1])
      BY <2>2 DEF Declared
    <3>2. PICK i \in DOMAIN l.deps : y = R[i]
      BY <1>4 DEF Range
    <3>3. r[i] \in Range(r) /\ y.depsSha = r[i].depsSha /\ l.deps[i] \in Range(l.deps)
          /\ y.depsSha = <<LockedManifest(m, l.deps[i]).deps>>
      BY <1>5, <3>2 DEF Same
    <3>4. y.depsSha[1] = LockedManifest(m, l.deps[i]).deps
      BY <3>3
    <3>5. d.name \in NamesOf(l.deps)
      BY <1>1, <3>1, <3>3, <3>4, NamesOfRange DEF Shut
    <3>6. d \in Declared(m, r)
      BY <3>1, <3>3 DEF Declared
    <3> QED BY <1>6, <3>5, <3>6
  <2> QED BY <2>1, <2>2
<1>9. ASSUME NEW d \in Declared(m, R) PROVE \E y \in Range(R) : Meets(d, y)
  <2>1. PICK x \in Range(r) : Meets(d, x)
    BY <1>2, <1>8 DEF Graph
  <2>2. PICK i \in DOMAIN l.deps : R[i].name = d.name
    BY <1>4, <1>8 DEF NamesOf
  <2>3. Same(r[i], R[i]) /\ r[i] \in Range(r) /\ R[i] \in Range(R)
    BY <1>5
  <2>4. r[i] = x
    <3>1. r[i].name = x.name
      BY <2>1, <2>2, <2>3 DEF Same, Meets
    <3> QED BY <1>3, <2>3, <3>1, OnceSame
  <2>5. Meets(d, R[i])
    BY <2>1, <2>3, <2>4 DEF Same, Meets
  <2> QED BY <2>3, <2>5
\* Names of the lock are needed: whatever is closed holds them.
<1>10. ASSUME NEW S, Closed(m, R, S) PROVE NamesOf(R) \subseteq S
  <2>1. \A n \in NamesOf(m.deps) : n \in S
    BY <1>10 DEF Closed
  <2>2. ASSUME NEW e \in Range(l.deps), e.name \in S, NEW n \in NamesOf(LockedManifest(m, e).deps) PROVE n \in S
    <3>1. PICK i \in DOMAIN l.deps : e = l.deps[i]
      BY DEF Range
    <3>2. R[i] \in Range(R) /\ R[i].name = e.name /\ R[i].depsSha = <<LockedManifest(m, e).deps>>
      BY <1>5, <3>1
    <3>3. R[i].depsSha[1] = LockedManifest(m, e).deps
      BY <3>2
    <3> QED BY <1>10, <2>2, <3>2, <3>3 DEF Closed
  <2>3. NamesOf(l.deps) \subseteq S
    BY <1>1, <2>1, <2>2, ReachedIn
  <2> QED BY <1>6, <2>3
<1>11. ASSUME NEW y \in Range(R) PROVE \E d \in Declared(m, R) : d.name = y.name
  <2>1. PICK S : S = {d.name : d \in Declared(m, R)}
    OBVIOUS
  <2>2. NamesOf(m.deps) \subseteq S
    BY <2>1, NamesOfRange DEF Declared
  <2>3. ASSUME NEW x \in Range(R) PROVE NamesOf(x.depsSha[1]) \subseteq S
    <3>1. Range(x.depsSha[1]) \subseteq Declared(m, R)
      BY DEF Declared
    <3> QED BY <2>1, <3>1, NamesOfRange
  <2>4. Closed(m, R, S)
    BY <2>2, <2>3 DEF Closed
  <2>5. y.name \in S
    BY <1>10, <2>4, NamesOfRange
  <2> QED BY <2>1, <2>5
<1>12. ASSUME NEW d \in Range(m.deps) PROVE \E y \in Range(R) : AsWritten(d, y) /\ d.pin \in {"", y.version}
  <2>1. d \in Declared(m, R)
    BY DEF Declared
  <2>2. PICK i \in DOMAIN l.deps : R[i].name = d.name
    BY <1>4, <1>8, <2>1 DEF NamesOf
  <2> QED BY <1>5, <2>2
<1>13. Graph(m, R)
  BY <1>7, <1>9, <1>10, <1>11, <1>12 DEF Graph
<1>14. OnDisk(R)
  <2> SUFFICES ASSUME NEW y \in Range(R)
               PROVE  OnDiskOf(y).name = y.name /\ OnDiskOf(y).version = y.version /\ <<OnDiskOf(y).deps>> = y.depsSha
    BY DEF OnDisk, OnDiskOf
  <2>1. PICK i \in DOMAIN l.deps : y = R[i]
    BY <1>4 DEF Range
  <2>2. OnDiskOf(y) = OnDiskOf(r[i])
    BY <1>5, <2>1 DEF Same, OnDiskOf
  <2> QED BY <1>5, <2>1, <2>2
<1> QED BY <1>13, <1>14 DEF R

\* The lock of a graph that is on disk is reused as it is.
LEMMA GraphUsable ==
  ASSUME Types, NEW m \in RootManifests, NEW r, Graph(m, r), OnDisk(r),
         NEW l, l.sha = <<m.name, m.version, m.deps>>, l.deps = r
  PROVE  Lasting(m, l)
<1>1. Once(r) /\ r \in Seq(GraphEntry) /\ \A e \in Range(r) : Recorded(e)
  BY DEF Graph, Entries, Once
<1>2. Covers(m, l)
  BY DEF Graph, Covers
<1>3. \A d \in Declared(m, r) : \E e \in Range(r) : Meets(d, e)
  BY DEF Graph
<1>n. ASSUME NEW d \in Declared(m, r) PROVE d.name \in NamesOf(r)
  <2>1. PICK e \in Range(r) : Meets(d, e)
    BY <1>3
  <2>2. e.name = d.name
    BY <2>1 DEF Meets
  <2> QED BY <2>2, NamesOfRange
<1>4. ASSUME NEW e \in Range(r)
      PROVE  /\ LockedManifest(m, e) = OnDiskOf(e) /\ LockedManifest(m, e) # NoManifest
             /\ LockedManifest(m, e).name = e.name /\ LockedManifest(m, e).version = e.version
             /\ e.depsSha = <<LockedManifest(m, e).deps>>
             /\ \A d \in Range(m.deps) : d.name = e.name => AsWritten(d, e) /\ Meets(d, e) /\ d.pin \in {"", e.version}
  <2>1. Recorded(e) /\ e \in GraphEntry
    BY <1>1 DEF Recorded
  <2>2. e.kind \in {"git", "path"} /\ e.name \in PackageNames
    BY <2>1 DEF GraphEntry
  <2>3. ASSUME NEW d \in Range(m.deps), d.name = e.name PROVE AsWritten(d, e) /\ Meets(d, e) /\ d.pin \in {"", e.version}
    <3>1. PICK a \in Range(r) : AsWritten(d, a) /\ d.pin \in {"", a.version}
      BY DEF Graph
    <3>2. PICK b \in Range(r) : Meets(d, b)
      BY <1>3 DEF Declared
    <3>3. a.name = e.name /\ b.name = e.name
      BY <2>3, <3>1, <3>2 DEF AsWritten, Meets
    <3>4. a = e /\ b = e
      BY <1>1, <3>3, OnceSame
    <3> QED BY <3>1, <3>2, <3>4
  <2>4. LockedDir(m, e) = e.dir
    <3>1. CASE e.kind = "git"
      BY <2>1, <3>1 DEF LockedDir, Recorded
    <3>2. CASE e.kind # "git" /\ IsRoot(m, e.name)
      <4>1. PICK d \in Range(m.deps) : d = Decl(m, e.name) /\ d.name = e.name
        BY <3>2, DeclTyped
      <4>2. Meets(d, e)
        BY <2>3, <4>1
      <4>3. e.dir = <<d.source>>
        BY <2>2, <3>2, <4>2 DEF Meets
      <4> QED BY <3>2, <4>1, <4>3 DEF LockedDir
    <3>3. CASE e.kind # "git" /\ ~IsRoot(m, e.name)
      BY <3>3 DEF LockedDir
    <3> QED BY <3>1, <3>2, <3>3
  <2>5. OnDiskOf(e).name = e.name /\ OnDiskOf(e).version = e.version /\ <<OnDiskOf(e).deps>> = e.depsSha
    BY DEF OnDisk, OnDiskOf
  <2>6. OnDiskOf(e) # NoManifest
    <3>1. NoManifest.name = ""
      BY DEF NoManifest
    <3> QED BY <2>2, <2>5, <3>1, EmptyName
  <2>7. LockedManifest(m, e) = OnDiskOf(e)
    BY <2>1, <2>4, DirManifest
  <2> QED BY <2>3, <2>5, <2>6, <2>7
<1>5. Verified(m, l)
  <2> SUFFICES ASSUME NEW e \in Range(r), IsRoot(m, e.name) PROVE Decl(m, e.name).pin \in {"", LockedManifest(m, e).version}
    BY <1>4 DEF Verified
  <2>1. PICK d \in Range(m.deps) : d = Decl(m, e.name) /\ d.name = e.name
    BY DeclTyped
  <2> QED BY <1>4, <2>1
<1>6. ASSUME NEW e \in Range(r) PROVE e.depsSha[1] = LockedManifest(m, e).deps
  <2>1. PICK t : t = LockedManifest(m, e).deps
    OBVIOUS
  <2>2. e.depsSha = <<t>> /\ <<t>>[1] = t
    BY <1>4, <2>1
  <2> QED BY <2>1, <2>2
<1>7. Shut(m, l)
  <2> SUFFICES ASSUME NEW e \in Range(r), NEW n \in NamesOf(LockedManifest(m, e).deps) PROVE n \in NamesOf(r)
    BY DEF Shut
  <2>1. PICK d \in Range(e.depsSha[1]) : d.name = n
    BY <1>6, NamesOfRange
  <2>2. d \in Declared(m, r)
    BY <2>1 DEF Declared
  <2> QED BY <1>n, <2>1, <2>2
<1>8. Reached(m, l) = NamesOf(l.deps)
  <2> SUFFICES ASSUME NEW S \in SUBSET NamesOf(r), NamesOf(m.deps) \cap NamesOf(r) \subseteq S,
                      \A e \in Range(r) : e.name \in S => NamesOf(LockedManifest(m, e).deps) \cap NamesOf(r) \subseteq S
               PROVE  NamesOf(r) \subseteq S
    BY DEF Reached
  <2>1. NamesOf(m.deps) \subseteq NamesOf(r)
    BY <1>n, NamesOfRange DEF Declared
  <2>2. \A e \in Range(r) : NamesOf(e.depsSha[1]) \subseteq NamesOf(r)
    BY <1>6, <1>7 DEF Shut
  <2>3. Closed(m, r, S)
    BY <1>6, <2>1, <2>2 DEF Closed
  <2>4. NamesOf(r) \subseteq PackageNames
    BY <1>1, NamesOfRange DEF Recorded, GraphEntry
  <2> QED BY <2>3, <2>4 DEF Graph
<1>9. Usable(m, l)
  BY <1>1, <1>2, <1>5, <1>7, <1>8, UsableParts
<1>10. ASSUME NEW e \in Range(r) PROVE Refreshed(m, e) = e
  <2>1. PICK y : y = Refreshed(m, e)
    OBVIOUS
  <2>2. Recorded(e) /\ e \in GraphEntry
    BY <1>1 DEF Recorded
  <2>3. Copied(e, e)
    BY <2>2 DEF Copied, GraphEntry
  <2>4. /\ Recorded(y) /\ Same(e, y) /\ y.version = LockedManifest(m, e).version
        /\ \A d \in Range(m.deps) : d.name = e.name => AsWritten(d, y)
        /\ e.kind = "git" /\ ~IsRoot(m, e.name) => y.ref = e.ref
    BY <1>4, <2>1, <2>2, <2>3, LockedEntry
  <2>5. y.ref = e.ref
    <3>1. CASE e.kind = "path"
      BY <2>2, <2>4, <3>1 DEF Recorded, Same
    <3>2. CASE IsRoot(m, e.name)
      <4>1. PICK d \in Range(m.deps) : d.name = e.name
        BY <3>2, DeclTyped
      <4>2. AsWritten(d, y) /\ AsWritten(d, e)
        BY <1>4, <2>4, <4>1
      <4> QED BY <4>2 DEF AsWritten
    <3> QED BY <2>2, <2>4, <3>1, <3>2 DEF GraphEntry
  <2>6. y \in GraphEntry /\ y.version = e.version
    BY <1>4, <2>4 DEF Recorded
  <2>7. y = e
    <3>1. Copied(y, y)
      BY <2>6 DEF Copied, GraphEntry
    <3>2. /\ y.name = e.name /\ y.kind = e.kind /\ y.source = e.source /\ y.rev = e.rev /\ y.depsSha = e.depsSha
          /\ y.dir = e.dir
      BY <2>4 DEF Same
    <3>3. /\ y = [name |-> y.name, kind |-> y.kind, source |-> y.source, rev |-> y.rev, version |-> y.version,
                  depsSha |-> y.depsSha, ref |-> y.ref, dir |-> y.dir]
          /\ e = [name |-> e.name, kind |-> e.kind, source |-> e.source, rev |-> e.rev, version |-> e.version,
                  depsSha |-> e.depsSha, ref |-> e.ref, dir |-> e.dir]
      BY <2>3, <3>1 DEF Copied
    <3> QED BY ONLY <2>5, <2>6, <3>2, <3>3
  <2> QED BY <2>1, <2>7
<1>11. Reused(m, l) = r
  <2>1. \A i \in DOMAIN r : Refreshed(m, r[i]) = r[i]
    BY <1>10 DEF Range
  <2>2. r = [i \in DOMAIN r |-> r[i]]
    BY <1>1
  <2> QED BY <2>1, <2>2 DEF Reused
<1> QED BY <1>9, <1>11 DEF Lasting

\* What a reused lock found stays there while no verified checkout is touched.
LEMMA LastingStays ==
  ASSUME NEW m, NEW l, Lasting(m, l), files' = files,
         \A e \in Range(l.deps) : LockedDir(m, e) \in CacheDir /\ cache[LockedDir(m, e)] = "pristine"
                                    => cache'[LockedDir(m, e)] = "pristine"
  PROVE  /\ Lasting(m, l)'
         /\ \A e \in Range(l.deps) : LockedDir(m, e) \in CacheDir => cache[LockedDir(m, e)] = "pristine"
<1>1. /\ l.sha = <<m.name, m.version, m.deps>> /\ Once(l.deps) /\ Covers(m, l) /\ Verified(m, l)
      /\ Reached(m, l) = NamesOf(l.deps) /\ Shut(m, l) /\ Reused(m, l) = l.deps
  BY UsableParts DEF Lasting
<1>2. ASSUME NEW e \in Range(l.deps)
      PROVE  /\ LockedManifest(m, e)' = LockedManifest(m, e)
             /\ LockedDir(m, e) \in CacheDir => cache[LockedDir(m, e)] = "pristine"
  <2>1. LockedManifest(m, e) # NoManifest
    BY <1>1 DEF Verified
  <2>2. LockedDir(m, e) \in CacheDir => cache[LockedDir(m, e)] = "pristine"
    BY <2>1 DEF LockedManifest
  <2> QED BY <2>2 DEF LockedManifest
<1>3. Verified(m, l)'
  BY <1>1, <1>2 DEF Verified
<1>4. Shut(m, l)'
  BY <1>1, <1>2 DEF Shut
<1>5. Reached(m, l)' = NamesOf(l.deps)
  BY <1>1, <1>2 DEF Reached
<1>6. Usable(m, l)'
  BY <1>1, <1>3, <1>4, <1>5 DEF Usable, Once, Covers, Verified, Shut, AsWritten
<1>7. Reused(m, l)' = Reused(m, l)
  BY <1>2 DEF Reused, Refreshed, Range
<1> QED BY <1>1, <1>2, <1>6, <1>7 DEF Lasting

\* The lock of what a lock was reused for is reused as it is.
LEMMA ReusedLasts ==
  ASSUME Types, NEW m \in RootManifests, NEW l, l.deps \in Seq(LockEntry), Usable(m, l),
         NEW k, k.sha = l.sha, k.deps = Reused(m, l)
  PROVE  Lasting(m, k) /\ k.deps \in Seq(LockEntry)
<1>1. /\ l.sha = <<m.name, m.version, m.deps>> /\ Once(l.deps) /\ Covers(m, l) /\ Verified(m, l)
      /\ Reached(m, l) = NamesOf(l.deps) /\ Shut(m, l)
  BY UsableParts
<1>2. DOMAIN l.deps = 1..Len(l.deps) /\ Len(l.deps) \in Nat /\ \A i \in DOMAIN l.deps : l.deps[i] \in LockEntry
  OBVIOUS
<1>3. DOMAIN k.deps = DOMAIN l.deps /\ \A i \in DOMAIN l.deps : k.deps[i] = Refreshed(m, l.deps[i])
  BY DEF Reused
<1>4. ASSUME NEW e \in Range(l.deps), NEW y, y = Refreshed(m, e)
      PROVE  /\ y \in LockEntry /\ y.name = e.name /\ y.depsSha = e.depsSha
             /\ LockedManifest(m, y) = LockedManifest(m, e) /\ Refreshed(m, y) = y
             /\ \A d \in Range(m.deps) : AsWritten(d, e) => AsWritten(d, y)
  <2>1. e \in LockEntry
    BY <1>2 DEF Range
  <2>2. RefreshedAs(m, e, y)
    BY <1>4, <2>1, RefreshedFields DEF LockEntry
  <2>3. /\ e.name \in PackageNames /\ e.kind \in {"git", "path"} /\ e.source \in Url \cup Source \cup Blank
        /\ e.rev \in Commit \cup {"local"} \cup Blank /\ e.depsSha \in {<<w.deps>> : w \in Manifests} \cup {<<>>}
        /\ e.ref \in Commit \cup Blank /\ e.dir \in CacheDir \cup PathDir \cup {<<>>}
    BY <2>1 DEF LockEntry
  <2>4. PICK f, dir : f = LockedManifest(m, e) /\ dir = LockedDir(m, e)
    OBVIOUS
  <2>5. ASSUME IsRoot(m, e.name)
        PROVE  LET d == Decl(m, e.name)
               IN  d \in Asked /\ d.kind = e.kind /\ d.source = e.source /\ d.ref = e.ref
    <3>1. PICK d \in Range(m.deps) : d = Decl(m, e.name) /\ d.name = e.name
      BY <2>5, DeclTyped
    <3>2. PICK a \in Range(l.deps) : AsWritten(d, a)
      BY <1>1 DEF Covers
    <3>3. a = e
      BY <1>1, <3>1, <3>2, OnceSame DEF AsWritten
    <3> QED BY <3>1, <3>2, <3>3, DeclTyped DEF AsWritten
  <2>6. LockedDir(m, y) = dir
    <3>1. CASE e.kind = "git"
      BY <2>2, <2>4, <3>1 DEF LockedDir, RefreshedAs
    <3>2. CASE e.kind = "path"
      BY <2>2, <2>4, <3>2 DEF LockedDir, RefreshedAs
    <3> QED BY <2>3, <3>1, <3>2
  <2>7. LockedManifest(m, y) = f
    BY <2>2, <2>4, <2>6 DEF LockedManifest, RefreshedAs
  <2>8. f # NoManifest
    BY <1>1, <2>4 DEF Verified
  <2>9. dir \in CacheDir \cup PathDir /\ f.version \in STRING
    <3>1. CASE dir \in CacheDir
      <4>1. dir[2] \in Commit
        BY <3>1 DEF CacheDir
      <4>2. f = Tree[dir[2]]
        BY <2>4, <2>8, <3>1 DEF LockedManifest
      <4> QED BY <3>1, <4>1, <4>2, AllManifests, ManifestsTyped
    <3>2. CASE dir \notin CacheDir
      <4>1. e.kind = "path" /\ dir # <<>> /\ f = files[dir[1]]
        BY <2>4, <2>8, <3>2 DEF LockedManifest
      <4>2. dir \in PathDir
        <5>1. CASE IsRoot(m, e.name)
          <6>1. Decl(m, e.name).source \in Source
            BY <2>5, <4>1, <5>1, AskedTyped
          <6> QED BY <2>4, <4>1, <5>1, <6>1 DEF LockedDir, PathDir
        <5>2. CASE ~IsRoot(m, e.name)
          BY <2>3, <2>4, <3>2, <4>1, <5>2 DEF LockedDir
        <5> QED BY <5>1, <5>2
      <4>3. PICK s \in Source : dir = <<s>>
        BY <4>2 DEF PathDir
      <4>4. f \in DirManifests[s]
        BY <4>1, <4>3 DEF Types
      <4> QED BY <4>2, <4>4, AllManifests, ManifestsTyped
    <3> QED BY <3>1, <3>2
  <2>10. y \in LockEntry
    <3>1. y.source \in Url \cup Source \cup Blank /\ y.ref \in Commit \cup Blank /\ y.rev \in Commit \cup {"local"} \cup Blank
      BY <2>2, <2>3, <2>5 DEF RefreshedAs, Blank
    <3>2. y.version \in STRING /\ y.dir \in CacheDir \cup PathDir \cup {<<>>} /\ y.name = e.name /\ y.kind = e.kind /\ y.depsSha = e.depsSha
      BY <2>2, <2>4, <2>9 DEF RefreshedAs
    <3>3. y = [name |-> y.name, kind |-> y.kind, source |-> y.source, rev |-> y.rev, version |-> y.version,
               depsSha |-> y.depsSha, ref |-> y.ref, dir |-> y.dir]
      BY <2>2 DEF RefreshedAs
    <3> QED BY <2>3, <3>1, <3>2, <3>3 DEF LockEntry
  <2>11. Refreshed(m, y) = y
    <3>1. PICK z : z = Refreshed(m, y)
      OBVIOUS
    <3>2. RefreshedAs(m, y, z)
      BY <2>10, <3>1, RefreshedFields DEF LockEntry
    <3>3. z.version = y.version /\ z.dir = y.dir
      BY <2>2, <2>4, <2>6, <2>7, <3>2 DEF RefreshedAs
    <3>4. z.name = y.name /\ z.kind = y.kind /\ z.depsSha = y.depsSha /\ z.source = y.source /\ z.ref = y.ref /\ z.rev = y.rev
      BY <2>2, <3>2 DEF RefreshedAs
    <3>5. /\ z = [name |-> z.name, kind |-> z.kind, source |-> z.source, rev |-> z.rev, version |-> z.version,
                  depsSha |-> z.depsSha, ref |-> z.ref, dir |-> z.dir]
          /\ y = [name |-> y.name, kind |-> y.kind, source |-> y.source, rev |-> y.rev, version |-> y.version,
                  depsSha |-> y.depsSha, ref |-> y.ref, dir |-> y.dir]
      BY <2>2, <3>2 DEF RefreshedAs
    <3>6. z = y
      BY ONLY <3>3, <3>4, <3>5
    <3> QED BY <3>1, <3>6
  <2>12. ASSUME NEW d \in Range(m.deps), AsWritten(d, e) PROVE AsWritten(d, y)
    <3>1. d.name = e.name /\ d.kind = e.kind /\ d.source = e.source /\ d.ref = e.ref
      BY <2>12 DEF AsWritten
    <3>2. IsRoot(m, e.name) /\ Decl(m, e.name) = d /\ d \in Asked
      BY <3>1, DeclTyped
    <3>3. d.kind = "path" => d.ref = ""
      BY <3>2, AskedTyped
    <3> QED BY <2>2, <3>1, <3>2, <3>3 DEF AsWritten, RefreshedAs
  <2> QED BY <2>2, <2>4, <2>7, <2>10, <2>11, <2>12 DEF RefreshedAs
<1>5. \A i \in DOMAIN l.deps : l.deps[i] \in Range(l.deps) /\ k.deps[i] \in Range(k.deps)
  BY <1>3 DEF Range
<1>6. \A y \in Range(k.deps) : \E e \in Range(l.deps) : y = Refreshed(m, e)
  BY <1>3, <1>5 DEF Range
<1>7. \A e \in Range(l.deps) : Refreshed(m, e) \in Range(k.deps)
  BY <1>3, <1>5 DEF Range
<1>8. NamesOf(k.deps) = NamesOf(l.deps)
  <2>1. \A i \in DOMAIN l.deps : k.deps[i].name = l.deps[i].name
    BY <1>3, <1>4, <1>5
  <2> QED BY <1>3, <2>1 DEF NamesOf
<1>9. Once(k.deps)
  <2>1. \A i \in DOMAIN l.deps : k.deps[i].name = l.deps[i].name
    BY <1>3, <1>4, <1>5
  <2> QED BY <1>1, <1>3, <2>1 DEF Once
<1>10. Covers(m, k)
  BY <1>1, <1>4, <1>7 DEF Covers
<1>11. Verified(m, k)
  <2> SUFFICES ASSUME NEW y \in Range(k.deps)
               PROVE  /\ LockedManifest(m, y) # NoManifest /\ LockedManifest(m, y).name = y.name
                      /\ IsRoot(m, y.name) => Decl(m, y.name).pin \in {"", LockedManifest(m, y).version}
                      /\ y.depsSha = <<LockedManifest(m, y).deps>>
    BY DEF Verified
  <2>1. PICK e \in Range(l.deps) : y = Refreshed(m, e)
    BY <1>6
  <2>2. y.name = e.name /\ y.depsSha = e.depsSha /\ LockedManifest(m, y) = LockedManifest(m, e)
    BY <1>4, <2>1
  <2> QED BY <1>1, <2>2 DEF Verified
<1>12. Shut(m, k)
  BY <1>1, <1>4, <1>6, <1>8 DEF Shut
<1>13. Reached(m, k) = NamesOf(k.deps)
  <2> SUFFICES ASSUME NEW S \in SUBSET NamesOf(k.deps), NamesOf(m.deps) \cap NamesOf(k.deps) \subseteq S,
                      \A y \in Range(k.deps) : y.name \in S => NamesOf(LockedManifest(m, y).deps) \cap NamesOf(k.deps) \subseteq S
               PROVE  NamesOf(k.deps) \subseteq S
    BY DEF Reached
  <2>1. ASSUME NEW e \in Range(l.deps), e.name \in S, NEW n \in NamesOf(LockedManifest(m, e).deps), n \in NamesOf(l.deps)
        PROVE  n \in S
    <3>1. PICK y \in Range(k.deps) : y = Refreshed(m, e)
      BY <1>7
    <3> QED BY <1>4, <1>8, <2>1, <3>1
  <2>2. \A n \in NamesOf(m.deps) : n \in NamesOf(l.deps) => n \in S
    BY <1>8
  <2>3. NamesOf(l.deps) \subseteq S
    BY <1>1, <2>1, <2>2, ReachedIn
  <2> QED BY <1>8, <2>3
<1>14. Usable(m, k)
  BY <1>1, <1>9, <1>10, <1>11, <1>12, <1>13, UsableParts
<1>15. \A i \in DOMAIN k.deps : k.deps[i] \in LockEntry /\ Refreshed(m, k.deps[i]) = k.deps[i]
  BY <1>3, <1>4, <1>5
<1>16. k.deps = [i \in 1..Len(l.deps) |-> Refreshed(m, l.deps[i])]
  BY <1>2 DEF Reused
<1>17. k.deps \in Seq(LockEntry)
  <2>1. \A i \in 1..Len(l.deps) : Refreshed(m, l.deps[i]) \in LockEntry
    BY <1>2, <1>4, <1>5
  <2> QED BY <1>2, <1>16, <2>1
<1>18. Reused(m, k) = k.deps
  <2>1. k.deps = [i \in DOMAIN k.deps |-> k.deps[i]]
    BY <1>17
  <2> QED BY <1>15, <2>1 DEF Reused
<1> QED BY <1>14, <1>17, <1>18 DEF Lasting
(***************************************************************************)
(* The lock file.                                                          *)
(***************************************************************************)
\* A lock keeps its shape, whatever is put into it.
LEMMA LockParts ==
  ASSUME NEW l, l = [sha |-> l.sha, deps |-> l.deps, syntax |-> l.syntax, tangled |-> l.tangled], NEW t
  PROVE  /\ [l EXCEPT !.deps = t] = [sha |-> l.sha, deps |-> t, syntax |-> l.syntax, tangled |-> l.tangled]
         /\ [l EXCEPT !.deps = t, !.tangled = TRUE] = [sha |-> l.sha, deps |-> t, syntax |-> l.syntax, tangled |-> TRUE]
         /\ [l EXCEPT !.sha = t, !.tangled = TRUE] = [sha |-> t, deps |-> l.deps, syntax |-> l.syntax, tangled |-> TRUE]
<1>1. PICK a1, a2, a3, a4 : a1 = l.sha /\ a2 = l.deps /\ a3 = l.syntax /\ a4 = l.tangled
  OBVIOUS
<1>2. l = [sha |-> a1, deps |-> a2, syntax |-> a3, tangled |-> a4]
  BY <1>1
<1>3. [l EXCEPT !.deps = t] = [sha |-> a1, deps |-> t, syntax |-> a3, tangled |-> a4]
  BY ONLY <1>2
<1>4. [l EXCEPT !.sha = t] = [sha |-> t, deps |-> a2, syntax |-> a3, tangled |-> a4]
  BY ONLY <1>2
<1>5. PICK k, n : k = [l EXCEPT !.deps = t] /\ n = [l EXCEPT !.sha = t]
  OBVIOUS
<1>6. k = [sha |-> a1, deps |-> t, syntax |-> a3, tangled |-> a4] /\ n = [sha |-> t, deps |-> a2, syntax |-> a3, tangled |-> a4]
  BY ONLY <1>3, <1>4, <1>5, Zenon
<1>7. ASSUME NEW b
      PROVE  /\ [k EXCEPT !.tangled = b] = [sha |-> a1, deps |-> t, syntax |-> a3, tangled |-> b]
             /\ [n EXCEPT !.tangled = b] = [sha |-> t, deps |-> a2, syntax |-> a3, tangled |-> b]
  BY ONLY <1>6
<1>8. /\ [l EXCEPT !.deps = t, !.tangled = TRUE] = [k EXCEPT !.tangled = TRUE]
      /\ [l EXCEPT !.sha = t, !.tangled = TRUE] = [n EXCEPT !.tangled = TRUE]
  BY ONLY <1>5, Zenon
<1> QED BY ONLY <1>1, <1>3, <1>7, <1>8, Zenon

LEMMA NoLockTorn == Torn(NoLock) /\ Torn(EmptyLock) /\ Torn(CorruptLock) /\ \A b : Torn([NoLock EXCEPT !.tangled = b])
<1>1. <<>> \in Seq(LockEntry)
  OBVIOUS
<1>2. \A x, b : Torn([sha |-> <<>>, deps |-> <<>>, syntax |-> x, tangled |-> b])
  BY <1>1 DEF Torn
<1>3. PICK e, x, w : e = <<>> /\ x = "absent" /\ w = FALSE
  OBVIOUS
<1>4. NoLock = [sha |-> e, deps |-> e, syntax |-> x, tangled |-> w]
  BY <1>3 DEF NoLock
<1>5. ASSUME NEW t
      PROVE  /\ [NoLock EXCEPT !.syntax = t] = [sha |-> e, deps |-> e, syntax |-> t, tangled |-> w]
             /\ [NoLock EXCEPT !.tangled = t] = [sha |-> e, deps |-> e, syntax |-> x, tangled |-> t]
  BY ONLY <1>4
<1>6. EmptyLock = [NoLock EXCEPT !.syntax = "ok"] /\ CorruptLock = [NoLock EXCEPT !.syntax = "corrupt"]
  BY DEF EmptyLock, CorruptLock
<1>7. Torn(NoLock)
  BY <1>2, <1>3, <1>4, Zenon
<1>8. \A y, b : Torn([sha |-> e, deps |-> e, syntax |-> y, tangled |-> b])
  BY ONLY <1>2, <1>3, Zenon
<1>9. EmptyLock = [sha |-> e, deps |-> e, syntax |-> "ok", tangled |-> w]
  BY ONLY <1>5, <1>6, Zenon
<1>10. CorruptLock = [sha |-> e, deps |-> e, syntax |-> "corrupt", tangled |-> w]
  BY ONLY <1>5, <1>6, Zenon
<1>11. Torn(EmptyLock) /\ Torn(CorruptLock)
  BY ONLY <1>8, <1>9, <1>10, Zenon
<1>12. ASSUME NEW b PROVE Torn([NoLock EXCEPT !.tangled = b])
  <2>1. PICK k : k = [NoLock EXCEPT !.tangled = b]
    OBVIOUS
  <2>2. k = [sha |-> e, deps |-> e, syntax |-> x, tangled |-> b]
    BY ONLY <1>5, <2>1, Zenon
  <2>3. Torn(k)
    BY ONLY <1>8, <2>2, Zenon
  <2> QED BY ONLY <2>1, <2>3, Zenon
<1> QED BY <1>7, <1>11, <1>12

LEMMA GraphEntries == GraphEntry \subseteq LockEntry
<1> SUFFICES ASSUME NEW e \in GraphEntry PROVE e \in LockEntry
  OBVIOUS
<1>1. /\ e.name \in PackageNames /\ e.kind \in {"git", "path"} /\ e.source \in Url \cup Source
      /\ e.rev \in Commit \cup {"local"} /\ e.version \in STRING /\ e.depsSha \in {<<w.deps>> : w \in Manifests}
      /\ e.ref \in Commit \cup Blank /\ e.dir \in CacheDir \cup PathDir
      /\ e = [name |-> e.name, kind |-> e.kind, source |-> e.source, rev |-> e.rev, version |-> e.version,
              depsSha |-> e.depsSha, ref |-> e.ref, dir |-> e.dir]
  BY DEF GraphEntry, Blank
<1> QED BY <1>1 DEF LockEntry

\* A whole entry is one cut after its last field.
LEMMA WholeEntry == ASSUME NEW e \in LockEntry PROVE Cut(e, 7) = e /\ \A j \in 0..7 : Cut(e, j) \in LockEntry
<1>1. /\ e.name \in PackageNames /\ e.kind \in {"git", "path"} /\ e.source \in Url \cup Source \cup Blank
      /\ e.rev \in Commit \cup {"local"} \cup Blank /\ e.version \in STRING \cup Blank
      /\ e.depsSha \in {<<w.deps>> : w \in Manifests} \cup {<<>>}
      /\ e.ref \in Commit \cup Blank /\ e.dir \in CacheDir \cup PathDir \cup {<<>>}
      /\ e = [name |-> e.name, kind |-> e.kind, source |-> e.source, rev |-> e.rev, version |-> e.version,
              depsSha |-> e.depsSha, ref |-> e.ref, dir |-> e.dir]
  BY DEF LockEntry
<1>2. Cut(e, 7) = [name |-> e.name, kind |-> e.kind, source |-> e.source, rev |-> e.rev, version |-> e.version,
                   depsSha |-> e.depsSha, ref |-> e.ref, dir |-> e.dir]
  BY DEF Cut
<1>3. ASSUME NEW j \in 0..7 PROVE Cut(e, j) \in LockEntry
  <2>1. PICK c : c = Cut(e, j)
    OBVIOUS
  <2>2. /\ c.name = e.name /\ c.kind \in {e.kind, "git"} /\ c.source \in {e.source, ""} /\ c.rev \in {e.rev, ""}
        /\ c.version \in {e.version, ""} /\ c.depsSha \in {e.depsSha, <<>>} /\ c.ref \in {e.ref, ""} /\ c.dir \in {e.dir, <<>>}
    BY <2>1 DEF Cut
  <2>3. "" \in Blank
    BY DEF Blank
  <2>4. c = [name |-> c.name, kind |-> c.kind, source |-> c.source, rev |-> c.rev, version |-> c.version,
             depsSha |-> c.depsSha, ref |-> c.ref, dir |-> c.dir]
    BY <2>1 DEF Cut
  <2>5. /\ c.source \in Url \cup Source \cup Blank /\ c.rev \in Commit \cup {"local"} \cup Blank /\ c.version \in STRING \cup Blank
        /\ c.ref \in Commit \cup Blank
    BY <1>1, <2>2, <2>3
  <2>6. c.kind \in {"git", "path"} /\ c.depsSha \in {<<w.deps>> : w \in Manifests} \cup {<<>>} /\ c.dir \in CacheDir \cup PathDir \cup {<<>>}
    BY <1>1, <2>2
  <2>7. c.name \in PackageNames
    BY <1>1, <2>2
  <2>8. c \in LockEntry
    BY ONLY <2>4, <2>5, <2>6, <2>7 DEF LockEntry
  <2> QED BY <2>1, <2>8
<1> QED BY <1>1, <1>2, <1>3

LEMMA JoinedEntry ==
  ASSUME NEW e \in LockEntry, NEW f \in LockEntry, NEW j \in 0..7, NEW k \in Splices(e, j, f) PROVE k \in LockEntry
<1>1. ASSUME NEW i \in 1..8 PROVE Joined(e, j, f, i) \in LockEntry
  <2>1. PICK c, d : c = Cut(e, j) /\ d = Joined(e, j, f, i)
    OBVIOUS
  <2>2. c \in LockEntry
    BY <2>1, WholeEntry
  <2>3. /\ d.name = e.name /\ d.kind \in {c.kind, f.kind} /\ d.source \in {c.source, f.source} /\ d.rev \in {c.rev, f.rev}
        /\ d.version \in {c.version, f.version} /\ d.depsSha \in {c.depsSha, f.depsSha} /\ d.ref \in {c.ref, f.ref}
        /\ d.dir \in {c.dir, f.dir}
        /\ d = [name |-> d.name, kind |-> d.kind, source |-> d.source, rev |-> d.rev, version |-> d.version,
                depsSha |-> d.depsSha, ref |-> d.ref, dir |-> d.dir]
    BY <2>1 DEF Joined
  <2>4. d \in LockEntry
    BY <2>2, <2>3 DEF LockEntry
  <2> QED BY <2>1, <2>4
<1>2. [Joined(e, j, f, 7) EXCEPT !.rev = f.ref] \in LockEntry
  <2>1. PICK c, d : c = Joined(e, j, f, 7) /\ d = [c EXCEPT !.rev = f.ref]
    OBVIOUS
  <2>2. c \in LockEntry
    BY <1>1, <2>1
  <2>3. f.ref \in Commit \cup {"local"} \cup Blank
    BY DEF LockEntry
  <2>4. PICK a1, a2, a3, a4, a5, a6, a7, a8 :
           c = [name |-> a1, kind |-> a2, source |-> a3, rev |-> a4, version |-> a5, depsSha |-> a6, ref |-> a7, dir |-> a8]
    BY <2>2 DEF LockEntry
  <2>5. d = [name |-> a1, kind |-> a2, source |-> a3, rev |-> f.ref, version |-> a5, depsSha |-> a6, ref |-> a7, dir |-> a8]
    BY <2>1, <2>4
  <2>6. d \in LockEntry
    BY <2>2, <2>3, <2>4, <2>5 DEF LockEntry
  <2> QED BY <2>1, <2>6
<1>3. \A c \in CutPoints : c + 1 \in 1..8
  <2>1. CutPoints \subseteq 0..7
    BY ManifestsAssumption
  <2>2. \A c \in 0..7 : c + 1 \in 1..8
    OBVIOUS
  <2> QED BY <2>1, <2>2
<1> QED BY <1>1, <1>2, <1>3 DEF Splices

\* The elements up to a, of which the last is another one.
LEMMA LastReplaced ==
  ASSUME NEW S, NEW r \in Seq(S), NEW a \in DOMAIN r, NEW c \in S
  PROVE  LET t == SubSeq(r, 1, a - 1) \o <<c>>
         IN  t \in Seq(S) /\ DOMAIN t = 1..a /\ t[a] = c /\ \A i \in 1..a - 1 : t[i] = r[i]
<1>1. PICK s, v : s = SubSeq(r, 1, a - 1) /\ v = <<c>>
  OBVIOUS
<1>2. a \in 1..Len(r) /\ a \in Nat /\ Len(r) \in Nat
  OBVIOUS
<1>3. s \in Seq(S) /\ Len(s) = a - 1 /\ \A i \in 1..a - 1 : s[i] = r[i]
  BY <1>1, <1>2
<1>4. v \in Seq(S) /\ Len(v) = 1 /\ v[1] = c
  BY <1>1
<1>5. s \o v \in Seq(S) /\ Len(s \o v) = Len(s) + Len(v)
  BY <1>3, <1>4, ConcatElements
<1>6. \A i \in 1..Len(s) + Len(v) : (s \o v)[i] = IF i <= Len(s) THEN s[i] ELSE v[i - Len(s)]
  BY <1>3, <1>4, ConcatElements
<1>7. a \in 1..Len(s) + Len(v) /\ ~(a <= Len(s)) /\ a - Len(s) = 1
  BY <1>2, <1>3, <1>4
<1>8. (s \o v)[a] = c
  BY <1>4, <1>6, <1>7
<1>9. \A i \in 1..a - 1 : (s \o v)[i] = r[i]
  BY <1>3, <1>4, <1>6
<1>10. DOMAIN (s \o v) = 1..a
  BY <1>2, <1>3, <1>4, <1>5
<1> QED BY <1>1, <1>5, <1>8, <1>9, <1>10

LEMMA TangledTorn == ASSUME NEW x, NEW y, NEW t \in Seq(LockEntry)
  PROVE  Torn([sha |-> x, deps |-> t, syntax |-> y, tangled |-> TRUE])
  BY DEF Torn

\* Whatever part of a lock gets to the file.
LEMMA PrefixTorn ==
  ASSUME NEW m, NEW l, l = [sha |-> <<m.name, m.version, m.deps>>, deps |-> l.deps, syntax |-> l.syntax, tangled |-> l.tangled],
         l.deps \in Seq(LockEntry), ~l.tangled => m \in RootManifests /\ Graph(m, l.deps), NEW k \in {l} \cup Prefixes(l)
  PROVE  Torn(k)
<1>1. PICK r, sha, x, b : r = l.deps /\ sha = <<m.name, m.version, m.deps>> /\ x = l.syntax /\ b = l.tangled
  OBVIOUS
<1>2. /\ l = [sha |-> sha, deps |-> r, syntax |-> x, tangled |-> b] /\ r \in Seq(LockEntry)
      /\ l.sha = sha /\ l.deps = r /\ l.syntax = x /\ l.tangled = b
  BY <1>1
<1>3. DOMAIN r = 1..Len(r) /\ Len(r) \in Nat /\ \A i \in DOMAIN r : r[i] \in LockEntry
  BY <1>2
<1>4. \A i \in DOMAIN r : \E j \in 0..7 : r[i] = Cut(r[i], j)
  <2>1. 7 \in 0..7
    OBVIOUS
  <2> QED BY <1>3, <2>1, WholeEntry
<1>5. ASSUME NEW t \in Seq(LockEntry), k = [sha |-> sha, deps |-> t, syntax |-> x, tangled |-> b], DOMAIN t \subseteq DOMAIN r,
             \A i \in DOMAIN t : \E j \in 0..7 : t[i] = Cut(r[i], j)
      PROVE  Torn(k)
  <2>1. k.sha = sha /\ k.deps = t /\ k.syntax = x /\ k.tangled = b
    BY <1>5
  <2>2. ~b => Text(k, m, r)
    BY <1>1, <1>2, <1>5, <2>1 DEF Text
  <2> QED BY <1>5, <2>1, <2>2 DEF Torn
<1>6. \A t : [l EXCEPT !.deps = t] = [sha |-> sha, deps |-> t, syntax |-> x, tangled |-> b]
  BY <1>2
<1>7. CASE k = l
  BY <1>2, <1>4, <1>5, <1>7
<1>8. CASE k \in {EmptyLock, CorruptLock}
  BY <1>8, NoLockTorn
<1>9. CASE k = [l EXCEPT !.deps = <<>>]
  <2>1. <<>> \in Seq(LockEntry) /\ DOMAIN <<>> = {}
    OBVIOUS
  <2> QED BY <1>5, <1>6, <1>9, <2>1
<1>10. ASSUME NEW a \in DOMAIN r, NEW j \in CutPoints, k = [l EXCEPT !.deps = SubSeq(r, 1, a - 1) \o <<Cut(r[a], j)>>]
       PROVE  Torn(k)
  <2>1. PICK c : c = Cut(r[a], j)
    OBVIOUS
  <2>2. j \in 0..7 /\ c \in LockEntry /\ a \in 1..Len(r)
    BY <1>3, <2>1, ManifestsAssumption, WholeEntry
  <2>3. PICK t : t = SubSeq(r, 1, a - 1) \o <<c>>
    OBVIOUS
  <2>4. t \in Seq(LockEntry) /\ DOMAIN t = 1..a /\ t[a] = c /\ \A i \in 1..a - 1 : t[i] = r[i]
    BY <1>2, <2>2, <2>3, LastReplaced
  <2>5. \A i \in 1..a : i \in DOMAIN r /\ (i \in 1..a - 1 \/ i = a)
    BY <1>3, <2>2
  <2>6. \A i \in DOMAIN t : i \in DOMAIN r /\ \E b2 \in 0..7 : t[i] = Cut(r[i], b2)
    BY <1>4, <2>1, <2>2, <2>4, <2>5
  <2> QED BY <1>5, <1>6, <1>10, <2>1, <2>3, <2>4, <2>6
<1>11. CASE k \in Prefixes(l)
  <2> DEFINE T(a, j) == [l EXCEPT !.deps = SubSeq(r, 1, a - 1) \o <<Cut(r[a], j)>>]
             B       == {EmptyLock, CorruptLock, [l EXCEPT !.deps = <<>>]}
  <2>1. k \in B \cup UNION {{T(a, j) : j \in CutPoints} : a \in DOMAIN r}
    BY <1>2, <1>11 DEF Prefixes
  <2>2. ASSUME NEW a \in DOMAIN r, NEW j \in CutPoints, k = T(a, j) PROVE Torn(k)
    BY <1>10, <2>2
  <2>3. CASE k \in B
    BY <1>8, <1>9, <2>3
  <2> HIDE DEF T, B
  <2> QED BY <2>1, <2>2, <2>3, Zenon
<1> QED BY <1>7, <1>11

\* Whatever of a lock is written into the text of another process.
LEMMA OverlayTorn ==
  ASSUME NEW l, Torn(l), NEW old, Torn(old), NEW k \in Overlays(l, old) PROVE Torn(k)
<1> DEFINE after(n) == SubSeq(old.deps, n + 1, Len(old.deps))
           A(x)     == [old EXCEPT !.sha = x, !.tangled = TRUE]
           B(n)     == [l EXCEPT !.deps = after(n), !.tangled = TRUE]
           C(a, e, n) == [l EXCEPT !.deps = SubSeq(l.deps, 1, a - 1) \o <<e>> \o after(n), !.tangled = TRUE]
           E(a, n)  == UNION {Splices(l.deps[a], j, old.deps[n]) : j \in CutPoints}
<1>1. /\ l = [sha |-> l.sha, deps |-> l.deps, syntax |-> l.syntax, tangled |-> l.tangled] /\ l.deps \in Seq(LockEntry)
      /\ old = [sha |-> old.sha, deps |-> old.deps, syntax |-> old.syntax, tangled |-> old.tangled]
      /\ old.deps \in Seq(LockEntry)
  BY DEF Torn
<1>2. ASSUME NEW n \in 0..Len(old.deps) PROVE after(n) \in Seq(LockEntry)
  <2>1. PICK s : s = old.deps
    OBVIOUS
  <2>2. s \in Seq(LockEntry) /\ n \in 0..Len(s)
    BY <1>1, <2>1
  <2>3. SubSeq(s, n + 1, Len(s)) \in Seq(LockEntry)
    BY <2>2
  <2> QED BY <2>1, <2>3
<1>3. ASSUME NEW x PROVE Torn(A(x))
  <2>1. [old EXCEPT !.sha = x, !.tangled = TRUE] = [sha |-> x, deps |-> old.deps, syntax |-> old.syntax, tangled |-> TRUE]
    BY <1>1, LockParts
  <2> QED BY <1>1, <2>1, TangledTorn
<1>6. ASSUME NEW t \in Seq(LockEntry) PROVE Torn([l EXCEPT !.deps = t, !.tangled = TRUE])
  <2>1. [l EXCEPT !.deps = t, !.tangled = TRUE] = [sha |-> l.sha, deps |-> t, syntax |-> l.syntax, tangled |-> TRUE]
    BY <1>1, LockParts
  <2> QED BY <2>1, TangledTorn
<1>4. ASSUME NEW n \in 0..Len(old.deps) PROVE Torn(B(n))
  <2>1. PICK t : t = after(n)
    OBVIOUS
  <2>2. t \in Seq(LockEntry)
    BY <1>2, <2>1
  <2>3. Torn([l EXCEPT !.deps = t, !.tangled = TRUE])
    BY <1>6, <2>2
  <2> QED BY <2>1, <2>3
<1>5. ASSUME NEW a \in DOMAIN l.deps, NEW n \in DOMAIN old.deps, NEW e \in E(a, n) PROVE Torn(C(a, e, n))
  <2>1. l.deps[a] \in LockEntry /\ old.deps[n] \in LockEntry /\ n \in 0..Len(old.deps)
    BY <1>1
  <2>2. e \in LockEntry
    <3>1. PICK j \in CutPoints : e \in Splices(l.deps[a], j, old.deps[n])
      BY <1>5
    <3>2. j \in 0..7
      BY ManifestsAssumption
    <3> QED BY <2>1, <3>1, <3>2, JoinedEntry
  <2>3. PICK u, w : u = SubSeq(l.deps, 1, a - 1) \o <<e>> /\ w = after(n)
    OBVIOUS
  <2>4. u \in Seq(LockEntry)
    BY <1>1, <2>2, <2>3, LastReplaced
  <2>5. w \in Seq(LockEntry)
    BY <1>2, <2>1, <2>3
  <2>6. u \o w \in Seq(LockEntry)
    BY <2>4, <2>5
  <2>7. Torn([l EXCEPT !.deps = u \o w, !.tangled = TRUE])
    BY <1>6, <2>6
  <2> QED BY <2>3, <2>7
<1>7. \/ k \in {l, CorruptLock} \/ k \in {A(x) : x \in {old.sha, <<>>}} \/ k \in {B(n) : n \in 0..Len(old.deps)}
      \/ k \in UNION {UNION {{C(a, e, n) : e \in E(a, n)} : n \in DOMAIN old.deps} : a \in DOMAIN l.deps}
  BY DEF Overlays
<1> HIDE DEF A, B, C, E
<1>8. CASE k \in {l, CorruptLock}
  BY <1>8, NoLockTorn
<1>9. CASE k \in {A(x) : x \in {old.sha, <<>>}}
  BY <1>3, <1>9, Zenon
<1>10. CASE k \in {B(n) : n \in 0..Len(old.deps)}
  BY <1>4, <1>10, Zenon
<1>11. CASE k \in UNION {UNION {{C(a, e, n) : e \in E(a, n)} : n \in DOMAIN old.deps} : a \in DOMAIN l.deps}
  <2>1. PICK a \in DOMAIN l.deps : k \in UNION {{C(a, e, n) : e \in E(a, n)} : n \in DOMAIN old.deps}
    BY <1>11, Zenon
  <2>2. PICK n \in DOMAIN old.deps : k \in {C(a, e, n) : e \in E(a, n)}
    BY <2>1, Zenon
  <2> QED BY <1>5, <2>2, Zenon
<1> QED BY <1>7, <1>8, <1>9, <1>10, <1>11

LEMMA WrittenTorn ==
  ASSUME Types, Finished, Locks, NEW p \in Proc, Write(p) PROVE Torn(lock')
<1>1. PICK m, l, old : m = mine[p] /\ l = LockOf(p) /\ old = lock
  OBVIOUS
<1>2. pc[p] = "writing" /\ m \in RootManifests /\ Torn(old)
  BY <1>1 DEF Write, Types, Locks
<1>3. l = [sha |-> <<m.name, m.version, m.deps>>, deps |-> results[p], syntax |-> "ok", tangled |-> seen[p].tangled]
  BY <1>1 DEF LockOf
<1>4. results[p] \in Seq(LockEntry) /\ (~seen[p].tangled => Graph(m, results[p]))
  BY <1>1, <1>2 DEF Finished, FinishedAt
<1>5. /\ l = [sha |-> <<m.name, m.version, m.deps>>, deps |-> l.deps, syntax |-> l.syntax, tangled |-> l.tangled]
      /\ l.deps \in Seq(LockEntry) /\ (~l.tangled => Graph(m, l.deps))
  BY <1>3, <1>4
<1>6. \A k \in {l} \cup Prefixes(l) : Torn(k)
  BY <1>2, <1>5, PrefixTorn
<1>7. \A k \in Overlays(l, old) : Torn(k)
  BY <1>2, <1>6, OverlayTorn
<1>8. lock' \in {l} \cup Prefixes(l) \/ lock' \in Overlays(l, old)
  BY <1>1 DEF Write
<1> QED BY <1>6, <1>7, <1>8

LEMMA LocksStep == ASSUME Types, Finished, Locks, Next PROVE Locks'
<1>1. Torn(lock)'
  <2>1. CASE lock' = lock
    BY <2>1 DEF Locks, Torn, Text
  <2>2. ASSUME NEW p \in Proc, Truncate(p) PROVE Torn(lock)'
    <3>1. lock' = EmptyLock
      BY <2>2 DEF Truncate
    <3>2. Torn(lock')
      BY <3>1, NoLockTorn
    <3> QED BY <3>2 DEF Torn, Text
  <2>3. ASSUME NEW p \in Proc, Write(p) PROVE Torn(lock)'
    <3>1. Torn(lock')
      BY <2>3, WrittenTorn
    <3> QED BY <3>1 DEF Torn, Text
  <2> QED BY <2>1, <2>2, <2>3, NextMoves DEF Edit, Push, Move, Start, Reuse, ReuseMoved, Resolve, FetchCached, FetchClone, FetchFails, Settle,
         SettleRemove, SettleRename, SettleFails, SettleCopy, Revisit, Reject, Visit, Crash, disk
<1>2. ASSUME NEW q \in Proc PROVE Torn(seen[q])'
  <2>1. ASSUME seen'[q] \in {seen[q], NoLock, lock, [NoLock EXCEPT !.tangled = seen[q].tangled]} PROVE Torn(seen[q])'
    <3>1. Torn(seen'[q])
      BY <2>1, NoLockTorn DEF Locks
    <3> QED BY <3>1 DEF Torn, Text
  <2>2. ASSUME Quit(q) PROVE Torn(seen[q])'
    BY <2>1, <2>2, QuitLocals
  <2>3. ASSUME ReuseMoved(q) \/ Resolve(q) \/ \E fresh \in BOOLEAN : Start(q, fresh) PROVE Torn(seen[q])'
    <3>1. DOMAIN seen = Proc
      BY DEF Types
    <3> QED BY <2>1, <2>3, <3>1 DEF ReuseMoved, Resolve, Start
  <2>4. CASE seen' = seen
    BY <2>1, <2>4
  <2>5. ASSUME NEW p \in Proc, Move(p), p # q PROVE Torn(seen[q])'
    BY <2>1, <2>5, OthersStill DEF Still
  <2>6. CASE Edit \/ Push
    BY <2>4, <2>6 DEF Edit, Push, locals
  <2>7. CASE Move(q)
    BY <2>2, <2>3, <2>4, <2>7 DEF Move, Reuse, FetchCached, FetchClone, FetchFails, Settle,
         SettleRemove, SettleRename, SettleFails, SettleCopy, Revisit, Reject, Visit, Truncate, Write, Crash, locals
  <2> QED BY <2>5, <2>6, <2>7, NextMoves
<1> QED BY <1>1, <1>2 DEF Locks

(***************************************************************************)
(* Finished graphs, what is on disk, and the lock that is kept.            *)
(***************************************************************************)
LEMMA GraphTyped == ASSUME NEW m, NEW r, Graph(m, r) PROVE r \in Seq(LockEntry)
<1>1. r \in Seq(GraphEntry)
  BY DEF Graph, Entries
<1>2. \A e \in GraphEntry : e \in LockEntry
  BY GraphEntries
<1> QED BY <1>1, <1>2

LEMMA ReusedTyped ==
  ASSUME Types, NEW m \in RootManifests, NEW l, Torn(l), Usable(m, l) PROVE Reused(m, l) \in Seq(LockEntry)
<1>1. PICK k : k = [sha |-> l.sha, deps |-> Reused(m, l)]
  OBVIOUS
<1>2. k.sha = l.sha /\ k.deps = Reused(m, l) /\ l.deps \in Seq(LockEntry)
  BY <1>1 DEF Torn
<1> QED BY <1>2, ReusedLasts

LEMMA FinishedStep == ASSUME Types, Graphs, Finished, Locks, Next PROVE Finished'
<1> SUFFICES ASSUME NEW q \in Proc PROVE FinishedAt(q)'
  BY DEF Finished
<1>0. FinishedAt(q) /\ GraphAt(q) /\ pc \in [Proc -> PCs] /\ DOMAIN results = Proc
  BY DEF Finished, Graphs, Types
<1>1. ASSUME pc'[q] = pc[q], results'[q] = results[q], mine'[q] = mine[q], seen'[q] = seen[q] PROVE FinishedAt(q)'
  BY <1>0, <1>1 DEF FinishedAt
<1>2. CASE Edit \/ Push
  BY <1>1, <1>2 DEF Edit, Push, locals
<1>3. ASSUME NEW p \in Proc, Move(p), p # q PROVE FinishedAt(q)'
  BY <1>1, <1>3, OthersStill DEF Still
<1>4. CASE Move(q)
  <2>1. ASSUME pc'[q] \notin {"truncating", "writing"} PROVE FinishedAt(q)'
    BY <2>1 DEF FinishedAt
  <2>2. ASSUME Quit(q) PROVE FinishedAt(q)'
    BY <2>1, <2>2, QuitLocals
  <2>3. ASSUME ReuseMoved(q) PROVE FinishedAt(q)'
    <3>1. PICK m, l : m = mine[q] /\ l = seen[q]
      OBVIOUS
    <3>2. m \in RootManifests /\ Torn(l) /\ Usable(m, l)
      BY <2>3, <3>1 DEF ReuseMoved, Types, Locks
    <3>3. ~l.tangled => Graph(m, Reused(m, l))
      BY <3>2, LockReused
    <3>4. Reused(m, l) \in Seq(LockEntry)
      BY <3>2, ReusedTyped
    <3>5. results'[q] = Reused(m, l) /\ mine'[q] = m
      BY <1>0, <2>3, <3>1 DEF ReuseMoved
    <3>6. seen'[q] = [NoLock EXCEPT !.tangled = l.tangled]
      BY <2>3, <3>1 DEF ReuseMoved, Types
    <3>7. seen'[q].tangled = l.tangled
      BY <3>6 DEF NoLock
    <3> QED BY <3>3, <3>4, <3>5, <3>7 DEF FinishedAt
  <2>4. ASSUME Truncate(q) PROVE FinishedAt(q)'
    <3>1. results'[q] = results[q] /\ mine'[q] = mine[q] /\ seen'[q] = seen[q]
      BY <2>4 DEF Truncate
    <3>2. CASE pc[q] = "truncating"
      BY <1>0, <3>1, <3>2 DEF FinishedAt
    <3>3. CASE pc[q] = "resolving" /\ queue[q] = <<>>
      <4>1. Graph(mine[q], results[q])
        BY <1>0, <3>3, GrowingDone DEF GraphAt
      <4>2. results[q] \in Seq(LockEntry)
        BY <4>1, GraphTyped
      <4> QED BY <3>1, <4>1, <4>2 DEF FinishedAt
    <3> QED BY <2>4, <3>2, <3>3 DEF Truncate
  <2>5. ASSUME FetchCached(q) \/ Revisit(q) \/ Visit(q) PROVE FinishedAt(q)'
    <3>1. pc'[q] = "resolving"
      BY <2>5 DEF FetchCached, NeedsFetch, Revisit, Visit, Ready
    <3> QED BY <2>1, <3>1
  <2>6. ASSUME \/ FetchClone(q) \/ Settle(q) \/ SettleRemove(q) \/ SettleRename(q) \/ SettleCopy(q) \/ Resolve(q)
               \/ \E fresh \in BOOLEAN : Start(q, fresh)
        PROVE  FinishedAt(q)'
    BY <1>0, <2>1, <2>6 DEF FetchClone, Settle, SettleRemove, SettleRename, SettleCopy, Resolve, Start, Goto
  <2> QED BY <1>4, <2>2, <2>3, <2>4, <2>5, <2>6 DEF Move, Reuse, FetchFails, SettleFails, Reject, Write, Crash
<1> QED BY <1>2, <1>3, <1>4, NextMoves

\* What is on disk stays there while no verified checkout is touched.
LEMMA OnDiskStays ==
  ASSUME NEW r, OnDisk(r), \A e \in Range(r) : Recorded(e), files' = files,
         \A e \in Range(r) : e.kind = "git" /\ e.dir \in CacheDir /\ cache[e.dir] = "pristine" => cache'[e.dir] = "pristine"
  PROVE  /\ OnDisk(r)'
         /\ \A e \in Range(r) : e.kind = "git" => e.dir \in CacheDir /\ cache[e.dir] = "pristine"
<1> SUFFICES ASSUME NEW e \in Range(r)
             PROVE  /\ OnDiskOf(e)' = OnDiskOf(e)
                    /\ e.kind = "git" => e.dir \in CacheDir /\ cache[e.dir] = "pristine"
  BY DEF OnDisk, OnDiskOf
<1>1. e.kind \in {"git", "path"} /\ e.name \in PackageNames /\ Recorded(e)
  BY DEF Recorded, GraphEntry
<1>2. CASE e.kind = "path"
  BY <1>2 DEF OnDiskOf
<1>3. CASE e.kind = "git"
  <2>1. e.kind # "path"
    BY <1>3
  <2>2. cache[e.dir] = "pristine"
    <3>1. OnDiskOf(e).name # ""
      BY <1>1, EmptyName DEF OnDisk, OnDiskOf
    <3>2. NoManifest.name = ""
      BY DEF NoManifest
    <3> QED BY <2>1, <3>1, <3>2 DEF OnDiskOf
  <2>3. e.dir \in CacheDir
    BY <1>1, <1>3, GitDir
  <2>4. cache'[e.dir] = "pristine"
    BY <1>3, <2>2, <2>3
  <2> QED BY <2>1, <2>2, <2>3, <2>4 DEF OnDiskOf
<1> QED BY <1>1, <1>2, <1>3

\* A step of a process takes no checkout away that verifies, but for what it removes.
LEMMA MoveCache ==
  ASSUME Types, Clones, NEW p \in Proc, Move(p)
  PROVE  /\ files' = files /\ root' = root
         /\ \A d \in CacheDir : cache[d] = "pristine" =>
               \/ cache'[d] = "pristine"
               \/ d = Target(p) /\ pc[p] \in {"removing", "removed"}
<1>1. ASSUME SettleRemove(p) PROVE \A d \in CacheDir : cache[d] = "pristine" =>
               cache'[d] = "pristine" \/ (d = Target(p) /\ pc[p] \in {"removing", "removed"})
  <2>1. \A d \in CacheDir : d # Target(p) => cache'[d] = cache[d]
    BY <1>1, TypesSettleRemove
  <2> QED BY <1>1, <2>1 DEF SettleRemove
<1>2. ASSUME SettleRename(p) PROVE \A d \in CacheDir : cache[d] = "pristine" => cache'[d] = "pristine"
  <2>1. cache'[Target(p)] = "pristine" /\ \A d \in CacheDir : d # Target(p) => cache'[d] = cache[d]
    BY <1>2, TypesSettleRename
  <2> QED BY <2>1
<1>3. files' = files /\ root' = root
  BY DEF Move, Start, Reuse, ReuseMoved, Resolve, FetchCached, FetchClone, FetchFails, Settle, SettleRemove, SettleRename,
         SettleFails, SettleCopy, Revisit, Reject, Visit, Truncate, Write, Crash, disk
<1>4. SettleRemove(p) \/ SettleRename(p) \/ cache' = cache
  BY DEF Move, Start, Reuse, ReuseMoved, Resolve, FetchCached, FetchClone, FetchFails, Settle,
         SettleFails, SettleCopy, Revisit, Reject, Visit, Truncate, Write, Crash, disk
<1> QED BY <1>1, <1>2, <1>3, <1>4

LEMMA LastingSame == ASSUME NEW m, NEW l, Lasting(m, l), UNCHANGED <<files, cache>> PROVE Lasting(m, l)'
  BY LastingStays

LEMMA TookStep == ASSUME Resolving, Finished, Took, Locks, Next PROVE Took'
<1> SUFFICES ASSUME NEW q \in Proc, undisturbed'[q] PROVE TookAt(q)'
  BY DEF Took, TookAt
<1>0. Types /\ Graphs /\ Memos /\ Clones /\ Alone /\ DOMAIN results = Proc /\ DOMAIN seen = Proc /\ pc \in [Proc -> PCs]
  BY DEF Resolving, Types
<1>q. undisturbed[q] => TookAt(q)
  BY DEF Took
\* What was recorded stays on disk; a lock about to be written stays good.
<1>1. ASSUME NEW r, OnDisk(r)', results'[q] = r, pc'[q] \notin {"truncating", "writing"} PROVE TookAt(q)'
  BY <1>1 DEF TookAt, OnDisk
<1>2. ASSUME NEW m, NEW l, Lasting(m, l), UNCHANGED <<files, cache>>, mine'[q] = m, LockOf(q)' = l, pc'[q] \in {"truncating", "writing"}
      PROVE  TookAt(q)'
  <2>1. Lasting(m, l)'
    BY <1>2, LastingSame
  <2>2. Lasting(mine[q], LockOf(q))'
    BY <1>2, <2>1
  <2>3. pc'[q] \notin {"resolving"} \cup Fetching
    BY <1>2 DEF Fetching
  <2> QED BY <2>2, <2>3 DEF TookAt
<1>3. ASSUME pc'[q] \in {"idle", "locked"} PROVE TookAt(q)'
  BY <1>3 DEF TookAt, Fetching
<1>4. ASSUME undisturbed[q], UNCHANGED <<files, cache>>, pc'[q] = pc[q], mine'[q] = mine[q], seen'[q] = seen[q], results'[q] = results[q]
      PROVE  TookAt(q)'
  <2>1. CASE pc[q] \in {"truncating", "writing"}
    <3>1. PICK m, l : m = mine[q] /\ l = LockOf(q)
      OBVIOUS
    <3>2. Lasting(m, l)
      BY <1>q, <1>4, <2>1, <3>1 DEF TookAt
    <3>3. mine'[q] = m /\ LockOf(q)' = l
      BY <1>4, <3>1 DEF LockOf
    <3> QED BY <1>2, <1>4, <2>1, <3>2, <3>3
  <2>2. CASE pc[q] \in {"resolving"} \cup Fetching
    <3>1. PICK r : r = results[q]
      OBVIOUS
    <3>2. OnDisk(r)
      BY <1>q, <1>4, <2>2, <3>1 DEF TookAt
    <3>3. OnDisk(r)'
      BY <1>4, <3>2 DEF OnDisk
    <3> QED BY <1>1, <1>4, <2>2, <3>1, <3>3 DEF Fetching
  <2>3. CASE pc[q] \in {"idle", "locked"}
    BY <1>3, <1>4, <2>3
  <2> QED BY <1>0, <2>1, <2>2, <2>3 DEF PCs, Fetching
<1>5. CASE Push
  <2>1. UNCHANGED <<files, cache, pc, mine, seen, results, undisturbed>>
    BY <1>5 DEF Push, locals
  <2> QED BY <1>4, <2>1
<1>6. ASSUME NEW fresh \in BOOLEAN, Start(q, fresh) PROVE TookAt(q)'
  BY <1>0, <1>3, <1>6 DEF Start, Goto
<1>7. ASSUME Quit(q) PROVE TookAt(q)'
  BY <1>0, <1>3, <1>7, QuitLocals
<1>8. ASSUME ReuseMoved(q) PROVE TookAt(q)'
  <2>1. PICK m, l, k : m = mine[q] /\ l = seen[q] /\ k = LockOf(q)'
    OBVIOUS
  <2>2. m \in RootManifests /\ Torn(l) /\ Usable(m, l)
    BY <1>0, <1>8, <2>1 DEF ReuseMoved, Types, Locks
  <2>3. /\ results'[q] = Reused(m, l) /\ mine'[q] = m /\ UNCHANGED <<files, cache>> /\ pc'[q] = "truncating"
    BY <1>0, <1>8, <2>1 DEF ReuseMoved, disk, Goto
  <2>4. k.sha = <<m.name, m.version, m.deps>> /\ k.deps = Reused(m, l)
    BY <2>1, <2>3 DEF LockOf
  <2>5. l.sha = <<m.name, m.version, m.deps>> /\ l.deps \in Seq(LockEntry)
    BY <2>2, UsableParts DEF Torn
  <2>6. Lasting(m, k)
    BY <1>0, <2>2, <2>4, <2>5, ReusedLasts
  <2> QED BY <1>2, <2>1, <2>3, <2>6
<1>9. ASSUME Truncate(q), undisturbed[q] PROVE TookAt(q)'
  <2>1. PICK m, l, r : m = mine[q] /\ l = LockOf(q) /\ r = results[q]
    OBVIOUS
  <2>2. UNCHANGED <<files, cache, mine, seen, results>> /\ pc'[q] = "writing"
    BY <1>0, <1>9 DEF Truncate, Goto
  <2>3. mine'[q] = m /\ LockOf(q)' = l
    BY <2>1, <2>2 DEF LockOf
  <2>4. Lasting(m, l)
    <3>1. CASE pc[q] = "truncating"
      BY <1>q, <1>9, <2>1, <3>1 DEF TookAt
    <3>2. CASE pc[q] = "resolving" /\ queue[q] = <<>>
      <4>1. Graph(m, r)
        BY <1>0, <2>1, <3>2, GrowingDone DEF Graphs, GraphAt
      <4>2. OnDisk(r)
        BY <1>q, <1>9, <2>1, <3>2 DEF TookAt
      <4>3. m \in RootManifests /\ l.sha = <<m.name, m.version, m.deps>> /\ l.deps = r
        BY <1>0, <2>1, <3>2 DEF Types, LockOf
      <4> QED BY <1>0, <4>1, <4>2, <4>3, GraphUsable
    <3> QED BY <1>9, <3>1, <3>2 DEF Truncate
  <2> QED BY <1>2, <2>2, <2>3, <2>4
<1>10. ASSUME Resolve(q) PROVE TookAt(q)'
  <2>1. results'[q] = <<>> /\ pc'[q] = "resolving"
    BY <1>0, <1>10 DEF Resolve, Goto, Graphs, GraphAt
  <2>2. OnDisk(<<>>)'
    BY RangeEmpty DEF OnDisk
  <2> QED BY <1>1, <2>1, <2>2
<1>11. ASSUME Move(q), undisturbed[q], pc[q] \in {"resolving"} \cup Fetching, NEW s, s = results[q]
       PROVE  /\ OnDisk(s)' /\ s \in Seq(GraphEntry)
  <2>1. OnDisk(s) /\ s \in Seq(GraphEntry) /\ \A e \in Range(s) : Recorded(e)
    BY <1>0, <1>q, <1>11 DEF TookAt, Graphs, GraphAt, Growing, Entries
  <2>2. files' = files /\ \A d \in CacheDir : cache[d] = "pristine" => cache'[d] = "pristine"
    BY <1>0, <1>11, MoveCache DEF Alone, AloneAt
  <2> QED BY <2>1, <2>2, OnDiskStays
<1>12. ASSUME undisturbed[q], FetchCached(q) \/ FetchClone(q) \/ Settle(q) \/ SettleRemove(q) \/ SettleRename(q) \/ SettleCopy(q) \/ Revisit(q)
       PROVE  TookAt(q)'
  <2>1. pc[q] \in {"resolving"} \cup Fetching /\ results' = results
    BY <1>12 DEF FetchCached, FetchClone, NeedsFetch, Settle, SettleRemove, SettleRename, SettleCopy, Revisit, Ready, Fetching, locals
  <2>2. ASSUME FetchCached(q) \/ Revisit(q) PROVE pc'[q] = "resolving"
    BY <2>2 DEF FetchCached, NeedsFetch, Revisit, Ready
  <2>3. ASSUME FetchClone(q) \/ Settle(q) \/ SettleRemove(q) \/ SettleRename(q) \/ SettleCopy(q)
        PROVE  pc'[q] \in {"cloned", "placing", "removing", "removed", "resolving"}
    BY <1>0, <2>3 DEF FetchClone, Settle, SettleRemove, SettleRename, SettleCopy, Goto
  <2>4. PICK s : s = results[q]
    OBVIOUS
  <2>5. OnDisk(s)'
    BY <1>11, <1>12, <2>1, <2>4 DEF Move
  <2>6. pc'[q] \notin {"truncating", "writing"}
    BY <1>12, <2>2, <2>3
  <2> QED BY <1>1, <2>1, <2>4, <2>5, <2>6
<1>13. ASSUME undisturbed[q], Visit(q) PROVE TookAt(q)'
  <2>0. PICK s, r : s = results[q] /\ r = results'[q]
    OBVIOUS
  <2>p. pc[q] = "resolving" /\ pc'[q] = "resolving"
    BY <1>13 DEF Visit, Ready
  <2>1. OnDisk(s)' /\ s \in Seq(GraphEntry)
    BY <1>11, <1>13, <2>0, <2>p DEF Move
  <2>2. PICK d : d = Head(queue[q])
    OBVIOUS
  <2>3. PICK f \in Found(d, Located(q, d).dir) :
           /\ f.name = d.name /\ d.pin \in {"", f.version}
           /\ results' = [results EXCEPT ![q] = Append(@, Entry(d, Located(q, d), f))]
    BY <1>13, <2>2 DEF Visit
  <2>4. PICK e : e = Entry(d, Located(q, d), f)
    OBVIOUS
  <2>5. Looked(q, d, f, e)
    BY <1>13, <2>2, <2>3, <2>4 DEF Looked, Visit
  <2>6. /\ Recorded(e) /\ e.depsSha = <<f.deps>> /\ e.name = f.name /\ e.version = f.version /\ e.kind = d.kind
        /\ d.kind = "path" => e.dir = <<d.source>> /\ f = files[d.source]
        /\ d.kind = "git" => f = Tree[e.rev] /\ \E x \in memo[q] : x.dir = e.dir
    BY <1>0, <2>5, VisitEntry
  <2>7. e.kind \in {"git", "path"} /\ e \in GraphEntry
    BY <2>6 DEF Recorded, GraphEntry
  <2>8. OnDiskOf(e) = f
    <3>1. CASE d.kind = "git"
      BY <1>0, <1>13, <2>6, <3>1 DEF OnDiskOf, Alone, AloneAt
    <3>2. CASE d.kind = "path"
      <4>1. <<d.source>>[1] = d.source
        OBVIOUS
      <4>2. e.dir[1] = d.source
        BY <2>6, <3>2, <4>1
      <4> QED BY <2>6, <3>2, <4>2 DEF OnDiskOf
    <3> QED BY <2>6, <2>7, <3>1, <3>2
  <2>9. files' = files /\ cache' = cache
    BY <1>13 DEF Visit, disk
  <2>10. OnDiskOf(e)' = f
    BY <2>8, <2>9 DEF OnDiskOf
  <2>11. r = Append(s, e)
    BY <1>0, <2>0, <2>3, <2>4
  <2>12. Range(r) = Range(s) \cup {e}
    BY <2>1, <2>7, <2>11, RangeAppend
  <2>13. ASSUME NEW y \in Range(r)
         PROVE  OnDiskOf(y)'.name = y.name /\ OnDiskOf(y)'.version = y.version /\ <<OnDiskOf(y)'.deps>> = y.depsSha
    <3>1. CASE y \in Range(s)
      BY <2>1, <3>1 DEF OnDisk, OnDiskOf
    <3>2. CASE y = e
      BY <2>6, <2>10, <3>2
    <3> QED BY <2>12, <3>1, <3>2
  <2>14. OnDisk(r)'
    BY <2>13 DEF OnDisk, OnDiskOf
  <2> QED BY <1>1, <2>0, <2>p, <2>14
<1>14. ASSUME Move(q), undisturbed[q] PROVE TookAt(q)'
  BY <1>6, <1>7, <1>8, <1>9, <1>10, <1>12, <1>13, <1>14 DEF Move, Reuse, FetchFails, SettleFails, Reject, Write, Crash
<1> QED BY <1>0, <1>5, <1>6, <1>14, UndisturbedMoves

LEMMA KeptStep == ASSUME Resolving, Took, Kept, Next PROVE Kept'
<1> SUFFICES ASSUME settled' PROVE Kept'
  BY DEF Kept
<1>0. Types /\ Graphs /\ Memos /\ Clones /\ Alone
  BY DEF Resolving
<1>t. pc \in [Proc -> PCs]
  BY <1>0 DEF Types
<1>1. ASSUME NEW p \in Proc, Write(p) PROVE Kept'
  <2>1. undisturbed[p] /\ lock' = LockOf(p) /\ pc[p] = "writing" /\ Quit(p) /\ UNCHANGED <<root, files, cache>>
    BY <1>1 DEF Write
  <2>2. mine[p] = root /\ \A o \in Proc \ {p} : pc[o] = "idle"
    BY <1>0, <2>1 DEF Alone, AloneAt
  <2>3. PICK m, l : m = mine[p] /\ l = LockOf(p)
    OBVIOUS
  <2>4. Lasting(m, l)
    BY <2>1, <2>3 DEF Took, TookAt
  <2>5. Lasting(m, l)'
    BY <2>1, <2>4, LastingSame
  <2>6. Lasting(root, lock)'
    BY <2>1, <2>2, <2>3, <2>5
  <2>7. \A q \in Proc : pc'[q] = "idle"
    BY <1>t, <2>1, <2>2 DEF Quit, Goto
  <2>8. lock'.syntax = "ok"
    BY <2>1 DEF LockOf
  <2> QED BY <2>6, <2>7, <2>8 DEF Kept
<1>2. ASSUME settled, lock' = lock, root' = root, files' = files,
             \A d \in CacheDir : cache[d] = "pristine" =>
                cache'[d] = "pristine" \/ \E q \in Proc : d = Target(q) /\ pc[q] \in {"removing", "removed"},
             \A q \in Proc : pc'[q] # "writing" /\ (pc'[q] \in {"removing", "removed"} =>
                               /\ Target(q)' = Target(q)
                               /\ \/ pc[q] \in {"removing", "removed"}
                                  \/ Target(q) \in CacheDir /\ cache[Target(q)] # "pristine")
      PROVE  Kept'
  <2>0. PICK m, l : m = root /\ l = lock
    OBVIOUS
  <2>1. /\ l.syntax = "ok" /\ Lasting(m, l)
        /\ \A q \in Proc : pc[q] \in {"removing", "removed"} => \A e \in Range(l.deps) : LockedDir(m, e) # Target(q)
    BY <1>2, <2>0 DEF Kept
  <2>2. \A e \in Range(l.deps) : LockedDir(m, e) \in CacheDir /\ cache[LockedDir(m, e)] = "pristine"
                                  => cache'[LockedDir(m, e)] = "pristine"
    BY <1>2, <2>1
  <2>3. Lasting(m, l)' /\ \A e \in Range(l.deps) : LockedDir(m, e) \in CacheDir => cache[LockedDir(m, e)] = "pristine"
    BY <1>2, <2>1, <2>2, LastingStays
  <2>4. \A q \in Proc : pc'[q] \in {"removing", "removed"} => \A e \in Range(l.deps) : LockedDir(m, e) # Target(q)'
    BY <1>2, <2>1, <2>3
  <2>5. lock' = l /\ root' = m
    BY <1>2, <2>0
  <2>6. Lasting(root, lock)'
    BY <2>3, <2>5
  <2> QED BY <1>2, <2>1, <2>4, <2>5, <2>6 DEF Kept
<1>3. CASE Edit
  BY <1>3 DEF Edit
<1>4. CASE Push
  <2>1. UNCHANGED <<root, files, cache, lock, pc, queue, clone, settled>>
    BY <1>4 DEF Push, locals
  <2> QED BY <1>2, <2>1 DEF Kept, Target
<1>5. ASSUME NEW p \in Proc, Move(p), ~Write(p) PROVE Kept'
  <2>1. ~Truncate(p)
    BY DEF Truncate
  <2>2. settled /\ lock' = lock
    BY <1>5, <2>1 DEF Move, Start, Reuse, ReuseMoved, Resolve, FetchCached, FetchClone, FetchFails, Settle,
         SettleRemove, SettleRename, SettleFails, SettleCopy, Revisit, Reject, Visit, Crash, disk, history
  <2>3. /\ files' = files /\ root' = root
        /\ \A d \in CacheDir : cache[d] = "pristine" =>
               cache'[d] = "pristine" \/ \E q \in Proc : d = Target(q) /\ pc[q] \in {"removing", "removed"}
    BY <1>0, <1>5, MoveCache
  <2>4. ASSUME NEW q \in Proc
        PROVE  pc'[q] # "writing" /\ (pc'[q] \in {"removing", "removed"} =>
                   /\ Target(q)' = Target(q)
                   /\ \/ pc[q] \in {"removing", "removed"}
                      \/ Target(q) \in CacheDir /\ cache[Target(q)] # "pristine")
    <3>0. pc[q] # "writing"
      BY <2>2 DEF Kept
    <3>1. CASE q # p
      BY <1>0, <1>5, <3>0, <3>1, OthersStill DEF Still, Target
    <3>2. CASE q = p
      <4>1. ASSUME Settle(p), pc'[p] = "removing" PROVE Target(p)' = Target(p) /\ Target(p) \in CacheDir /\ cache[Target(p)] # "pristine"
        <5>1. Target(p) \in CacheDir
          BY <1>0, <4>1, TargetTyped DEF Settle, Fetching
        <5> QED BY <1>t, <4>1, <5>1 DEF Settle, Goto, Target
      <4>2. ASSUME SettleRemove(p) PROVE Target(p)' = Target(p) /\ pc[p] \in {"removing", "removed"}
        BY <4>2 DEF SettleRemove, locals, Target
      <4>3. ASSUME Settle(p) PROVE pc'[p] \in {"placing", "removing", "resolving"}
        BY <1>t, <4>3 DEF Settle, Goto
      <4>4. ASSUME SettleRemove(p) PROVE pc'[p] \in {"placing", "removed"}
        BY <1>t, <4>4 DEF SettleRemove, Goto
      <4>5. ASSUME ~Settle(p), ~SettleRemove(p) PROVE pc'[p] \in {"idle", "locked", "resolving", "cloned", "truncating"}
        <5>1. ASSUME Quit(p) PROVE pc'[p] = "idle"
          BY <1>0, <5>1, QuitLocals
        <5>2. ASSUME FetchCached(p) \/ Revisit(p) \/ Visit(p) PROVE pc'[p] = "resolving"
          BY <5>2 DEF FetchCached, NeedsFetch, Revisit, Visit, Ready
        <5>3. ASSUME \/ FetchClone(p) \/ SettleRename(p) \/ SettleCopy(p) \/ Resolve(p) \/ ReuseMoved(p)
                     \/ \E fresh \in BOOLEAN : Start(p, fresh)
              PROVE  pc'[p] \in {"idle", "locked", "resolving", "cloned", "truncating"}
          BY <1>t, <5>3 DEF FetchClone, SettleRename, SettleCopy, Resolve, ReuseMoved, Start, Goto
        <5> QED BY <1>5, <2>1, <4>5, <5>1, <5>2, <5>3 DEF Move, Reuse, FetchFails, SettleFails, Reject, Crash
      <4> QED BY <3>2, <4>1, <4>2, <4>3, <4>4, <4>5
    <3> QED BY <3>1, <3>2
  <2> QED BY <1>2, <2>2, <2>3, <2>4
<1> QED BY <1>1, <1>3, <1>4, <1>5, NextMoves

LEMMA InvInit == Init => Inv
<1> SUFFICES ASSUME Init PROVE Inv
  OBVIOUS
<1>1. Finished /\ Took /\ Kept
  BY DEF Init, Finished, FinishedAt, Took, TookAt, Kept
<1>2. Locks
  BY NoLockTorn DEF Init, Locks
<1> QED BY <1>1, <1>2, ResolvingInit DEF Inv

LEMMA InvStep == Inv /\ [Next]_vars => Inv'
<1>1. ASSUME Inv, Next PROVE Inv'
  <2>1. Resolving'
    BY <1>1, ResolvingStep DEF Inv
  <2>2. Finished' /\ Locks'
    BY <1>1, FinishedStep, LocksStep DEF Inv, Resolving
  <2>3. Took' /\ Kept'
    BY <1>1, TookStep, KeptStep DEF Inv
  <2> QED BY <2>1, <2>2, <2>3 DEF Inv
<1>2. ASSUME Inv, UNCHANGED vars PROVE Inv'
  <2>0. UNCHANGED <<root, files, head, cache, lock, pc, mine, seen, queue, results, memo, clone, undisturbed, settled>>
    BY <1>2 DEF vars, disk, locals, history
  <2>1. Resolving'
    BY <1>2, ResolvingStep DEF Inv
  <2>2. Finished'
    BY <1>2, <2>0 DEF Inv, Finished, FinishedAt
  <2>3. Took' /\ Kept'
    <3>1. \A m, l : Lasting(m, l) => Lasting(m, l)'
      BY <2>0, LastingSame
    <3>2. \A r : OnDisk(r)' = OnDisk(r)
      BY <2>0 DEF OnDisk
    <3>3. \A p : LockOf(p)' = LockOf(p) /\ Target(p)' = Target(p)
      BY <2>0 DEF LockOf, Target
    <3>4. Took'
      BY <1>2, <2>0, <3>1, <3>2, <3>3 DEF Inv, Took, TookAt
    <3>5. Kept'
      BY <1>2, <2>0, <3>1, <3>3 DEF Inv, Kept
    <3> QED BY <3>4, <3>5
  <2>4. Locks'
    BY <1>2, <2>0 DEF Inv, Locks
  <2> QED BY <2>1, <2>2, <2>3, <2>4 DEF Inv
<1> QED BY <1>1, <1>2

LEMMA InvAlways == Spec => []Inv
  BY InvInit, InvStep, PTL DEF Spec

\* commands.cpp:232-238: after an undisturbed install the next one reuses the lock and gets the same packages, wherever the
\* branches are by then and whatever other processes began meanwhile.
THEOREM InstallReproducible == Spec => []Reproducible
<1>1. Inv => Reproducible
  BY DEF Inv, Kept, Lasting, Reproducible
<1> QED BY <1>1, InvAlways, PTL

\* resolver.cpp:163-167: what a resolution ends with agrees with every declaration it recorded, pins included, although
\* manifests change, branches move and processes interleave.
THEOREM GraphsComplete == Spec => []GraphComplete
<1>1. ASSUME NEW m, NEW r, Growing(m, r, <<>>) PROVE Complete(m, r, Declared(m, r))
  <2>1. \A d \in Declared(m, r) : \E e \in Range(r) : Satisfies(d, e)
    BY <1>1, RangeEmpty DEF Growing, Answered
  <2>2. \A d, e : Satisfies(d, e) => Fits(d, e) /\ d.pin \in {"", e.version}
    BY DEF Satisfies, Fits
  <2>3. /\ \A i, j \in DOMAIN r : r[i].name = r[j].name => i = j
        /\ \A e \in Range(r) : \E d \in Declared(m, r) : d.name = e.name
    BY <1>1 DEF Growing, AskedFor, Entries
  <2> QED BY <2>1, <2>2, <2>3 DEF Complete
<1>2. Inv => GraphComplete
  BY <1>1 DEF Inv, Resolving, Graphs, GraphAt, GraphComplete
<1> QED BY <1>2, InvAlways, PTL

\* commands.cpp:56-68: a lock that one process wrote, all of it or a part, is reused only if it describes what the manifests on
\* disk ask for, whatever was edited, torn or damaged before; of the pins, those of the project itself and those on git packages.
THEOREM LocksSound == Spec => LockSound
<1>1. ASSUME NEW m, NEW r, Graph(m, r)
      PROVE  Complete(m, r, {d \in Declared(m, r) : d \in Range(m.deps) \/ d.kind = "git"})
  <2>1. ASSUME NEW d \in Declared(m, r)
        PROVE  \E e \in Range(r) : Fits(d, e) /\ (d \in Range(m.deps) \/ d.kind = "git" => d.pin \in {"", e.version})
    <3>1. PICK e \in Range(r) : Meets(d, e)
      BY <1>1 DEF Graph
    <3>2. Fits(d, e) /\ (d.kind = "git" => d.pin \in {"", e.version})
      BY <3>1 DEF Meets, Fits
    <3>3. ASSUME d \in Range(m.deps) PROVE d.pin \in {"", e.version}
      <4>1. PICK x \in Range(r) : AsWritten(d, x) /\ d.pin \in {"", x.version}
        BY <1>1, <3>3 DEF Graph
      <4>2. Once(r) /\ x.name = e.name
        BY <1>1, <3>1, <4>1 DEF Graph, Entries, Once, AsWritten, Meets
      <4>3. x = e
        BY <4>2, OnceSame
      <4> QED BY <4>1, <4>3
    <3> QED BY <3>2, <3>3
  <2>2. /\ \A i, j \in DOMAIN r : r[i].name = r[j].name => i = j
        /\ \A e \in Range(r) : \E d \in Declared(m, r) : d.name = e.name
    BY <1>1 DEF Graph, Entries
  <2> QED BY <2>1, <2>2 DEF Complete
<1>2. ASSUME Inv, NEW p \in Proc, Reuse(p) \/ ReuseMoved(p), ~seen[p].tangled
      PROVE  LET r == Reused(mine[p], seen[p])
             IN  /\ Complete(mine[p], r, {d \in Declared(mine[p], r) : d \in Range(mine[p].deps) \/ d.kind = "git"})
                 /\ OnDisk(r)
  <2>1. mine[p] \in RootManifests /\ Torn(seen[p]) /\ Usable(mine[p], seen[p]) /\ Types
    BY <1>2 DEF Inv, Resolving, Reuse, ReuseMoved, Types, Locks
  <2>2. Graph(mine[p], Reused(mine[p], seen[p])) /\ OnDisk(Reused(mine[p], seen[p]))
    BY <1>2, <2>1, LockReused
  <2> QED BY <1>1, <2>2
<1>3. Inv => \A p \in Proc : (Reuse(p) \/ ReuseMoved(p)) /\ ~seen[p].tangled =>
                LET r == Reused(mine[p], seen[p])
                IN  /\ Complete(mine[p], r, {d \in Declared(mine[p], r) : d \in Range(mine[p].deps) \/ d.kind = "git"})
                    /\ OnDisk(r)
  BY <1>2
<1> QED BY <1>3, InvAlways, PTL DEF LockSound
=============================================================================
