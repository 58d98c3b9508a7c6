------------------------------- MODULE Zlpkg -------------------------------
(***************************************************************************)
(* zlpkg, the package manager: `zlpkg install` and the installing half of  *)
(* `zlpkg run`, as processes that share one project directory (manifest,   *)
(* zlpkg.lock, the .zlpkg/ cache) with each other and with a user who      *)
(* edits packages, moves branches, and damages or deletes the cache.       *)
(*                                                                         *)
(* A manifest is [name, version, deps]; a dependency is                    *)
(* [name, kind, source, ref, pin], with "" for a ref or a pin not given.   *)
(* The fingerprints (FNV-1a over exactly these fields) are the fields      *)
(* themselves: two manifests with the same 64-bit hash are not modelled.   *)
(* A path package lies in a directory named by its source, relative to     *)
(* the manifests that ask for it; git packages have no path dependencies   *)
(* of their own.  A directory is <<source>>, or <<name, commit>> in the    *)
(* cache.                                                                  *)
(***************************************************************************)
EXTENDS Integers, Sequences, FiniteSets

CONSTANTS Proc,           \* running zlpkg processes
          Source,         \* directories of path packages
          Url,            \* git remotes
          Commit,         \* commits, all of them in every remote
          Tree,           \* the manifest each commit holds
          Tip,            \* the first commit of every default branch
          RootManifests,  \* what the user may write into the project's zlpkg.toml
          DirManifests,   \* what the user may write into the path package at a source
          CutPoints,      \* bound: after how many fields a torn entry may end, in 0..7
          MaxEdits        \* bound: edits of the user

NoManifest == [name |-> "", version |-> "", deps |-> <<>>]
\* What readLockFile makes of zlpkg.lock; `tangled` is history: what it says goes back to a
\* text that two processes wrote into one file.
NoLock      == [sha |-> <<>>, deps |-> <<>>, syntax |-> "absent", tangled |-> FALSE]
EmptyLock   == [NoLock EXCEPT !.syntax = "ok"]
CorruptLock == [NoLock EXCEPT !.syntax = "corrupt"]

Range(s) == {s[i] : i \in DOMAIN s}
NamesOf(s) == {s[i].name : i \in DOMAIN s}

\* What loadManifest accepts, and NoManifest: the ref of a path is not read, no name is
\* empty or given twice.
Dependency == [name : STRING \ {""}, kind : {"git"}, source : Url, ref : Commit \cup {""}, pin : STRING]
              \cup [name : STRING \ {""}, kind : {"path"}, source : Source, ref : {""}, pin : STRING]

Manifest == {m \in [name : STRING, version : STRING, deps : Seq(Dependency)] :
                \A i, j \in DOMAIN m.deps : m.deps[i].name = m.deps[j].name => i = j}

ASSUME ManifestsAssumption ==
    /\ Tree \in [Commit -> Manifest] /\ Tip \in Commit /\ RootManifests \subseteq Manifest
    /\ DOMAIN DirManifests = Source /\ \A s \in Source : DirManifests[s] \subseteq Manifest
    /\ \A c \in Commit : \A d \in Range(Tree[c].deps) : d.kind = "git"
    /\ "" \notin Commit \cup Source /\ "path" \notin Url
    /\ CutPoints \subseteq 0..7 /\ MaxEdits \in Nat

PackageNames == UNION {NamesOf(m.deps) : m \in RootManifests \cup {Tree[c] : c \in Commit}
                                                \cup UNION {DirManifests[s] : s \in Source}}

CacheDir == PackageNames \X Commit

VARIABLES root, files, head, cache, lock,                  \* the disk and the remotes
          pc, mine, seen, queue, results, memo, clone,     \* one process each
          edits, undisturbed, settled                      \* history

disk    == <<root, files, head, cache, lock>>
locals  == <<mine, seen, queue, results, memo, clone>>
history == <<edits, undisturbed, settled>>
vars    == <<disk, pc, locals, history>>

Goto(p, l) == pc' = [pc EXCEPT ![p] = l]

\* The process is gone, and with it all it knew.
Quit(p) ==
    /\ Goto(p, "idle")
    /\ mine' = [mine EXCEPT ![p] = NoManifest] /\ seen' = [seen EXCEPT ![p] = NoLock]
    /\ queue' = [queue EXCEPT ![p] = <<>>] /\ results' = [results EXCEPT ![p] = <<>>]
    /\ memo' = [memo EXCEPT ![p] = {}] /\ clone' = [clone EXCEPT ![p] = ""]
    /\ undisturbed' = [undisturbed EXCEPT ![p] = FALSE]

Init ==
    /\ root \in RootManifests
    /\ files \in {f \in [Source -> UNION {DirManifests[s] : s \in Source}] :
                      \A s \in Source : f[s] \in DirManifests[s]}
    /\ head = [u \in Url |-> Tip]
    /\ cache = [d \in CacheDir |-> "absent"] /\ lock = NoLock
    /\ pc = [p \in Proc |-> "idle"]
    /\ mine = [p \in Proc |-> NoManifest] /\ seen = [p \in Proc |-> NoLock]
    /\ queue = [p \in Proc |-> <<>>] /\ results = [p \in Proc |-> <<>>]
    /\ memo = [p \in Proc |-> {}] /\ clone = [p \in Proc |-> ""]
    /\ edits = 0 /\ undisturbed = [p \in Proc |-> FALSE] /\ settled = FALSE

(***************************************************************************)
(* tryUseLock: the lock l against the manifest m and what is on disk.      *)
(***************************************************************************)
Decl(m, n)   == CHOOSE d \in Range(m.deps) : d.name = n
IsRoot(m, n) == n \in NamesOf(m.deps)

\* A root path comes from the manifest, another one from the lock's dir; a git
\* package from the cache path of (name, sha).
LockedDir(m, e) == IF e.kind = "git" THEN <<e.name, e.rev>>
                   ELSE IF IsRoot(m, e.name) THEN <<Decl(m, e.name).source>> ELSE e.dir

\* The manifest found there; none where verifyGitCache or a file is missing.  (The dir of a
\* path in a torn lock may be in the cache; a damaged checkout is taken to have none.)
LockedManifest(m, e) ==
    LET dir == LockedDir(m, e)
    IN  IF dir \in CacheDir
        THEN IF cache[dir] = "pristine" THEN Tree[dir[2]] ELSE NoManifest
        ELSE IF e.kind = "path" /\ dir # <<>> THEN files[dir[1]] ELSE NoManifest

\* Names reached from the root over the verified manifests.
Reached(m, l) ==
    {n \in NamesOf(l.deps) :
        \A S \in SUBSET NamesOf(l.deps) :
            (/\ NamesOf(m.deps) \cap NamesOf(l.deps) \subseteq S
             /\ \A e \in Range(l.deps) : e.name \in S =>
                    NamesOf(LockedManifest(m, e).deps) \cap NamesOf(l.deps) \subseteq S)
            => n \in S}

\* Mutants: the dependency lists are not compared; a missing pin is a pin.
UsableIgnoringEdges(m, l) ==
    /\ l.sha = <<m.name, m.version, m.deps>>
    /\ \A i, j \in DOMAIN l.deps : l.deps[i].name = l.deps[j].name => i = j
    /\ \A d \in Range(m.deps) : \E e \in Range(l.deps) :
           <<e.name, e.kind, e.source, e.ref>> = <<d.name, d.kind, d.source, d.ref>>
    /\ \A e \in Range(l.deps) : LET f == LockedManifest(m, e) IN
           /\ f # NoManifest /\ f.name = e.name
           /\ IsRoot(m, e.name) => Decl(m, e.name).pin \in {"", f.version}
    /\ Reached(m, l) = NamesOf(l.deps)
    /\ \A e \in Range(l.deps) : NamesOf(LockedManifest(m, e).deps) \subseteq NamesOf(l.deps)

UsableEmptyPin(m, l) ==
    /\ l.sha = <<m.name, m.version, m.deps>>
    /\ \A i, j \in DOMAIN l.deps : l.deps[i].name = l.deps[j].name => i = j
    /\ \A d \in Range(m.deps) : \E e \in Range(l.deps) :
           <<e.name, e.kind, e.source, e.ref>> = <<d.name, d.kind, d.source, d.ref>>
    /\ \A e \in Range(l.deps) : LET f == LockedManifest(m, e) IN
           /\ f # NoManifest /\ f.name = e.name
           /\ IsRoot(m, e.name) => Decl(m, e.name).pin = f.version
           /\ e.depsSha = <<f.deps>>
    /\ Reached(m, l) = NamesOf(l.deps)

\* Every check of tryUseLock.
Usable(m, l) ==
    /\ l.sha = <<m.name, m.version, m.deps>>
    /\ \A i, j \in DOMAIN l.deps : l.deps[i].name = l.deps[j].name => i = j
    /\ \A d \in Range(m.deps) : \E e \in Range(l.deps) :
           <<e.name, e.kind, e.source, e.ref>> = <<d.name, d.kind, d.source, d.ref>>
    /\ \A e \in Range(l.deps) : LET f == LockedManifest(m, e) IN
           /\ f # NoManifest /\ f.name = e.name
           /\ IsRoot(m, e.name) => Decl(m, e.name).pin \in {"", f.version}
           /\ e.depsSha = <<f.deps>>
    /\ Reached(m, l) = NamesOf(l.deps)
    /\ \A e \in Range(l.deps) : NamesOf(LockedManifest(m, e).deps) \subseteq NamesOf(l.deps)

\* The entry handed to the caller: declarations from the manifest, version from disk.
Refreshed(m, e) ==
    [e EXCEPT !.version = LockedManifest(m, e).version,
              !.dir = LockedDir(m, e),
              !.source = IF IsRoot(m, e.name) THEN Decl(m, e.name).source ELSE @,
              !.ref = IF e.kind = "path" THEN "" ELSE IF IsRoot(m, e.name) THEN Decl(m, e.name).ref ELSE @,
              !.rev = IF e.kind = "path" THEN "local" ELSE @]

Reused(m, l) == [i \in DOMAIN l.deps |-> Refreshed(m, l.deps[i])]

\* The version of a live tree is not the locked one.
Moved(m, l) == \E e \in Range(l.deps) : LockedManifest(m, e).version # e.version

(***************************************************************************)
(* ensureInstalled, first half: read the manifest and the lock, reuse it.  *)
(***************************************************************************)
\* cmdInstall or cmdRun: loadManifest, readLockFile.  A lock whose syntax is broken
\* is a hard error; --update (fresh) never looks at it.
Start(p, fresh) ==
    /\ pc[p] = "idle" /\ (fresh \/ lock.syntax # "corrupt")
    /\ mine' = [mine EXCEPT ![p] = root]
    /\ seen' = [seen EXCEPT ![p] = IF fresh THEN NoLock ELSE lock]
    /\ undisturbed' = [q \in Proc |-> q = p /\ \A o \in Proc \ {p} : pc[o] = "idle"]
    /\ Goto(p, "locked")
    /\ UNCHANGED <<disk, queue, results, memo, clone, edits, settled>>

\* A live tree whose version moved makes tryUseLock rewrite the lock.
ReuseMoved(p) ==
    /\ pc[p] = "locked" /\ seen[p].syntax = "ok"
    /\ Usable(mine[p], seen[p]) /\ Moved(mine[p], seen[p])
    /\ results' = [results EXCEPT ![p] = Reused(mine[p], seen[p])]
    /\ seen' = [seen EXCEPT ![p] = [NoLock EXCEPT !.tangled = seen[p].tangled]]
    /\ Goto(p, "truncating")
    /\ UNCHANGED <<disk, mine, queue, memo, clone, history>>

\* The packages are handed to the user or the program; the command is over.
Reuse(p) ==
    /\ pc[p] = "locked" /\ seen[p].syntax = "ok"
    /\ Usable(mine[p], seen[p]) /\ ~Moved(mine[p], seen[p])
    /\ Quit(p)
    /\ UNCHANGED <<disk, edits, settled>>

\* No lock, or a stale one: queue the root's dependencies.
Resolve(p) ==
    /\ pc[p] = "locked"
    /\ seen[p].syntax = "absent" \/ ~Usable(mine[p], seen[p])
    /\ queue' = [queue EXCEPT ![p] = mine[p].deps]
    /\ seen' = [seen EXCEPT ![p] = NoLock]
    /\ Goto(p, "resolving")
    /\ UNCHANGED <<disk, mine, results, memo, clone, history>>

(***************************************************************************)
(* fetchGit for the dependency at the head of the queue.                   *)
(***************************************************************************)
Memoized(p, d) == {x \in memo[p] : x.url = d.source /\ x.ref = d.ref}

NeedsFetch(p) == /\ pc[p] = "resolving" /\ queue[p] # <<>>
                 /\ Head(queue[p]).kind = "git" /\ Memoized(p, Head(queue[p])) = {}

\* fetchMemo: one fetch per (url, ref) and run.
Remember(p, c) ==
    LET d == Head(queue[p])
    IN  /\ memo' = [memo EXCEPT ![p] = @ \cup
                    {[url |-> d.source, ref |-> d.ref, sha |-> c, dir |-> <<d.name, c>>]}]
        /\ clone' = [clone EXCEPT ![p] = ""]

\* A pinned commit in a verified cache needs no network.
FetchCached(p) ==
    /\ NeedsFetch(p)
    /\ Head(queue[p]).ref \in Commit
    /\ cache[<<Head(queue[p]).name, Head(queue[p]).ref>>] = "pristine"
    /\ Remember(p, Head(queue[p]).ref)
    /\ UNCHANGED <<disk, pc, mine, seen, queue, results, history>>

\* git clone, checkout, rev-parse, into a scratch directory.
FetchClone(p) ==
    /\ NeedsFetch(p)
    /\ LET d == Head(queue[p]) IN
         /\ d.ref \in Commit => cache[<<d.name, d.ref>>] # "pristine"
         /\ clone' = [clone EXCEPT ![p] = IF d.ref = "" THEN head[d.source] ELSE d.ref]
    /\ Goto(p, "cloned")
    /\ UNCHANGED <<disk, mine, seen, queue, results, memo, history>>

\* Any git command or the network fails; the scratch directory is removed.
FetchFails(p) ==
    /\ NeedsFetch(p)
    /\ Quit(p)
    /\ UNCHANGED <<disk, edits, settled>>

Target(p) == <<Head(queue[p]).name, clone[p]>>

\* Mutant: any directory at that place will do.
SettleUnverified(p) ==
    /\ pc[p] = "cloned"
    /\ \/ cache[Target(p)] = "absent" /\ Goto(p, "placing") /\ UNCHANGED <<memo, clone>>
       \/ cache[Target(p)] # "absent" /\ Goto(p, "resolving") /\ Remember(p, clone[p])
    /\ UNCHANGED <<disk, mine, seen, queue, results, history>>

\* settle looks at the place the clone shall have.
Settle(p) ==
    /\ pc[p] = "cloned"
    /\ \/ cache[Target(p)] = "absent" /\ Goto(p, "placing") /\ UNCHANGED <<memo, clone>>
       \/ cache[Target(p)] = "partial" /\ Goto(p, "removing") /\ UNCHANGED <<memo, clone>>
       \/ cache[Target(p)] = "pristine" /\ Goto(p, "resolving") /\ Remember(p, clone[p])
    /\ UNCHANGED <<disk, mine, seen, queue, results, history>>

\* remove_all, in the middle of it and at its end.
SettleRemove(p) ==
    /\ pc[p] \in {"removing", "removed"}
    /\ cache' = [cache EXCEPT ![Target(p)] =
                    IF pc[p] = "removing" /\ @ # "absent" THEN "partial" ELSE "absent"]
    /\ Goto(p, IF pc[p] = "removing" THEN "removed" ELSE "placing")
    /\ UNCHANGED <<root, files, head, lock, locals, history>>

\* rename into place.
SettleRename(p) ==
    /\ pc[p] = "placing" /\ cache[Target(p)] = "absent"
    /\ cache' = [cache EXCEPT ![Target(p)] = "pristine"]
    /\ Remember(p, clone[p])
    /\ Goto(p, "resolving")
    /\ UNCHANGED <<root, files, head, lock, mine, seen, queue, results, history>>

\* Something is there by now: rename fails, and so does the copy on the first file
\* that exists; copying beside a removal in progress may get through.
SettleFails(p) ==
    /\ pc[p] = "placing" /\ cache[Target(p)] # "absent"
    /\ Quit(p)
    /\ UNCHANGED <<disk, edits, settled>>

SettleCopy(p) ==
    /\ pc[p] = "placing" /\ cache[Target(p)] = "partial"
    /\ Remember(p, clone[p])
    /\ Goto(p, "resolving")
    /\ UNCHANGED <<disk, mine, seen, queue, results, history>>

(***************************************************************************)
(* resolveAll: one item of the queue.                                      *)
(***************************************************************************)
\* Where the dependency d is, as far as this process knows.
Located(p, d) ==
    IF d.kind = "path" THEN [rev |-> "local", dir |-> <<d.source>>]
    ELSE LET x == CHOOSE x \in Memoized(p, d) : TRUE IN [rev |-> x.sha, dir |-> x.dir]

\* What loadManifest may find there; a damaged checkout may or may not have one.
Found(d, dir) ==
    IF d.kind = "path" THEN {files[dir[1]]}
    ELSE IF cache[dir] = "pristine" THEN {Tree[dir[2]]}
    ELSE IF cache[dir] = "partial" THEN {Tree[dir[2]], NoManifest} ELSE {NoManifest}

Identity(kind, source, rev, dir) == IF kind = "path" THEN <<"path", dir>> ELSE <<source, rev>>

Ready(p) == pc[p] = "resolving" /\ queue[p] # <<>> /\ ~NeedsFetch(p)

\* The same content under this name, and this declaration's own pin.
Agrees(p, d, e) ==
    /\ Identity(e.kind, e.source, e.rev, e.dir)
         = Identity(d.kind, d.source, Located(p, d).rev, Located(p, d).dir)
    /\ d.pin \in {"", e.version}

Exists(d) == d.kind = "path" => files[d.source] # NoManifest

\* The name was met before, with the same content.
Revisit(p) ==
    /\ Ready(p)
    /\ LET d == Head(queue[p]) IN
         /\ Exists(d)
         /\ \E e \in Range(results[p]) : e.name = d.name /\ Agrees(p, d, e)
    /\ queue' = [queue EXCEPT ![p] = Tail(@)]
    /\ UNCHANGED <<disk, pc, mine, seen, results, memo, clone, history>>

\* A conflict, a missing directory or manifest, a wrong name, a wrong version.
Reject(p) ==
    /\ Ready(p)
    /\ LET d == Head(queue[p]) IN
         \/ ~Exists(d)
         \/ \E e \in Range(results[p]) : e.name = d.name /\ ~Agrees(p, d, e)
         \/ /\ d.name \notin NamesOf(results[p])
            /\ \E f \in Found(d, Located(p, d).dir) : f.name # d.name \/ d.pin \notin {"", f.version}
    /\ Quit(p)
    /\ UNCHANGED <<disk, edits, settled>>

Entry(d, at, f) == [name |-> d.name, kind |-> d.kind, source |-> d.source, ref |-> d.ref,
                    rev |-> at.rev, version |-> f.version, depsSha |-> <<f.deps>>, dir |-> at.dir]

\* Mutant: a second load of the manifest feeds the queue.
VisitReloading(p) ==
    /\ Ready(p)
    /\ LET d == Head(queue[p])
           at == Located(p, d)
       IN  /\ d.name \notin NamesOf(results[p])
           /\ \E f \in Found(d, at.dir) :
                /\ f.name = d.name
                /\ d.pin \in {"", f.version}
                /\ results' = [results EXCEPT ![p] = Append(@, Entry(d, at, f))]
                /\ \E g \in IF d.kind = "path" THEN DirManifests[d.source] ELSE {f} :
                      queue' = [queue EXCEPT ![p] = Tail(@) \o g.deps]
    /\ UNCHANGED <<disk, pc, mine, seen, memo, clone, history>>

\* A new package: record it and queue what its manifest, read once, declares.  Two
\* names never share one identity, so `descended` never stops a descent.
Visit(p) ==
    /\ Ready(p)
    /\ LET d == Head(queue[p])
           at == Located(p, d)
       IN  /\ d.name \notin NamesOf(results[p])
           /\ \E f \in Found(d, at.dir) :
                /\ f.name = d.name
                /\ d.pin \in {"", f.version}
                /\ results' = [results EXCEPT ![p] = Append(@, Entry(d, at, f))]
                /\ queue' = [queue EXCEPT ![p] = Tail(@) \o f.deps]
    /\ UNCHANGED <<disk, pc, mine, seen, memo, clone, history>>

(***************************************************************************)
(* writeLockFile: truncated on open, written through a stream nobody       *)
(* checks, so a full disk leaves any prefix and the command still          *)
(* succeeds.                                                               *)
(***************************************************************************)
LockOf(p) == [sha |-> <<mine[p].name, mine[p].version, mine[p].deps>>,
              deps |-> results[p], syntax |-> "ok", tangled |-> seen[p].tangled]

\* The first j of the seven fields of an entry; readLockFile defaults the others.
Cut(e, j) == [name |-> e.name,
              kind    |-> IF j >= 1 THEN e.kind ELSE "git",
              source  |-> IF j >= 2 THEN e.source ELSE "",
              rev     |-> IF j >= 3 THEN e.rev ELSE "",
              version |-> IF j >= 4 THEN e.version ELSE "",
              depsSha |-> IF j >= 5 THEN e.depsSha ELSE <<>>,
              ref     |-> IF j >= 6 THEN e.ref ELSE "",
              dir     |-> IF j >= 7 THEN e.dir ELSE <<>>]

\* What readLockFile makes of a prefix of l's text: nothing, an error, or entries of
\* which the last is cut.
Prefixes(l) ==
    {EmptyLock, CorruptLock, [l EXCEPT !.deps = <<>>]}
    \cup UNION {{[l EXCEPT !.deps = SubSeq(l.deps, 1, k - 1) \o <<Cut(l.deps[k], j)>>] : j \in CutPoints} :
                k \in DOMAIN l.deps}

\* An entry whose text is that of e up to its j-th field and goes on with f's from the
\* i-th: what is read last counts, a declared_ref that is empty has no line.
Joined(e, j, f, i) ==
    [name    |-> e.name,
     kind    |-> IF i <= 1 THEN f.kind ELSE Cut(e, j).kind,
     source  |-> IF i <= 2 THEN f.source ELSE Cut(e, j).source,
     rev     |-> IF i <= 3 THEN f.rev ELSE Cut(e, j).rev,
     version |-> IF i <= 4 THEN f.version ELSE Cut(e, j).version,
     depsSha |-> IF i <= 5 THEN f.depsSha ELSE Cut(e, j).depsSha,
     ref     |-> IF i <= 6 /\ f.ref # "" THEN f.ref ELSE Cut(e, j).ref,
     dir     |-> IF i <= 7 THEN f.dir ELSE Cut(e, j).dir]

\* The same where the text goes on in the middle of a line: a key cut short is unknown and
\* ignored, but for declared_ref, which may end as ref.  (A line left without its key is an
\* error; a value made of the ends of two is as good as none.)
Splices(e, j, f) == {Joined(e, j, f, c + 1) : c \in CutPoints} \cup {[Joined(e, j, f, 7) EXCEPT !.rev = f.ref]}

\* What it makes of l's text, or a part of it, written over the text of another process:
\* that text goes on where l's ends.  What is left of a broken text counts as broken.
Overlays(l, old) ==
    LET after(n) == SubSeq(old.deps, n + 1, Len(old.deps))
    IN  {l, CorruptLock}
        \cup {[old EXCEPT !.sha = x, !.tangled = TRUE] : x \in {old.sha, <<>>}}
        \cup {[l EXCEPT !.deps = after(n), !.tangled = TRUE] : n \in 0..Len(old.deps)}
        \cup UNION {UNION {{[l EXCEPT !.deps = SubSeq(l.deps, 1, k - 1) \o <<e>> \o after(n), !.tangled = TRUE] :
                               e \in UNION {Splices(l.deps[k], j, old.deps[n]) : j \in CutPoints}} :
                            n \in DOMAIN old.deps} : k \in DOMAIN l.deps}

Truncate(p) ==
    /\ pc[p] = "truncating" \/ (pc[p] = "resolving" /\ queue[p] = <<>>)
    /\ lock' = EmptyLock
    /\ settled' = FALSE
    /\ Goto(p, "writing")
    /\ memo' = [memo EXCEPT ![p] = {}]
    /\ UNCHANGED <<root, files, head, cache, mine, seen, queue, results, clone, edits, undisturbed>>

Write(p) ==
    /\ pc[p] = "writing"
    /\ lock' \in {LockOf(p)} \cup Prefixes(LockOf(p)) \cup (IF lock = EmptyLock THEN {} ELSE Overlays(LockOf(p), lock))
    /\ settled' = (undisturbed[p] /\ lock' = LockOf(p))
    /\ Quit(p)
    /\ UNCHANGED <<root, files, head, cache, edits>>

\* The process dies wherever it is.
Crash(p) ==
    /\ pc[p] # "idle"
    /\ Quit(p)
    /\ UNCHANGED <<disk, edits, settled>>

(***************************************************************************)
(* The user and the remotes.                                               *)
(***************************************************************************)
Edit ==
    /\ edits < MaxEdits /\ edits' = edits + 1
    /\ \/ root' \in RootManifests \ {root} /\ UNCHANGED <<files, cache>>
       \/ \E s \in Source : \E f \in DirManifests[s] \ {files[s]} :
              files' = [files EXCEPT ![s] = f] /\ UNCHANGED <<root, cache>>
       \/ \E d \in CacheDir : /\ cache[d] = "pristine"
                              /\ \E x \in {"partial", "absent"} : cache' = [cache EXCEPT ![d] = x]
                              /\ UNCHANGED <<root, files>>
    /\ undisturbed' = [p \in Proc |-> FALSE] /\ settled' = FALSE
    /\ UNCHANGED <<head, lock, pc, locals>>

\* A push: not a disturbance, a lock is there to survive it.
Push ==
    /\ edits < MaxEdits /\ edits' = edits + 1
    /\ \E u \in Url, c \in Commit : head' = [head EXCEPT ![u] = c]
    /\ UNCHANGED <<root, files, cache, lock, pc, locals, undisturbed, settled>>

Next == \/ Edit \/ Push
        \/ \E p \in Proc : \/ \E fresh \in BOOLEAN : Start(p, fresh)
                            \/ Reuse(p) \/ ReuseMoved(p) \/ Resolve(p) \/ FetchCached(p) \/ FetchClone(p)
                            \/ FetchFails(p) \/ Settle(p) \/ SettleRemove(p) \/ SettleRename(p)
                            \/ SettleFails(p) \/ SettleCopy(p) \/ Revisit(p) \/ Reject(p) \/ Visit(p)
                            \/ Truncate(p) \/ Write(p) \/ Crash(p)

Spec == Init /\ [][Next]_vars

(***************************************************************************)
(* Properties.                                                             *)
(***************************************************************************)
\* The entry e is what the declaration d asks for, its version perhaps apart.
Fits(d, e) ==
    /\ e.name = d.name /\ e.kind = d.kind
    /\ d.kind = "path" => e.dir = <<d.source>>
    /\ d.kind = "git"  => e.source = d.source /\ e.dir = <<e.name, e.rev>> /\ d.ref \in {"", e.rev}

\* Declarations of the root and, as recorded, of the packages in r.
Declared(m, r) == Range(m.deps) \cup UNION {Range(e.depsSha[1]) : e \in Range(r)}

\* Every declaration is answered by an entry of r, the versions pinned by those in `pinned`
\* included; every entry was asked for and no name occurs twice.
Complete(m, r, pinned) ==
    /\ \A d \in Declared(m, r) : \E e \in Range(r) : Fits(d, e) /\ (d \in pinned => d.pin \in {"", e.version})
    /\ \A i, j \in DOMAIN r : r[i].name = r[j].name => i = j
    /\ \A e \in Range(r) : \E d \in Declared(m, r) : d.name = e.name

\* The packages of r are on disk as r describes them.
OnDisk(r) ==
    \A e \in Range(r) :
        LET f == IF e.kind = "path" THEN files[e.dir[1]]
                 ELSE IF cache[e.dir] = "pristine" THEN Tree[e.rev] ELSE NoManifest
        IN  f.name = e.name /\ f.version = e.version /\ <<f.deps>> = e.depsSha

\* commands.cpp:56-68: whatever was edited, torn or damaged before, a lock is reused only if
\* it describes what the manifests on disk ask for and is on disk itself.  Not promised: pins
\* one path package puts on another, which are not compared (commands.cpp:117), and anything
\* of a lock that two processes wrote at once.
LockSound ==
    [][\A p \in Proc : (Reuse(p) \/ ReuseMoved(p)) /\ ~seen[p].tangled =>
          LET r == Reused(mine[p], seen[p])
          IN  /\ Complete(mine[p], r, {d \in Declared(mine[p], r) : d \in Range(mine[p].deps) \/ d.kind = "git"})
              /\ OnDisk(r)]_vars

\* resolver.cpp:163-167: the graph a resolution ends with agrees with the declarations it
\* recorded, pins included, although manifests change and branches move while it runs.
GraphComplete ==
    \A p \in Proc : pc[p] = "resolving" /\ queue[p] = <<>> => Complete(mine[p], results[p], Declared(mine[p], results[p]))

\* git.cpp:137-140: whatever crashes and users left in the cache, a process that is
\* not disturbed takes a package only from a checkout that verifies.
TakesPristine ==
    [][\A p \in Proc :
         Visit(p) /\ Head(queue[p]).kind = "git" /\ undisturbed[p]
         => cache[Located(p, Head(queue[p])).dir] = "pristine"]_vars

\* commands.cpp:232-238: after an undisturbed install the next one reuses the lock and
\* gets the same packages, wherever the branches are by then.
Reproducible ==
    settled => /\ lock.syntax = "ok" /\ Usable(root, lock)
               /\ Reused(root, lock) = lock.deps
=============================================================================
