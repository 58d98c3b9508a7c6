------------------------------ MODULE MCZlpkg ------------------------------
(* zlpkg on packages p, q (paths) and g (git), with a cycle and a diamond. *)
EXTENDS Zlpkg, TLC

Symmetry == Permutations(Proc)

Path(n, s, pin) == [name |-> n, kind |-> "path", source |-> s, ref |-> "", pin |-> pin]
Git(n, u, ref, pin) == [name |-> n, kind |-> "git", source |-> u, ref |-> ref, pin |-> pin]
Package(n, v, deps) == [name |-> n, version |-> v, deps |-> deps]

MCTree == [c \in {"c1", "c2"} |->
             IF c = "c1" THEN Package("g", "1", <<>>) ELSE Package("g", "2", <<Git("g", "u", "c2", "2")>>)]

MCRoots == {Package("app", "1", <<Path("p", "P", "1"), Git("g", "u", "", "")>>),
            Package("app", "1", <<Path("p", "P", "")>>)}

MCDirs == [s \in {"P", "Q"} |->
             IF s = "P" THEN {Package("p", "1", <<Git("g", "u", "c1", "")>>),
                              Package("p", "1", <<Git("g", "u", "c2", "")>>),
                              Package("p", "2", <<Path("q", "Q", "1")>>), NoManifest}
             ELSE {Package("q", "1", <<Path("p", "P", "")>>), Package("q", "2", <<Path("p", "P", "")>>)}]
=============================================================================
