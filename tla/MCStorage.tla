----------------------------- MODULE MCStorage -----------------------------
(***************************************************************************)
(* Two projects, "/x/x" and "/x_x", whose names would be the same without  *)
(* the escape of "_"; the first has two sources and the second has one.    *)
(* Which project a source is in comes from ProjectRoot, for a tree with a  *)
(* ".git" in the one directory and a ".pro" file in the other.             *)
(***************************************************************************)
EXTENDS Storage, TLC

R == INSTANCE ProjectRoot

CONSTANTS f1, f2, g

mcSlash == <<"/", "x", "/", "x">>
mcScore == <<"/", "x", "_", "x">>
mcProjectOrder == <<mcSlash, mcScore>>
mcSources == {f1, f2, g}

\* Trees with a home directory and two directories in it, one below the other.
mcDirs == {<<"h">>, <<"h", "a">>, <<"h", "a", "b">>}
mcMarks == {<<".git", "">>, <<"app", ".pro">>, <<"README", "">>}
mcTree(entries) == [entries |-> entries, home |-> <<"h">>,
                    configure |-> [d \in DOMAIN entries |-> R!NoRoot],
                    sourceDir |-> [d \in DOMAIN entries |-> R!NoRoot]]
mcTrees == {mcTree(entries) : entries \in [mcDirs -> SUBSET mcMarks]}

\* The mark that decides, in the order in which they are tried.
mcMark(tree, path) ==
  CHOOSE i \in DOMAIN R!before : \A j \in 1..i :
    (R!findAncestor(tree, path, R!before[j]) \notin {R!NoRoot, tree.home}) <=> (j = i)

\* A project does not come apart: a file below the root that another file has
\* found is in the same project, unless a mark that is tried earlier gives it
\* a root of its own (RTags.cpp:444: the search goes on to the top).
ASSUME NoProjectComesApart ==
  \A tree \in mcTrees, d, e \in mcDirs :
    LET f == Append(d, "f")
        g2 == Append(e, "g")
    IN  \A root \in R!findProjectRoot(tree, f) \ {R!NoRoot} :
          IsStrictPrefix(root, g2) =>
            \/ R!findProjectRoot(tree, g2) = {root}
            \/ mcMark(tree, g2) < mcMark(tree, f)

mcRoots == (<<"x", "x">> :> mcSlash) @@ (<<"x_x">> :> mcScore)
mcPlaces == (f1 :> <<"x", "x", "f1">>) @@ (f2 :> <<"x", "x", "f2">>) @@ (g :> <<"x_x", "g">>)
mcEntries == (<<"x">> :> {}) @@ (<<"x", "x">> :> {<<".git", "">>}) @@
             (<<"x_x">> :> {<<"app", ".pro">>, <<"README", "">>})
mcRootOf == [f \in mcSources |->
               LET roots == R!projectRoot(mcTree(mcEntries), <<mcPlaces[f]>>, <<mcPlaces[f]>>)
               IN  mcRoots[CHOOSE r \in roots : TRUE]]
============================================================================
