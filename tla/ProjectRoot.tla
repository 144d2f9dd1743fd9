---------------------------- MODULE ProjectRoot ----------------------------
(***************************************************************************)
(* Which project a source file belongs to: RTags::findProjectRoot(), from  *)
(* what lies in the directories above the file, and                        *)
(* GccArguments::projectRoot() for the inputs of a compile command         *)
(* (src/src/RTags.cpp, GccArguments.cpp).                                  *)
(*                                                                         *)
(* A path is the sequence of the names on it.  A name is a pair of a stem  *)
(* and an ending, a pattern has "*" for one of the two.  A tree has        *)
(*   entries    the names in each directory,                               *)
(*   configure  for a directory with a config.status, where the configure  *)
(*              scripts are that its first ten lines name, in their order, *)
(*   sourceDir  for a directory with a CMakeCache.txt, what the Makefile   *)
(*              there has for CMAKE_SOURCE_DIR, or NoRoot,                 *)
(*   home       the user's home directory.                                 *)
(***************************************************************************)
EXTENDS Naturals, Sequences, SequencesExt, FiniteSetsExt

NoRoot == <<>>
Crashed == <<"crashed">>

before ==
  << <<"GTAGS", "">>, <<"CMakeLists", ".txt">>, <<"configure", "">>, <<".git", "">>,
     <<".svn", "">>, <<"*", ".pro">>, <<"scons", ".1">>, <<"*", ".scons">>,
     <<"SConstruct", "">>, <<"autogen", "*">>, <<"GNUMakefile", "*">>,
     <<"INSTALL", "*">>, <<"README", "*">> >>
after == << <<"Makefile", "*">> >>

\* fnmatch() is given the whole path, which begins with a slash: a pattern
\* that does not begin with a star never matches.  A name without a star is
\* looked for with stat().
Matches(entry, name) ==
  IF entry[1] = "*" THEN name[2] = entry[2] ELSE name = entry /\ entry[2] # "*"

Directory(path, k) == SubSeq(path, 1, k)

\* The search goes on to the top but for "/" itself: the outermost one wins.
findAncestor(tree, path, entry) ==
  LET have == {k \in 1..Len(path) - 1 :
                 \E name \in tree.entries[Directory(path, k)] : Matches(entry, name)}
  IN  IF have = {} THEN NoRoot ELSE Directory(path, Min(have))

\* The first path of a sequence that is not one of these.
FirstBut(paths, these) ==
  LET others == SelectSeq(paths, LAMBDA p : p \notin these)
  IN  IF others = <<>> THEN NoRoot ELSE Head(others)

\* An entry whose outermost place is the home directory counts for nothing,
\* although there may be others further down.
checkEntry(tree, entries, path) ==
  FirstBut([i \in DOMAIN entries |-> findAncestor(tree, path, entries[i])], {NoRoot, tree.home})

FromConfigStatus(tree, path) ==
  LET build == findAncestor(tree, path, <<"config", ".status">>)
  IN  IF build = NoRoot THEN NoRoot ELSE FirstBut(tree.configure[build], {tree.home})

\* Where a Makefile names a source directory the file is closed twice, which
\* glibc may notice or not.
FromCMakeCache(tree, path) ==
  LET build == findAncestor(tree, path, <<"CMakeCache", ".txt">>)
      dir   == IF build = NoRoot THEN NoRoot ELSE tree.sourceDir[build]
      root  == IF dir # NoRoot /\ <<"CMakeLists", ".txt">> \in tree.entries[dir] THEN dir ELSE NoRoot
  IN  IF dir = NoRoot THEN {NoRoot} ELSE {root, Crashed}

\* The roots the program may come to; NoRoot if it finds none.
findProjectRoot(tree, path) ==
  LET marked == FirstBut(<<checkEntry(tree, before, path), FromConfigStatus(tree, path)>>, {NoRoot})
      last   == checkEntry(tree, after, path)
  IN  IF marked # NoRoot THEN {marked}
      ELSE {IF root = NoRoot THEN last ELSE root : root \in FromCMakeCache(tree, path)}

\* The inputs of a command as they were written, and then what they are links
\* to: the first one with a root decides, unless the search ends rdm.
projectRoot(tree, mUnresolvedInputFiles, mInputFiles) ==
  LET After(roots, src) == (roots \ {NoRoot}) \cup
                           IF NoRoot \in roots THEN findProjectRoot(tree, src) ELSE {}
  IN  FoldLeft(After, {NoRoot}, mUnresolvedInputFiles \o mInputFiles)
============================================================================
