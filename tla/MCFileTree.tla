---------------------------- MODULE MCFileTree ----------------------------
(* A root with two files, a subdirectory with one, and one that is         *)
(* excluded, with a directory and a file in it.                            *)
EXTENDS FileTree

MCDirs == {"src", "lib", "gen", "moc"}
MCFiles == {"a", "b", "c", "d"}
MCUp == [n \in (MCFiles \cup MCDirs) \ {"src"} |->
           CASE n = "c" -> "lib" [] n = "moc" -> "gen" [] n = "d" -> "moc" [] OTHER -> "src"]
=============================================================================
