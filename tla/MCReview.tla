------------------------------ MODULE MCReview -------------------------------
(* A small instance of Review for TLC.                                     *)
EXTENDS Review

(* A cache, the data of two apps that share ~/.local/share, the state of   *)
(* one run by root, and a file under no home.                              *)
MCPaths == {<<"home", "ann", ".cache", "app", "f">>,
            <<"home", "ann", ".local", "share", "app", "d">>,
            <<"home", "ann", ".Local", "share", "other">>,
            <<"root", ".local", "State", "app", "s">>,
            <<"etc", "app">>}

MCLower == [n \in Name |-> CASE n = ".Local" -> ".local" [] n = "State" -> "state" [] OTHER -> n]
MCBare == [n \in Name |-> CASE n \in {".local", ".Local"} -> "local" [] n = ".cache" -> "cache"
                            [] n = "State" -> "state" [] OTHER -> n]
=============================================================================
