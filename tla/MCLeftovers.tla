---------------------------- MODULE MCLeftovers ------------------------------
(* A home where one candidate lies within another, and two apps: rcs, whose*)
(* program co is part of ".config", and ssh, as it is and as it was.       *)
EXTENDS Leftovers

MCPath == {<<".config">>, <<".config", "rcs">>, <<".config", "rcs", "rc">>,
           <<".config", "note">>, <<".ssh">>, <<".ssh", "key">>}

MCLower == [n \in Name |-> n]
MCBare == [n \in Name |-> CASE n = ".config" -> "config" [] n = ".ssh" -> "ssh" [] OTHER -> n]
MCPart == {<<"rcs", "rcs">>, <<"co", ".config">>, <<"ssh", ".ssh">>, <<"rc", "rcs">>, <<"rc", "rc">>}

MCRcs(stage) == [name |-> "rcs", stage |-> stage, binaries |-> {"co", "rcs"},
                 exec |-> {}, ids |-> {"gnu"}]
MCSsh == [name |-> "ssh", stage |-> "cached", binaries |-> {"ssh"}, exec |-> {}, ids |-> {"openssh"}]
MCApp == {MCRcs("installed"), MCRcs("unknown"), MCSsh}
=============================================================================
