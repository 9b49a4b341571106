---------------------------- MODULE MCClientSync ----------------------------
(***************************************************************************)
(* An instance of ClientSync for TLC: a release with everything new but    *)
(* one file of the tool, and one with a new version only.                  *)
(***************************************************************************)
EXTENDS ClientSync, TLC

MCTooling == <<"py", "core">>
MCBundle  == {"policy", "tools"}

MCReleases ==
    LET Serves(new, skill, schema) ==
            [files |-> [p \in {"py", "core"} \cup MCBundle |-> IF p = "py" THEN 1 ELSE new],
             skill |-> skill, schema |-> schema]
    IN <<Serves(1, 1, 1), Serves(2, 2, 2), Serves(2, 3, 2)>>

\* One agent, with every command; and two that sync at once.
MCScenes ==
    {[agents |-> {a}, deploys |-> 2, cuts |-> 2, forced |-> TRUE] : a \in {CHOOSE x \in Agents : TRUE}}
    \cup {[agents |-> Agents, deploys |-> 1, cuts |-> 1, forced |-> FALSE]}
=============================================================================
