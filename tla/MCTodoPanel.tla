------------------------------ MODULE MCTodoPanel ------------------------------
(***************************************************************************)
(* An instance of TodoPanel with three scenes, one beside the other.       *)
(***************************************************************************)
EXTENDS TodoPanel

VARIABLE scene

\* Presses on "two" todos of one's own; several presses on "one" todo, whose
\* timers overlap; a todo of any list that is "edit"ed by its users and may
\* have a post, with a request that is lost.
Scenes == {"two", "one", "edit"}

CONSTANTS t1, t2

PressesIn == CASE scene = "two" -> 2 [] scene = "one" -> MaxPresses [] scene = "edit" -> 1

SceneInit ==
    /\ Init
    /\ scene \in Scenes
    /\ \A t \in Todos : stored[t].text = "x"
    /\ stored[t2].list = IF scene = "two" THEN "my" ELSE "gone"
    /\ IF scene = "edit" THEN stored[t1].list # "gone" ELSE stored[t1].list = "my"

Edited(t) == stored'[t].text # stored[t].text \/ item'[t].editing

InScene ==
    /\ made' <= PressesIn
    /\ scene # "edit" => lost' = 0 /\ \A t \in Todos : ~Edited(t)

SceneSpec ==
    /\ SceneInit
    /\ [][Next /\ InScene /\ UNCHANGED scene]_<<vars, scene>>
    /\ Fairness
=============================================================================
