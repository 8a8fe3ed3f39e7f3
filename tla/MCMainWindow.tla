---------------------------- MODULE MCMainWindow ----------------------------
(***************************************************************************)
(* Instances of MainWindow for TLC.                                        *)
(***************************************************************************)
EXTENDS MainWindow

CONSTANTS Zelda, Metroid   \* two games

\* The line of ls has the path of the saves in it and takes two rows.
MCRows == [c \in {"root", "PS1", "exit", "pidof", "ps", "ls", "kill canoe", "kill reed",
                  "killall"} |-> IF c = "ls" THEN 2 ELSE 1]

MCSmall == [g \in {Zelda} |-> {2}]
\* Up to two saved states of one game and one of the other, none of them the first.
MCSaves == [g \in {Zelda, Metroid} |-> IF g = Zelda THEN {2, 3} ELSE {3}]
=============================================================================
