------------------------------ MODULE MCLobby ------------------------------
(***************************************************************************)
(* Lobby on a small instance.                                              *)
(***************************************************************************)
EXTENDS Lobby, TLC

Login(len, control) == [len |-> len, control |-> control]

\* A name that is cut and cleaned.
MCLogins == {Login(17, TRUE)}

\* The shortest body, a better one with statistics, one whose rating is no
\* number, and one byte too few.
MCBodies == {[size |-> 25, rating |-> 1], [size |-> 41, rating |-> 2],
             [size |-> 25, rating |-> NaN], [size |-> 24, rating |-> 1]}

\* A VAN_WAR with a word too many, a MUSTODONT one word short.
MCForms == {<<7, VAN_WAR, 9, 0, 60, 1, 11, 12, 13, 14, 15, 16>>,
            <<7, MUSTODONT, 9, 0, 60, 1, 11>>}

\* Worlds differ in nothing but who is there.
AlikeWorlds == Permutations(WorldId)
=============================================================================
