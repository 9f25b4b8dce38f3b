-------------------------- MODULE MCHighestQuotas --------------------------
(* A small instance of HighestQuotas for TLC. *)
EXTENDS HighestQuotas

CONSTANTS ifs, a, b

Components == {ifs, a, b}

Directory(path, hard) == [path |-> path, directory |-> TRUE, hard |-> hard]

(* A tree of depth three, a copy of the whole tree kept beneath b, and a
   user's quota on a directory that has one of its own. *)
Tree == {Directory(<<ifs>>, 1), Directory(<<ifs, a>>, 2), Directory(<<ifs, b>>, 4),
         Directory(<<ifs, a, a>>, 8), Directory(<<ifs, a, b>>, 16),
         Directory(<<ifs, b, ifs, a, b>>, 32),
         [path |-> <<ifs, a>>, directory |-> FALSE, hard |-> 64]}

(* Every list of at most four of them, in every order, repetitions included. *)
SmallLists == UNION {[1 .. n -> Tree] : n \in 0 .. 4}
=============================================================================
