------------------------- MODULE MCTicketAttempts -------------------------
(***************************************************************************)
(* Two tickets for TLC that share the file b: the first may also add n, the *)
(* second may also add o, and can be split into a child for each file.      *)
(* One coder fails, strays and writes nothing new but leaves commits to the *)
(* runner; the other does its work, and may commit it.                      *)
(***************************************************************************)
EXTENDS TicketAttempts

CONSTANTS A, B, B1, B2, b, n, o

AB == <<A, B>>
SplitB == [t \in {A, B, B1, B2} |-> IF t = B THEN <<B1, B2>> ELSE <<>>]
Scopes == [t \in {A, B, B1, B2} |->
             CASE t = A -> {b, n} [] t = B -> {b, o}
               [] t = B1 -> {b}   [] t = B2 -> {o}]

Careless == [faults |-> {"error", "scope"}, commits |-> FALSE, same |-> TRUE]
Tidy == [faults |-> {}, commits |-> TRUE, same |-> FALSE]
CarelessOrTidy == {Careless, Tidy}
OnlyTidy == {Tidy}
=============================================================================
