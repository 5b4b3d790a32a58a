-------------------------------- MODULE MCTimer --------------------------------
(***************************************************************************)
(* Timer with three channels: one that runs with either prescaler, one     *)
(* that runs or cascades, and one that only cascades.                      *)
(***************************************************************************)
EXTENDS Timer

Run(p) == [period |-> p, cascade |-> FALSE, enable |-> TRUE]
Cascade == [period |-> 1, cascade |-> TRUE, enable |-> TRUE]
MCControl == [c \in 0 .. 2 |-> CASE c = 0 -> {Off, Run(1), Run(2)}
                                    [] c = 1 -> {Off, Run(2), Cascade}
                                    [] c = 2 -> {Off, Cascade}]
=============================================================================
