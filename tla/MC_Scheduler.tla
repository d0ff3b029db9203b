---------------------------- MODULE MC_Scheduler ----------------------------
(***************************************************************************)
(* Values for the constants of Scheduler: a chain net <- origin <-        *)
(* product.                                                               *)
(***************************************************************************)
EXTENDS Scheduler

CONSTANTS net, origin, product

Chain == [c \in Check |-> CASE c = origin -> {net} \cap Check
                            [] c = product -> {origin} \cap Check
                            [] OTHER -> {}]
=============================================================================
