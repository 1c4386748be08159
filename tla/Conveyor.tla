------------------------------ MODULE Conveyor ------------------------------
(***************************************************************************)
(* What a pipeline promises its user (the first paragraph of               *)
(* src/Pipeline/Pipeline.h): "each piece of data is processed by each step *)
(* AND ... each step processes the data in order".  Data are numbered as   *)
(* the pump creates them; done[e] is the last one element e has finished.  *)
(***************************************************************************)
EXTENDS Integers

CONSTANT N                   \* elements of the pipeline

VARIABLE done

Init == done = [e \in 1 .. N |-> 0]

\* Element e finishes the datum after its last one, which the element before
\* it has finished.
Finish(e) ==
    /\ e > 1 => done[e] < done[e - 1]
    /\ done' = [done EXCEPT ![e] = @ + 1]

Next == \E e \in 1 .. N : Finish(e)

Spec == Init /\ [][Next]_done
=============================================================================
