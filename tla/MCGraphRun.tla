------------------------------ MODULE MCGraphRun ------------------------------
(* GraphRun on small graphs. *)
EXTENDS GraphRun

To(p)    == [to |-> p, named |-> FALSE]
Named(p) == [to |-> p, named |-> TRUE]
OneSeed  == <<[peer |-> 1, depth |-> 0]>>

\* A seed that recommends 2 and mentions 3 and 4; 2 and 4 link to 3, and 3 back to the
\* seed.
Mesh == <<  <<<<To(2)>>, <<>>, <<Named(3), Named(4)>>>>,
            <<<<>>, <<To(3)>>, <<Named(4)>>>>,
            <<<<>>, <<>>, <<Named(1)>>>>,
            <<<<>>, <<>>, <<>>>>  >>

\* A seed that recommends two sources (CandidatesWithinCap with a cap of one).
Pair == <<  <<<<To(2), To(3)>>, <<>>, <<>>>>,
            <<<<>>, <<>>, <<>>>>,
            <<<<>>, <<>>, <<>>>>  >>
===============================================================================
