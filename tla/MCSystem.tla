------------------------------ MODULE MCSystem ------------------------------
(* A small instance of every component of System. *)
EXTENDS System

CONSTANTS n1, n2, n3, a1, a2, a3, m1, m2, x1, x2, x3

\* OperatorAuth: a number under two nonces, and one nonce under a number that
\* slides the window and one that leaves it; keys 0 and 1 or keys 1 and 2 sign.
Sent(seq, nonce, i) == [seq |-> seq, nonce |-> nonce, keys |-> {<<i, 0>>, <<i + 1, 0>>}]
MCTransmissions == {Sent(2, n1, 0), Sent(2, n2, 1), Sent(4, n3, 0), Sent(5, n3, 0)}

\* A nonce for each number; any two of the keys sign.
Number(n) == CASE n = n1 -> 1 [] n = n2 -> 2 [] n = n3 -> 3
AnyPair == {[seq |-> Number(n), nonce |-> n, keys |-> {<<i, 0>>, <<j, 0>>}] :
               n \in Nonces, i \in Indices, j \in Indices}

\* NodeRegistry: the agents belong to two members, each with one whose requests
\* carry the register secret.
MCProvider == (a1 :> m1) @@ (a2 :> m2) @@ (a3 :> m1)

\* Placement: two nodes of a kind, a batch job and a print job.
At(class, region) ==
    [class |-> class, region |-> region, country |-> "US", cores |-> 2,
     owner |-> "member", ram |-> 4, disk |-> 4, gpu |-> FALSE]
MCProfile == [n \in {x1, x2} |-> At("B", "north")]
BatchJob ==
    [workload |-> "batch_compute", excluded |-> {}, consumer |-> "consumer",
     residency |-> "", gpu |-> FALSE, cores |-> 1, ram |-> 1, disk |-> 1,
     region |-> "north", country |-> "US"]
MCPlacementRequests == {BatchJob, [BatchJob EXCEPT !.workload = "print_3d", !.excluded = {x1}]}
\* Nodes that differ in class, in place, or in both.
Mixed == (x1 :> At("C", "north")) @@ (x2 :> At("A", "south")) @@ (x3 :> At("B", "north"))
OneJob == {BatchJob}
NothingOut == {AllIn}
MCOptOutStates == {AllIn, [AllIn EXCEPT !.compute = TRUE, !.printer = TRUE]}

\* Ledger: 1.25 dollars for every job; 65 percent of 10 cents lies halfway
\* between 6 and 7.
MCAmount == [j \in Jobs |-> 125]
MCCost == [j \in Jobs |-> 104]

\* Instrument: shapes on and next to ceilings of the ladder.
MCShapes == [cpu : {2, 3, 8, 33, 129}, mem : {0, 4, 17, 65}, disk : {20, 101, 501}]

=============================================================================
