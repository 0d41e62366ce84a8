------------------------------ MODULE MCRattle ------------------------------
(* Two SLOs of one object and one of another: shared and private fingerprints. *)
EXTENDS Rattle

MCWatch == <<"avail", "latency", "queue">>
MCObject == [s \in {"avail", "latency", "queue"} |-> IF s = "queue" THEN "mq" ELSE "cart"]
MCWindows == {[rates |-> <<0, 1, 4>>, age |-> 0],
              [rates |-> <<2, 2, 2>>, age |-> 1], [rates |-> <<2, 2, 2>>, age |-> 2],
              [rates |-> <<3, 1, 2>>, age |-> 0]}
=============================================================================
