------------------------------ MODULE MCRequests ------------------------------
(* Values of Requests for TLC that a configuration file cannot hold.           *)
EXTENDS Requests

\* Values in and just out of the ranges of a parameter: all low, all high, or
\* all high but one that is too high.
EdgeValues ==
  [t \in CfgTypes |->
     LET Edge(r) == CHOOSE v \in r : \A w \in r : w <= v
         high    == [k \in DOMAIN Ranges[t] |-> Edge(Ranges[t][k])]
     IN  {high, [k \in DOMAIN high |-> 0]}
           \cup {[high EXCEPT ![k] = @ + 1] : k \in DOMAIN high}]

\* Within 16 bits, beyond them both ways.
EdgeStrengths == {-140, 250, 40000, -40000}
================================================================================
