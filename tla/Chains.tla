-------------------------------- MODULE Chains ---------------------------------
(***************************************************************************)
(* Lists whose items hold the number of the next item, 0 at the end, as    *)
(* the lists of nucleus/vm/list.h and nucleus/vm/slotmap.h do.             *)
(***************************************************************************)
EXTENDS Integers, Sequences

NoLink == 0

\* The items a loop meets from one of them through the links, when it stops at the end or
\* after "most" items.
Walk(links, start, most) ==
    LET nth[i \in 1..most + 1] ==
            IF i = 1 THEN start
            ELSE IF nth[i - 1] = NoLink THEN NoLink ELSE links[nth[i - 1]]
        len == CHOOSE n \in 0..most + 1 :
                  /\ \A i \in 1..n : nth[i] # NoLink
                  /\ n <= most => nth[n + 1] = NoLink
    IN [i \in 1..len |-> nth[i]]

Elements(s) == { s[i] : i \in 1..Len(s) }

Distinct(s) == \A i, j \in 1..Len(s) : s[i] = s[j] => i = j

\* From start the links lead through s and end.
LeadsThrough(links, start, s) ==
    /\ start = IF Len(s) = 0 THEN NoLink ELSE s[1]
    /\ \A i \in 1..Len(s) : links[s[i]] = IF i = Len(s) THEN NoLink ELSE s[i + 1]
===============================================================================
