----------------------------- MODULE MCWipeOutR -----------------------------
(***************************************************************************)
(* WipeOutR on every suite of MaxLen elements, each satisfied by any set   *)
(* of the assignments, with a negation for all of them and for all but the *)
(* second, and on the suites too short to be redundant.                    *)
(***************************************************************************)
EXTENDS WipeOutR

CONSTANT MaxLen

MCElement == 1 .. MaxLen

Suite(lists, sats) ==
    [algorithm : {"FM", "T"}, list : lists, sat : sats,
     negatable : {MCElement, MCElement \ {2}}]

MCSuites ==
    Suite({[i \in MCElement |-> i]}, [MCElement -> SUBSET Assignment])
        \cup Suite({<<>>, <<1>>}, [MCElement -> {{}, Assignment}])
=============================================================================
