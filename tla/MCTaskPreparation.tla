------------------------- MODULE MCTaskPreparation -------------------------
(* Small sources: a feature model whose root has a mandatory and an         *)
(* optional child, and DIMACS files with a complete catalog and a repeated   *)
(* line, with a variable that no comment names, with a wrong count, and with *)
(* no clause at all.                                                         *)
EXTENDS TaskPreparation

Line(k, clauses) == [key |-> k, clauses |-> clauses]

FeatureModel ==
    LET lines == <<Line("root", <<{1}>>),
                   Line("mandatory", <<{-1, 2}, {-2, 1}>>),
                   Line("excludes", <<{-2, -3}>>)>>
    IN  [kind |-> "fm", nvars |-> 0, count |-> Len(lines), lines |-> lines,
         variables |-> [a |-> 1, b |-> 2, c |-> 3]]

Dimacs(nvars, names, lines) ==
    [kind |-> "dimacs", nvars |-> nvars, count |-> Len(lines), lines |-> lines,
     variables |-> names]

Complete == Dimacs(2, [a |-> 1, b |-> 2],
                   <<Line("1", <<{1}>>), Line("-1 2", <<{-1, 2}>>), Line("1", <<{1}>>)>>)

Unnamed == Dimacs(3, [a |-> 1, b |-> 2],
                  <<Line("1", <<{1}>>), Line("-3 1", <<{-3, 1}>>), Line("2 3", <<{2, 3}>>)>>)

Miscounted == [Complete EXCEPT !.count = 2]

Empty == Dimacs(2, [a |-> 1, b |-> 2], <<>>)

MCSources == {FeatureModel, Complete, Unnamed, Miscounted, Empty}

Is(name, value) == [name |-> name, value |-> value]

\* "d" is a feature of no source.
MCConfigurations == {<<Is("a", TRUE), Is("b", FALSE)>>, <<Is("b", TRUE), Is("d", TRUE)>>}

MCSuites == {<<<<Is("a", TRUE), Is("b", TRUE)>>, <<Is("b", FALSE)>>>>,
             <<<<Is("b", FALSE)>>, <<Is("d", TRUE)>>>>}
=============================================================================
