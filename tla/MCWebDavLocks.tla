--------------------------- MODULE MCWebDavLocks ---------------------------
(***************************************************************************)
(* Instances of WebDavLocks for TLC: a collection, a file in it and one    *)
(* beside it.                                                              *)
(***************************************************************************)
EXTENDS WebDavLocks, TLC

CONSTANTS t1, t2, c1, c2, w1

TwoTokens == {t1, t2}
TwoLockers == {c1, c2}
OneWriter == {w1}
Symmetry == Permutations(Token) \cup Permutations(Locker) \cup Permutations(Writer)

Tree == {<<>>, <<1>>, <<1, 1>>, <<2>>}

OneOp(k, p) == [kind |-> k, path |-> p, dest |-> p]
OneChange == {OneOp("PUT", <<1, 1>>)}
\* A COPY is checked like a PUT of its destination, and a DELETE like a MOVE of its source.
Changes == {OneOp("COPY", <<1, 1>>), OneOp("MKCOL", <<1, 1>>),
            [kind |-> "MOVE", path |-> <<1>>, dest |-> <<2>>]}
Deletes == {OneOp("DELETE", <<1>>)}
Unchecked == {OneOp("MKCOL", <<1, 1>>), OneOp("ASSEMBLE", <<1, 1>>)}

LocksOn(P, D, S, T) == [path : P, depth : D, scope : S, secs : T]
OnePath == LocksOn({<<1>>}, {"infinity"}, {"exclusive"}, {1, 2})
SomeLocks == LocksOn({<<1>>}, {"infinity"}, {"exclusive"}, {1})
             \cup LocksOn({<<1, 1>>, <<2>>}, {"0"}, {"exclusive"}, {2})
             \cup LocksOn({<<1>>}, {"infinity"}, {"shared"}, {2})

-----------------------------------------------------------------------------
\* The parser accepts the headers that are well formed, and reads the lists in them; without
\* bare words and empty brackets they are those of the RFC.
Lexemes == {Mark("("), Mark(")"), Mark("Not"), Angle(t1), Angle(NoName), Square(Root), Word(t1), Stray}
ASSUME ParserAgrees ==
    \A n \in 0..6 : \A raw \in [1..n -> Lexemes] :
        /\ WellFormed(raw) <=> Parse(raw).at = "between"
        /\ WellFormed(raw) => Lists(raw) = Parse(raw).lists
        /\ Standard(raw) <=> WellFormed(raw) /\ Bracketed(raw)
=============================================================================
