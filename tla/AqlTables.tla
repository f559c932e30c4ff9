----------------------------- MODULE AqlTables ------------------------------
(***************************************************************************)
(* The single sampling plans of aql_service.py: the code letters and the   *)
(* sampling table, and how compute_sample_size reads them.  AQL levels are *)
(* in hundredths of a percent (1.5 is 150).                                *)
(***************************************************************************)
EXTENDS Naturals, Sequences

\* _CODE_LETTER_TABLE: the largest lot each row stands for.
CODE_LETTER_TABLE ==
    << <<8, "A">>, <<15, "B">>, <<25, "C">>, <<50, "D">>, <<90, "E">>,
       <<150, "F">>, <<280, "G">>, <<500, "H">>, <<1200, "J">>, <<3200, "K">>,
       <<10000, "L">>, <<35000, "M">>, <<150000, "N">>, <<500000, "P">> >>

\* The columns of _SAMPLING_TABLE, in the order of its rows' keys.
AQL_LEVELS == <<65, 100, 150, 250>>

\* _SAMPLING_TABLE: sample size and acceptance numbers by column; every row
\* has one sample size.
SAMPLING_TABLE ==
    [A |-> [size |-> 2,    accept |-> <<0, 0, 0, 0>>],
     B |-> [size |-> 3,    accept |-> <<0, 0, 0, 0>>],
     C |-> [size |-> 5,    accept |-> <<0, 0, 0, 1>>],
     D |-> [size |-> 8,    accept |-> <<0, 0, 0, 0>>],
     E |-> [size |-> 13,   accept |-> <<0, 0, 0, 1>>],
     F |-> [size |-> 20,   accept |-> <<0, 0, 1, 1>>],
     G |-> [size |-> 32,   accept |-> <<0, 1, 1, 2>>],
     H |-> [size |-> 50,   accept |-> <<1, 1, 2, 3>>],
     J |-> [size |-> 80,   accept |-> <<1, 2, 3, 5>>],
     K |-> [size |-> 125,  accept |-> <<2, 3, 5, 7>>],
     L |-> [size |-> 200,  accept |-> <<3, 5, 7, 10>>],
     M |-> [size |-> 315,  accept |-> <<5, 7, 10, 14>>],
     N |-> [size |-> 500,  accept |-> <<7, 10, 14, 21>>],
     P |-> [size |-> 800,  accept |-> <<10, 14, 21, 21>>],
     Q |-> [size |-> 1250, accept |-> <<14, 21, 21, 21>>]]

\* The first row the lot fits in, or the last letter.
CodeLetter(n) ==
    LET fits == {i \in DOMAIN CODE_LETTER_TABLE : n <= CODE_LETTER_TABLE[i][1]}
    IN  IF fits = {} THEN "Q"
        ELSE CODE_LETTER_TABLE[CHOOSE i \in fits : \A j \in fits : i <= j][2]

Distance(x, y) == IF x <= y THEN y - x ELSE x - y

\* A slip: the column farthest away.
ClosestAql_Farthest(aql) ==
    CHOOSE i \in DOMAIN AQL_LEVELS : \A j \in DOMAIN AQL_LEVELS :
        Distance(AQL_LEVELS[i], aql) >= Distance(AQL_LEVELS[j], aql)

\* The nearest column, the earlier one on a tie, as Python's min has it.
ClosestAql(aql) ==
    CHOOSE i \in DOMAIN AQL_LEVELS : \A j \in DOMAIN AQL_LEVELS :
        \/ Distance(AQL_LEVELS[i], aql) < Distance(AQL_LEVELS[j], aql)
        \/ Distance(AQL_LEVELS[i], aql) = Distance(AQL_LEVELS[j], aql) /\ i <= j

\* compute_sample_size
SampleSize(n) == SAMPLING_TABLE[CodeLetter(n)].size

AcceptanceNumber(n, aql) == SAMPLING_TABLE[CodeLetter(n)].accept[ClosestAql(aql)]

=============================================================================
