------------------------------- MODULE Keyset -------------------------------
(***************************************************************************)
(* Keyset pagination (tools/_common.py and every list tool): a page is the *)
(* first rows after the cursor in the listing's order, and the cursor is   *)
(* the ordering key of the last row given.  Keys are tuples of numbers,    *)
(* compared from the left, greatest first.                                 *)
(***************************************************************************)
EXTENDS Naturals, Sequences, FiniteSets

\* keyset_predicate with "<": (a < ?) OR (a = ? AND b < ?) OR ...  In a listing
\* the row with key t then comes after the one with key c.
Precedes(t, c) == \E i \in 1 .. Len(c) : t[i] < c[i] /\ \A j \in 1 .. i - 1 : t[j] = c[j]

\* Mutant of After: only the first part of the key is compared.
AfterFirstPart(S, key, c) == {r \in S : c = <<>> \/ key[r][1] < c[1]}

\* The rows after the cursor; without a cursor (here <<>>) there is no clause.
After(S, key, c) == {r \in S : c = <<>> \/ Precedes(key[r], c)}

\* ORDER BY the key DESC LIMIT n
Top(S, key, n) == {r \in S : Cardinality({q \in S : Precedes(key[r], key[q])}) < n}

\* The row a page ends with.
LastOf(rows, key) == CHOOSE r \in rows : \A q \in rows : q = r \/ Precedes(key[r], key[q])

\* A reading, page by page: whether another page is due, the cursor, the rows
\* given so far, and whether one of them was given twice.
Unstarted == [more |-> TRUE, cursor |-> <<>>, got |-> {}, again |-> FALSE]

\* Mutant of Fetch: pages by OFFSET.
FetchByOffset(reading, S, key, n) ==
    LET start == Cardinality(reading.got)
        place(r) == Cardinality({q \in S : Precedes(key[r], key[q])})
        rows == {r \in S : start <= place(r) /\ place(r) < start + n}
    IN  [more |-> Cardinality(S) > start + n, cursor |-> <<>>, got |-> reading.got \cup rows,
         again |-> reading.again \/ rows \cap reading.got # {}]

\* One call: limit + 1 rows tell whether there is a next cursor.
Fetch(reading, S, key, n) ==
    LET rest == After(S, key, reading.cursor)
        rows == Top(rest, key, n)
    IN  [more |-> rest # rows,
         cursor |-> IF rest = rows THEN <<>> ELSE key[LastOf(rows, key)],
         got |-> reading.got \cup rows,
         again |-> reading.again \/ rows \cap reading.got # {}]
=============================================================================
