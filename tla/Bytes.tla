------------------------------- MODULE Bytes -------------------------------
(* Sums over a column of the files table, as SUM(size) takes them. *)
EXTENDS Naturals, FiniteSets

\* The bytes of every file of S, each byte named by its file and its place.
ByteSet(column, S) == UNION {{f} \X (1 .. column[f]) : f \in S}

\* COALESCE(SUM(column), 0) over the rows S, by counting the bytes.
TotalBytes(column, S) == Cardinality(ByteSet(column, S))
=============================================================================
