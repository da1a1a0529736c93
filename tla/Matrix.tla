------------------------------- MODULE Matrix -------------------------------
(***************************************************************************)
(* detail::Matrix: rows that are stored one after the other in a flat      *)
(* vector, and the length of a row.  The number of rows is not stored, so  *)
(* an empty matrix may still have a length of rows, which the next row     *)
(* replaces.  Rows are handed out as proxies of a matrix and an index.     *)
(*                                                                         *)
(* mxRows is the sequence of rows that the class stands for.  A row that   *)
(* is appended or assigned must not be one of the same vector that may     *)
(* move: those calls are left out.                                         *)
(***************************************************************************)
EXTENDS Integers, Sequences

Lists == INSTANCE SequencesExt

CONSTANTS MxValues, MxDefault, MxMaxRows, MxMaxCols

ASSUME MxAssumption == MxDefault \in MxValues /\ {MxMaxRows, MxMaxCols} \subseteq Nat \ {0}

VARIABLES mxData, mxCols, mxRows

mxVars == <<mxData, mxCols, mxRows>>

-----------------------------------------------------------------------------
IsEmpty == mxData = <<>>
NRows == IF IsEmpty THEN 0 ELSE Len(mxData) \div mxCols

\* operator()(row, col); indices count from 1.
Entry(r, c) == mxData[(r - 1) * mxCols + c]

\* A row proxy: from begin() to end().
RowRef(r) == [c \in 1 .. mxCols |-> Entry(r, c)]

\* column(), and the rows that front() and back() lead to.
Column(c) == [r \in 1 .. NRows |-> Entry(r, c)]
FrontRow == RowRef(1)
BackRow == RowRef(NRows)

Rows == UNION {[1 .. n -> MxValues] : n \in 1 .. MxMaxCols}
Tables == {<<r, s>> : r, s \in Rows}
Constant(n, v) == [i \in 1 .. n |-> v]

MxInit == mxData = <<>> /\ mxCols = 0 /\ mxRows = <<>>

\* Matrix(nrows, ncols, init)
ConstructConstant(n, m, v) ==
    /\ mxData' = Constant(n * m, v) /\ mxCols' = m
    /\ mxRows' = Constant(n, Constant(m, v))

\* Matrix(initializer_list): rows of one length.
ConstructList(list) ==
    /\ \A i \in DOMAIN list : Len(list[i]) = Len(list[1])
    /\ mxData' = Lists!FlattenSeq(list) /\ mxCols' = Len(list[1])
    /\ mxRows' = list

\* Matrix(first, last), from rows of this matrix; an empty range leaves it empty.
CopyRows(first, last) ==
    /\ 1 <= first /\ first <= last /\ last <= NRows + 1
    /\ LET begin == (first - 1) * mxCols
       IN mxData' = SubSeq(mxData, begin + 1, begin + (last - first) * mxCols)
    /\ mxCols' = IF first = last THEN 0 ELSE mxCols
    /\ mxRows' = SubSeq(mxRows, first, last - 1)

\* Variant: the first row decides about the length of all later ones.
AppendKeepingLength(row) ==
    /\ NRows = 0 \/ Len(row) = mxCols
    /\ mxData' = mxData \o row /\ mxCols' = IF mxCols = 0 THEN Len(row) ELSE mxCols
    /\ mxRows' = Append(mxRows, row)

\* append_row()
AppendRow(row) ==
    /\ NRows = 0 \/ Len(row) = mxCols
    /\ mxData' = mxData \o row /\ mxCols' = Len(row)
    /\ mxRows' = Append(mxRows, row)

\* data_.resize(nrows * ncols, val)
ResizedData(n, v) == [i \in 1 .. n |-> IF i <= Len(mxData) THEN mxData[i] ELSE v]

\* pop_back() is a resize by one row.
PopRow == /\ ~ IsEmpty
           /\ mxData' = ResizedData((NRows - 1) * mxCols, MxDefault) /\ UNCHANGED mxCols
           /\ mxRows' = SubSeq(mxRows, 1, Len(mxRows) - 1)

\* resize(): the elements keep their order, not their columns.
ResizeRows(n, m, v) ==
    /\ mxData' = ResizedData(n * m, v) /\ mxCols' = m
    /\ LET old == Lists!FlattenSeq(mxRows)
       IN mxRows' = [r \in 1 .. n |-> [c \in 1 .. m |->
                       LET i == (r - 1) * m + c IN IF i <= Len(old) THEN old[i] ELSE v]]

ClearRows == mxData' = <<>> /\ mxCols' = 0 /\ mxRows' = <<>>

\* The data after the elements of row r are assigned.
WithRow(data, r, row) ==
    [i \in DOMAIN data |-> IF (i - 1) \div mxCols + 1 = r THEN row[((i - 1) % mxCols) + 1]
                           ELSE data[i]]

\* MatrixRowRef::operator=
AssignRow(r, row) ==
    /\ r \in 1 .. NRows /\ Len(row) = mxCols
    /\ mxData' = WithRow(mxData, r, row) /\ UNCHANGED mxCols
    /\ mxRows' = [mxRows EXCEPT ![r] = row]

\* MatrixRowRef::swap with another row of the matrix.
SwapRows(r, s) ==
    /\ {r, s} \subseteq 1 .. NRows
    /\ mxData' = WithRow(WithRow(mxData, r, RowRef(s)), s, RowRef(r)) /\ UNCHANGED mxCols
    /\ mxRows' = [mxRows EXCEPT ![r] = mxRows[s], ![s] = mxRows[r]]

MxNext == \/ \E n \in 0 .. MxMaxRows, m \in 1 .. MxMaxCols, v \in MxValues :
                ConstructConstant(n, m, v) \/ ResizeRows(n, m, v)
          \/ \E list \in Tables : ConstructList(list)
          \/ \E i, j \in 1 .. MxMaxRows + 1 : CopyRows(i, j)
          \/ \E row \in Rows : \/ NRows < MxMaxRows /\ AppendRow(row)
                               \/ \E r \in 1 .. MxMaxRows : AssignRow(r, row)
          \/ \E r, s \in 1 .. MxMaxRows : SwapRows(r, s)
          \/ PopRow \/ ClearRows

MxSpec == MxInit /\ [][MxNext]_mxVars

\* operator==: empty matrices are equal whatever length of rows is left in them.
SameRows(data, cols) == \/ IsEmpty /\ data = <<>>
                        \/ mxCols = cols /\ mxData = data

-----------------------------------------------------------------------------
\* The flat vector and the length of a row always are the rows that were put into
\* the matrix: after rows of another length have followed removed ones, after rows
\* were swapped or assigned in place, and in a matrix that was made of a part of it.
MatrixIsRows ==
    /\ NRows = Len(mxRows)
    /\ \A r \in 1 .. NRows : RowRef(r) = mxRows[r]
    /\ ~ IsEmpty => /\ FrontRow = mxRows[1] /\ BackRow = mxRows[Len(mxRows)]
                    /\ \A c \in 1 .. mxCols : Column(c) = [r \in 1 .. Len(mxRows) |-> mxRows[r][c]]
    /\ SameRows(Lists!FlattenSeq(mxRows), IF mxRows = <<>> THEN 0 ELSE Len(mxRows[1]))
=============================================================================
