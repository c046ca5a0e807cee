----------------------------- MODULE MCExchange -----------------------------
(***************************************************************************)
(* Small SCoPs, each with every damage to a field of its file.             *)
(***************************************************************************)
EXTENDS ScopUse

Matrix(name, type, dims) ==
  [name |-> name, type |-> type, isArrayKind |-> TRUE, dims |-> dims]
Scalar(name, type) ==
  [name |-> name, type |-> type, isArrayKind |-> FALSE, dims |-> <<>>]

Stmt(name, accesses) ==
  [name |-> name,
   accesses |-> [i \in DOMAIN accesses |->
                   [kind |-> accesses[i][1], array |-> accesses[i][2]]]]

MCDependences == [k \in DependenceKinds |-> <<k>>]

ScopOf(arrays, statements) ==
  [name |-> "entry---exit", context |-> <<"ctx">>, arrays |-> arrays,
   statements |-> statements, dependences |-> MCDependences]

Kernel == <<Stmt("Stmt1", <<<<"read", "A">>, <<"write", "B">>>>),
            Stmt("Stmt2", <<<<"write", "A">>>>)>>

\* A product of matrices with a scalar; integers, parametric and large sizes;
\* and a SCoP of no arrays, whose statement accesses nothing.
MCScops ==
  {ScopOf(<<Matrix("A", "double", <<Unknown, Number(2)>>), Scalar("B", "float")>>,
          Kernel),
   ScopOf(<<Matrix("A", "double", <<Number(2), Number(3)>>),
            Matrix("B", "i32", <<Unknown>>)>>, Kernel),
   ScopOf(<<Matrix("A", "double", <<Unknown, Symbol>>), Scalar("B", "double")>>,
          Kernel),
   ScopOf(<<Matrix("A", "double", <<Unknown, Number(9)>>), Scalar("B", "i64")>>,
          Kernel),
   ScopOf(<<>>, <<Stmt("Stmt1", <<>>)>>)}
=============================================================================
