-------------------------------- MODULE Sums --------------------------------
(***************************************************************************)
(* COALESCE(SUM(column), 0), the aggregate every balance of the system is  *)
(* derived with: supply and holdings are never stored, they are summed     *)
(* from append-only tables (README.md, "Derived State").                   *)
(***************************************************************************)
EXTENDS FiniteSetsExt

\* The sum of f[x] over the elements x of the finite set S; 0 when S = {}.
SumOver(f, S) == MapThenSumSet(LAMBDA x : f[x], S)

=============================================================================
