----------------------------- MODULE MCSubRepo -----------------------------
(* Values for model checking module SubRepo *)
EXTENDS SubRepoProps, TLC

CONSTANTS a, b, c

Sizes == a :> 2 @@ b :> 1 @@ c :> 0
CreatedInTurn == a :> 0 @@ b :> 1 @@ c :> 1

=============================================================================
