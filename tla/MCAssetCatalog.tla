--------------------------- MODULE MCAssetCatalog ---------------------------
(* A small instance of AssetCatalog.  With two runs, one can take the      *)
(* dataset that the other generates.                                       *)
EXTENDS AssetCatalog, TLC

Symmetry == Permutations(Runs)
=============================================================================
