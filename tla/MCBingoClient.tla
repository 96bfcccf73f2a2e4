---------------------------- MODULE MCBingoClient ----------------------------
(* Model-checking instance of BingoClient: three volumes, two storages,    *)
(* pages of one volume so that a listing takes several DescribeVolumes.    *)
EXTENDS BingoClient

CONSTANTS d1, d2, d3

MCDisks == {d1, d2, d3}
MCDiskOrder == <<d1, d2, d3>>
=============================================================================
