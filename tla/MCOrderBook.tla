---------------------------- MODULE MCOrderBook ----------------------------
(* TLC instance of OrderBook.                                              *)
EXTENDS OrderBook, TLC

UserSymmetry == Permutations(Users)
=============================================================================
