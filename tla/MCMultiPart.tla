---------------------------- MODULE MCMultiPart -----------------------------
(* Values for MultiPart: a file smaller than a part, one of two parts and  *)
(* one with more parts than allowed, each with two threads, and one of     *)
(* three parts with one thread, so that parts wait for the pool.           *)
EXTENDS MultiPart

MCCases == {<<1, 2>>, <<3, 2>>, <<5, 1>>, <<8, 1>>}
=============================================================================
