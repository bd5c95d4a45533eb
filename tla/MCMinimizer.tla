----------------------------- MODULE MCMinimizer -----------------------------
(* Sources of up to eight lines under every predicate: with eight           *)
(* evaluations the longer searches are cut short, with fifty none is.       *)
EXTENDS Minimizer, TLC
=============================================================================
