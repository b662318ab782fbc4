------------------------------ MODULE MCMetasync ------------------------------
(* Instances of Metasync for TLC: two properties, one or both configured.  *)
EXTENDS Metasync

CONSTANTS k1, k2

TwoKeys == {k1, k2}
OneOrBoth == {<<k1>>, <<k1, k2>>}
=============================================================================
