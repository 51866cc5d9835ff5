------------------------------- MODULE MCCors -------------------------------
(* Cors for TLC: lists of headers with and without a wildcard.               *)
EXTENDS Cors

MCOriginLists == {<<"a">>}
MCHeaderLists == {<<"X-A">>, <<"X-A", "*">>}
=============================================================================
