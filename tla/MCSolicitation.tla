---------------------------- MODULE MCSolicitation ----------------------------
(* Two kinds of request over a pool of two workers: one with three rows,   *)
(* two of them of one store; one with a store that has no endpoint.        *)
EXTENDS Solicitation, TLC

CONSTANTS s1, s2, s3

MCStores   == {s1, s2, s3}
MCRosters  == {<<s1, s2, s1>>, <<s3, s2>>}
MCEndpoint == {s1, s2}
=============================================================================
