--------------------------- MODULE MCLaunchToken ---------------------------
(* Small instances of LaunchToken: two BEAMs, so that their loads overlap, *)
(* two builds of the enclave, and four loads, two for each BEAM.           *)
EXTENDS LaunchToken

CONSTANTS b1, b2, i1, i2

MCBeam == {b1, b2}
MCImage == {i1, i2}
MCMaxLoads == 4
MCMaxBuilds == 2
=============================================================================
