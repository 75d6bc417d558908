------------------------ MODULE MCRemoteAttestation ------------------------
(* Small instances of RemoteAttestation: two rounds and up to three power  *)
(* transitions, which uses up the retry of both rounds.                    *)
EXTENDS RemoteAttestation

MCMaxLost == 3
=============================================================================
