------------------------------ MODULE MCIngest -----------------------------
(***************************************************************************)
(* A small instance of Ingest for TLC.  The uploads differ in their bodies *)
(* and in what may go wrong with them: everything, everything but a lost   *)
(* answer of the INSERT, or only what is reported truthfully.              *)
(***************************************************************************)
EXTENDS Ingest

CONSTANTS unlucky, failing, plain

\* The app sends one "audio" part; some other client sends two.
MCBodies ==
    [u \in Uploads |->
        CASE u = unlucky -> {<<"audio">>}
          [] u = failing -> {<<"text", "audio">>}
          [] u = plain   -> {<<"audio", "text">>, <<"audio", "audio">>, <<"text">>,
                             <<"notAudio">>}]

MCHasArtwork == [u \in Uploads |-> u # plain]

MCFaults ==
    [u \in Uploads |->
        CASE u = unlucky -> FaultKinds
          [] u = failing -> FaultKinds \ {"lostInsert"}
          [] OTHER       -> HonestFaults]
=============================================================================
