--------------------------- MODULE MCHttpsClient -----------------------------
(* Instances of HttpsClient for TLC.                                       *)
EXTENDS HttpsClient

\* libcurl's "no limit" and a value libcurl refuses; the limit at first is 30.
MCTimeouts == {-1, 0}
=============================================================================
