----------------------------- MODULE MCControl -----------------------------
(* Small instances of Control for TLC.                                     *)
EXTENDS Control

M(t, s) == [type |-> t, size |-> s]

\* Several messages on one connection: split payloads, types that are only
\* logged, a payload of the wrong size, a bad header in the middle.
OtherPrograms ==
    { << M("USE_ETHERNET", "other"), M("USE_ETHERNET", "name"), M("SHOW_NETWORKS", "none") >>,
      << M("USE_WIRELESS", "none"), M("NONE", "bad"), M("USE_NETWORKS", "none") >> }

NoPrograms == {}
=============================================================================
