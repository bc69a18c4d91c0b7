---------------------------- MODULE MCCliWriter ----------------------------
(* A switch of two ports, two VLANs and two collectors.                    *)
EXTENDS CliWriter

CONSTANTS v1, v2, p1, p2, h1, h2
=============================================================================
