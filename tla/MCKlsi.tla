------------------------------- MODULE MCKlsi -------------------------------
(***************************************************************************)
(* Klsi for TLC: a table of two entries and three hosts, of which h1 is    *)
(* the gateway, so that a third host finds the table full.                 *)
(***************************************************************************)
EXTENDS Klsi

CONSTANTS h1, h2, h3

Frame(kind, from, to) == [kind |-> kind, from |-> from, to |-> to]

\* One of each that etharp.c tells apart.
Some == {Frame("ip", h2, Me), Frame("request", h3, Me), Frame("reply", h2, h3)}
=============================================================================
