--------------------------- MODULE MCSmapLinuxInit ---------------------------
(***************************************************************************)
(* SmapLinuxInit for TLC.  Words of three bits: two EEPROMs whose checksum *)
(* is right, one of them by overflow, and one whose checksum is wrong.     *)
(***************************************************************************)
EXTENDS SmapLinuxInit, TLC

Words(a, b, c, d) == 0 :> a @@ 1 :> b @@ 2 :> c @@ 3 :> d
Eeproms == {Words(1, 4, 2, 7), Words(6, 3, 5, 6), Words(3, 1, 2, 5)}
=============================================================================
