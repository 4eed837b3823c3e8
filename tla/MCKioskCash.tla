---------------------------- MODULE MCKioskCash ----------------------------
(* Two customers one after the other at a kiosk. *)
EXTENDS KioskCash

MCSessions == 1..2
MCOneSession == {1}
=============================================================================
