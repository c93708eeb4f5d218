-------------------------- MODULE MCServerLifecycle -------------------------
(* A small instance of ServerLifecycle for TLC. *)
EXTENDS ServerLifecycle

CONSTANTS default, edited, wrong

TwoValid   == {default, edited}
OneInvalid == {wrong}
=============================================================================
