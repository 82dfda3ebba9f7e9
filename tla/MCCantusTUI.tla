----------------------------- MODULE MCCantusTUI -----------------------------
(* CantusTUI with a record that runs are evicted from.                     *)
EXTENDS CantusTUI, TLC
=============================================================================
