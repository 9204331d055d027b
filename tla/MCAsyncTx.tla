----------------------------- MODULE MCAsyncTx -----------------------------
(* Model values for AsyncTx: two senders and two closers race on a channel *)
(* that is full after two frames.                                           *)
EXTENDS AsyncTx
=============================================================================
