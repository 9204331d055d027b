--------------------------- MODULE MCClientStream ---------------------------
(***************************************************************************)
(* Scripts of up to three items: frames without and with a payload, one     *)
(* with the high bit of its length set, and an item with a bad length.      *)
(***************************************************************************)
EXTENDS ClientStream

CONSTANT MaxItems

Sends(id, data, flag) ==
    LET f == [id |-> id, data |-> data]
    IN  [bytes |-> EncodeTo(f, flag), frame |-> <<f>>]

Items == {Sends(<<1, 2>>, <<>>, 0), Sends(<<1, 0>>, <<2>>, 0),
          Sends(<<2, 1>>, <<1, 3>>, LenMask),
          [bytes |-> <<1, 1, MaxLen + 1>>, frame |-> <<>>]}

MCScripts == UNION {[1..m -> Items] : m \in 1..MaxItems}
=============================================================================
