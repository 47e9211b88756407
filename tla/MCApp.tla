--------------------------------- MODULE MCApp --------------------------------
(***************************************************************************)
(* App on a small instance.                                                *)
(***************************************************************************)
EXTENDS App

OneFrame == {[pkt_type |-> 0, head |-> 60, rx_pkt_type |-> PKT_TYPE_MGMT]}

\* Each button alone, and pairs: one that ends the loop with one that is lost
\* with it, two calls in a row, and a call after the patch.
SomePads == {{}, {Circle}, {Triangle}, {Square}, {Left}, {Right},
             {Circle, Triangle}, {Triangle, Left}, {Square, Right}}
===============================================================================
