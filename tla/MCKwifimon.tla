------------------------------ MODULE MCKwifimon ------------------------------
(***************************************************************************)
(* Kwifimon on small instances: the frames TLC plays, and the properties.  *)
(***************************************************************************)
EXTENDS Kwifimon

Frame(type, head, kind) ==
    [pkt_type |-> type, head |-> head, rx_pkt_type |-> kind]

\* One frame for each way through the hook: event 0x123 (with a flag bit above
\* the 12 that count), another event, a command response, data, management,
\* A-MSDU and block ack.
Evt123  == Frame(3, 4387, 0)
OtherEv == Frame(3, 64, 0)
CmdResp == Frame(1, 291, 0)
Data    == Frame(0, 60, 0)
Mgmt    == Frame(0, 60, PKT_TYPE_MGMT)
Amsdu   == Frame(10, 60, PKT_TYPE_AMSDU)
Bar     == Frame(0, 60, PKT_TYPE_BAR)

OneFrame   == {Mgmt}
TwoKinds   == {Evt123, Amsdu}
Uncounted  == {Mgmt, OtherEv}
PassedOn   == {Data, Bar}
===============================================================================
