---------------------------- MODULE MCUsbDevice ----------------------------
(* The two control pipes and a bulk pipe from the host, one address, packets
   of one unit and transfers of up to two: the transfers to the host are those
   of the control pipe. *)
EXTENDS UsbDevice

Pipes == {<<1, "OUT">>}
=============================================================================
