--------------------------- MODULE MCDeviceControl ---------------------------
(* Status vectors as programmed by flashbins/create_status_vectors.py.     *)
EXTENDS DeviceControl

StatusVectors == [dhcp : {"yes", "no"}, target : {"a1"}, proto : {"ble"}, chan : {37},
                  running : BOOLEAN]
==============================================================================
