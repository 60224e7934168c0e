---------------------------- MODULE MCGattClient ----------------------------
(* Model values for GattClient: the four built-in services and the vendor's. *)
EXTENDS GattClient

Service(v, s, n, w, c) ==
  [vendor |-> v, svc |-> s, notify |-> n, write |-> w, custom |-> c]

CH9141  == Service(FALSE, TRUE, TRUE, "uuid", TRUE)
Nordic  == Service(FALSE, TRUE, TRUE, "uuid", FALSE)
BT05    == Service(FALSE, TRUE, TRUE, "same", FALSE)
Unset   == Service(TRUE, FALSE, FALSE, "none", FALSE)
Vendor  == Service(TRUE, TRUE, TRUE, "same", TRUE)

AllServices   == {CH9141, Nordic, BT05, Unset, Vendor}
NordicOnly    == {Nordic}
CH9141Only    == {CH9141}
FixedServices == {CH9141, BT05}
=============================================================================
