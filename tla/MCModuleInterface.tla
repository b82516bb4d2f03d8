------------------------- MODULE MCModuleInterface -------------------------
(* Two instances of the arbitration: "wifi" (wifi-nm, wifi-iwd) and          *)
(* "volume-control" (alsactl, pulsectl).                                     *)
EXTENDS ModuleInterface

CONSTANTS p1, p2, pulse, alsa

MCWifi == {p1, p2}
MCVolume == {pulse, alsa}
MCWifiPosts == [p \in MCWifi |-> 1]
MCVolumePosts == [p \in MCVolume |-> IF p = pulse THEN 2 ELSE 1]
=============================================================================
