----------------------------- MODULE MCFirmware -----------------------------
(* Two ports, as on the FMC. The application starts with FEC off, so that    *)
(* ports cabled to each other link without fallback, and the FEC key takes   *)
(* it to a mode that has one. Clocks wrap just above the longest timer. The  *)
(* automatic start takes one period more than DHCP, as in the code.          *)
EXTENDS Firmware
ASSUME MCTimersFit == TimersFit
MCStatic == [n \in Ports |-> IF n = 0 THEN "static 0" ELSE "static 1"]
=============================================================================
