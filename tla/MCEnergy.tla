------------------------------ MODULE MCEnergy ------------------------------
(* Small books: prices of a few units, a budget that admits the root and   *)
(* about one batch below it, and a batch one longer than the cap.          *)
EXTENDS EnergyAdmission

(* The run ends with the tick in which the root closes. *)
RootOpen == energy.status[Root] = "open"
=============================================================================
