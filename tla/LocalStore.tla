----------------------------- MODULE LocalStore -----------------------------
(* The processes of one machine that use its database and its keyring. *)

CONSTANTS Processes,
          None \* Python's None; of a lock, that no process holds it

ASSUME ProcessAssumption == None \notin Processes
=============================================================================
