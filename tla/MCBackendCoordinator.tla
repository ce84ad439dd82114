------------------------- MODULE MCBackendCoordinator -------------------------
(* BackendCoordinator with both, one or no backend, LIVE or not.           *)
EXTENDS BackendCoordinator

MCConfigurations ==
    {[requested |-> {"manual", "imu"}, mode |-> "Live"],
     [requested |-> {"manual", "imu"}, mode |-> "Shadow"],
     [requested |-> {"imu"}, mode |-> "Live"],
     [requested |-> {}, mode |-> "Disabled"]}

=============================================================================
