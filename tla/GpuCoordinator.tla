--------------------------- MODULE GpuCoordinator ---------------------------
(***************************************************************************)
(* The coordinator of pb-gpu (coordinator.rs): the adapter's availability  *)
(* and the epoch that scope tokens carry, under one mutex.                 *)
(***************************************************************************)
EXTENDS Naturals

CONSTANTS
  Profile,    \* identity profiles
  MaxEpoch    \* bound: epochs (a wrapping u64 in the code)

ASSUME EpochAssumption == MaxEpoch \in Nat \ {0}

VARIABLES
  epoch,
  available   \* whether the adapter is there

Epoch == 1..MaxEpoch

\* What every renderer is told of the adapter, whatever the machine has.  The bytes of
\* max_buffer_size are 256 MiB.
LockedGpuLimits ==
  [max_texture_dimension_1d |-> 8192, max_texture_dimension_2d |-> 8192,
   max_texture_dimension_3d |-> 2048, max_texture_array_layers |-> 256,
   max_bind_groups |-> 4, max_buffer_size |-> 256 * 1024 * 1024,
   max_compute_workgroup_size_x |-> 256, max_compute_workgroup_size_y |-> 256,
   max_compute_workgroup_size_z |-> 64, max_compute_invocations_per_workgroup |-> 256]
AdapterDescriptor == [vendor |-> "Mozilla", features |-> {}, limits |-> LockedGpuLimits]

\* A token without its mode, which is a function of the profile.
Token(epochs) == [profile : Profile, epoch : epochs]

CoordinatorInit == epoch = 1 /\ available = TRUE

\* The tokens issue_scope_token can have returned so far, which renderers hold for
\* ever.  It refuses while the adapter is lost and changes nothing; every epoch
\* begins with the adapter available, so there may be a token of each.
Tokens == Token(1..epoch)

OnAdapterLoss ==
  /\ available' = FALSE
  /\ UNCHANGED epoch

BackToDefault ==
  /\ epoch' = 0
  /\ available' = TRUE

RecoverAfterLoss ==
  /\ epoch' = epoch + 1
  /\ available' = TRUE
=============================================================================
