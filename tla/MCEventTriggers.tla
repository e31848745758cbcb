-------------------------- MODULE MCEventTriggers --------------------------
(***************************************************************************)
(* A superuser, the privileged role and a reserved role; a function of     *)
(* each of the first two, with and without SECURITY DEFINER.               *)
(***************************************************************************)
EXTENDS EventTriggers

CONSTANTS su, priv

MCFunctions == {"f_su", "fd_su", "f_priv", "fd_priv"}

MCOwnerOf == [fn \in MCFunctions |-> IF fn \in {"f_su", "fd_su"} THEN su ELSE priv]

MCDefiners == {"fd_su", "fd_priv"}

=============================================================================
