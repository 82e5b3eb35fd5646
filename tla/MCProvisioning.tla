--------------------------- MODULE MCProvisioning ---------------------------
(* An instance of Provisioning for TLC: one operator runs every command,   *)
(* another one, whose session is live, ensures an identity.                *)
EXTENDS ProvisioningProperties, TLC

CONSTANTS o1, o2

MCRuns ==
  (o1 :> {<<"auth", FALSE>>, <<"discover", TRUE>>, <<"blueprint", FALSE>>, <<"blueprint", TRUE>>,
          <<"identity", TRUE>>, <<"role", TRUE>>, <<"role", FALSE>>})
  @@ (o2 :> {<<"identity", FALSE>>})
=============================================================================
