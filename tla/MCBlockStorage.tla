--------------------------- MODULE MCBlockStorage ---------------------------
(* A session of the product, whose state image is made from a template, and *)
(* one of an environment, whose images are files.  The environment has the  *)
(* identifier of the product, which is the default of its initializer; the  *)
(* bundle has a second root image, which neither boots.                     *)
EXTENDS BlockStorageProperties, TLC

CONSTANTS product, environment, bundle, spare, copy, default, other

MCName == bundle :> default @@ copy :> default @@ spare :> other
MCWants == [s \in Session |-> default]
MCRegisters == product :> <<spare, bundle>> @@ environment :> <<copy>>

(* The base image of the product ends within a sector, and so does its     *)
(* template, which is copied in two pieces.                                *)
MCBaseUnits == bundle :> 3 @@ spare :> 1 @@ copy :> 1
MCTemplateUnits == bundle :> 3 @@ spare :> 1 @@ copy :> 2
MCStateFile == [r \in RootImage |-> r]
=============================================================================
