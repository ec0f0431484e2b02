--------------------------- MODULE MCAvailability ---------------------------
(* Small instances of Availability for TLC. *)
EXTENDS Availability, TLC

CONSTANTS e1, e2, hue, zha

\* One entity each of two integrations.
TwoOfTwo == (e1 :> hue) @@ (e2 :> zha)

\* They may change places, with their integrations.
Alike ==
  {(e1 :> e1) @@ (e2 :> e2) @@ (hue :> hue) @@ (zha :> zha),
   (e1 :> e2) @@ (e2 :> e1) @@ (hue :> zha) @@ (zha :> hue)}

\* One entity.
One == e1 :> hue

=============================================================================
