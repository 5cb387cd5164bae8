---------------------------- MODULE AccessRules ----------------------------
(***************************************************************************)
(* pkg/auth/access.go: what an identity may do.                            *)
(*                                                                         *)
(* The code compares names trimmed and without regard to case; a name here *)
(* stands for all its spellings, and Blank for those that are empty once   *)
(* trimmed.                                                                *)
(***************************************************************************)
CONSTANTS Names, Blank

Identity ==
  [owner : BOOLEAN,
   permissions : SUBSET Names,
   contours : SUBSET [contour : Names, permissions : SUBSET Names]]

HasContour(identity, contour) ==
  \/ identity.owner
  \/ /\ contour # Blank
     /\ \E item \in identity.contours : item.contour = contour

HasPermission(identity, permission) ==
  \/ identity.owner
  \/ /\ permission # Blank
     /\ \/ permission \in identity.permissions
        \/ \E item \in identity.contours : permission \in item.permissions
=============================================================================
