----------------------------- MODULE ApiServer -----------------------------
(***************************************************************************)
(* What the operators, the gateways and the HTTP API share of the          *)
(* Kubernetes API server: how a patch made with client.MergeFrom is        *)
(* applied.  The patch is a JSON merge patch: it carries the fields in     *)
(* which the new object differs from the copy it was made from, replaces   *)
(* each of them whole (a list too), leaves the others alone, and carries   *)
(* no resourceVersion, so that it is never refused for being old.          *)
(***************************************************************************)

MergePatch(server, base, new) ==
  [f \in DOMAIN server |-> IF new[f] # base[f] THEN new[f] ELSE server[f]]

=============================================================================
