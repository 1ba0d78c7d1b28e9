-------------------------- MODULE HostedCheckoutMC --------------------------
(* Small instances of HostedCheckout for TLC. *)
EXTENDS HostedCheckout, TLC

(* In-flight requests, and the contents they carry, differ only by name. *)
RequestSymmetry == Permutations(Requests) \cup Permutations(Offers)
=============================================================================
