--------------------------- MODULE VersionedView ---------------------------
(***************************************************************************)
(* What the batch authority promises a reader, with nothing of how it      *)
(* keeps the promise: every collection shows one complete reading per      *)
(* scope, and a reading is only ever replaced, as a whole and in one step, *)
(* by a complete one that carries a generation above every earlier one     *)
(* (DESIGN section 19, "the collator decides what is newest, not the       *)
(* arrival order").                                                        *)
(***************************************************************************)
EXTENDS Naturals

CONSTANTS
  Collections,  \* collection names
  Scopes,       \* the host-native scope and the instance scopes
  Contents,     \* complete object sets a commit can carry
  Empty         \* the object set with nothing in it

VARIABLES
  generation,   \* generation[c]: the reading served, 0 before the first
  view          \* view[c][s]: the objects served for scope s

vvars == <<generation, view>>

VInit ==
  /\ generation = [c \in Collections |-> 0]
  /\ view = [c \in Collections |-> [s \in Scopes |-> Empty]]

(* A newer complete reading takes the place of the older one; which        *)
(* generation it carries is the issuer's business, so long as it is above. *)
Supersede(c, s, x) ==
  /\ generation'[c] \in Nat
  /\ generation'[c] > generation[c]
  /\ generation' = [generation EXCEPT ![c] = generation'[c]]
  /\ view' = [view EXCEPT ![c] = [view[c] EXCEPT ![s] = x]]

VNext ==
  \E c \in Collections, s \in Scopes, x \in Contents : Supersede(c, s, x)

VSpec == VInit /\ [][VNext]_vvars
=============================================================================
