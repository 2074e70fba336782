----------------------------- MODULE MCInvoices -----------------------------
(***************************************************************************)
(* Instances of Invoices for TLC.  Subtotals are hundreds so that a        *)
(* percentage of one is whole.                                             *)
(***************************************************************************)
EXTENDS Invoices, TLC

CONSTANTS v1, v2, r1, r2, r3, r4, r5, typed

RequestSymmetry == Permutations(Requests)

AllKinds == {"create", "patch", "cancel", "pay", "generate", "revoke"}

\* Everything but PAID and PARTIAL, which the payments set.
NoPaidByHand == {"DRAFT", "SENT", "OVERDUE", "CANCELLED"}

\* A clerk who cancels by DELETE only.
AllButCancelled == Statuses \ {"CANCELLED"}

PaymentKinds == {"create", "patch", "pay"}

=============================================================================
