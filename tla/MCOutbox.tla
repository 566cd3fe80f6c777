------------------------------ MODULE MCOutbox ------------------------------
(* The instance of Outbox that TLC checks: two versions of one write and one *)
(* other write by alice, on a device that bob signs in to as well.           *)
EXTENDS Outbox

CONSTANTS form, cash, alice, bob

MCTaps == 1..3
MCIdOf == <<form, cash, form>>
MCOwner == <<alice, alice, alice>>
=============================================================================
