---------------------------- MODULE MCEmailOutbox ----------------------------
(* The schedule drains every mail, an administrator those of an organization. *)
EXTENDS EmailOutbox

CONSTANT schedule, admin

MCScope   == [d \in Drainer |-> IF d = schedule THEN Mail ELSE 2 .. Mails]
MCRefused == {1}
=============================================================================
